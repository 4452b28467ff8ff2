---------------------- MODULE ResourceVersionsProofs ----------------------
(***************************************************************************)
(* What the versions of a resource promise, proved for every set of calls  *)
(* and any number of crashes, in whatever order the calls write the file   *)
(* and the index.                                                          *)
(***************************************************************************)
EXTENDS ResourceVersions, TLAPS

Locked == {"copy", "replace", "upload", "save", "saving"}

GoodIndex == {ix \in Index : ix.now <= Len(ix.versions)}

(* A version is added at the end, and becomes the current one.             *)
LEMMA Appended ==
  ASSUME NEW ix \in GoodIndex, NEW f \in Data, NEW jx,
         jx = [now |-> Len(ix.versions) + 1, versions |-> Append(ix.versions, f)]
  PROVE  /\ jx \in GoodIndex
         /\ jx.now \in 1..Len(jx.versions) /\ jx.versions[jx.now] = f
         /\ \A n \in 1..Len(ix.versions) :
              n \in 1..Len(jx.versions) /\ jx.versions[n] = ix.versions[n]
<1>1. ix.versions \in Seq(Data)
  BY DEF GoodIndex, Index
<1>2. jx.versions = Append(ix.versions, f) /\ jx.now = Len(ix.versions) + 1
  OBVIOUS
<1>3. /\ jx.versions \in Seq(Data) /\ Len(jx.versions) = Len(ix.versions) + 1
      /\ Len(ix.versions) \in Nat
      /\ jx.versions[Len(ix.versions) + 1] = f
      /\ \A n \in 1..Len(ix.versions) : jx.versions[n] = ix.versions[n]
  BY <1>1, <1>2
<1>4. jx \in Index
  BY <1>2, <1>3 DEF Index
<1> QED BY <1>2, <1>3, <1>4 DEF GoodIndex

(* Another version becomes the current one.                                *)
LEMMA Repointed ==
  ASSUME NEW ix \in GoodIndex, NEW n \in 1..Len(ix.versions), NEW jx,
         jx = [ix EXCEPT !.now = n]
  PROVE  jx \in GoodIndex /\ jx.versions = ix.versions /\ jx.now = n
<1>1. ix.versions \in Seq(Data) /\ ix \in [now : Nat, versions : Seq(Data)]
  BY DEF GoodIndex, Index
<1>2. jx.versions = ix.versions /\ jx.now = n /\ Len(ix.versions) \in Nat /\ n \in Nat
  BY <1>1
<1>3. jx = [now |-> n, versions |-> ix.versions]
  BY <1>1
<1>4. jx \in Index
  BY <1>1, <1>2, <1>3 DEF Index
<1>5. jx.now <= Len(jx.versions)
  BY <1>2
<1> QED BY <1>2, <1>4, <1>5 DEF GoodIndex

(***************************************************************************)
(* Types, and the lock                                                     *)
(***************************************************************************)

TypeInv ==
  /\ stage \in [Call -> Stages]
  /\ next \in [Call -> {"start", "produce", "sync"}]
  /\ file \in Data
  /\ index \in GoodIndex \cup {Torn}
  /\ loaded \in [Call -> GoodIndex]
  /\ remote \in [file : Data, index : GoodIndex]
  /\ mutex \in Call \cup {Free}
  /\ answer \in [Call -> Nat] /\ recorded \in [Call -> Data]
  /\ spoiled \in BOOLEAN /\ deaths \in Nat
  /\ \A c \in Call : stage[c] \in Locked <=> mutex = c
  /\ \A c \in Call : stage[c] \in {"upload", "save", "saving"}
                       => loaded[c].now \in 1..Len(loaded[c].versions)

(* A call that takes the lock, or finds the index torn.                    *)
LEMMA LoadsTypes ==
  ASSUME TypeInv, NEW c \in Call, stage[c] \notin Locked,
         NEW s \in {"copy", "replace"}, Loads(c, s)
  PROVE  /\ stage' \in [Call -> Stages] /\ loaded' \in [Call -> GoodIndex]
         /\ mutex' \in Call \cup {Free}
         /\ \A d \in Call : stage'[d] \in Locked <=> mutex' = d
         /\ \A d \in Call : stage'[d] \in {"upload", "save", "saving"}
                              => stage[d] = stage'[d] /\ loaded'[d] = loaded[d]
<1> USE VersionsAssumption DEF TypeInv
<1>1. CASE index = Torn
  BY <1>1 DEF Loads, Goes, Stages, Locked
<1>2. CASE index # Torn
  <2>1. /\ mutex = Free /\ stage' = [stage EXCEPT ![c] = s] /\ mutex' = c
        /\ loaded' = [loaded EXCEPT ![c] = index] /\ index \in GoodIndex
    BY <1>2 DEF Loads, Goes
  <2>2. \A d \in Call : stage[d] \notin Locked
    BY <2>1
  <2> QED BY <2>1, <2>2 DEF Stages, Locked
<1> QED BY <1>1, <1>2

(* The types are inductive.                                                *)
LEMMA TypeStep ==
  ASSUME TypeInv, [VersionsNext]_versionsVars
  PROVE  TypeInv'
<1> USE VersionsAssumption, TornAssumption
<1>1. ASSUME NEW c \in Call, CallStep(c) PROVE TypeInv'
  <2>1. CASE NothingToTrack(c) \/ Produce(c) \/ ProduceFails(c)
    BY <2>1 DEF NothingToTrack, Produce, ProduceFails, Goes, TypeInv, Stages, Locked, Data
  <2>2. CASE EnsureTracked(c) \/ AddVersion(c) \/ Restore(c)
    <3>1. /\ stage[c] \notin Locked /\ \E s \in {"copy", "replace"} : Loads(c, s)
          /\ UNCHANGED <<file, index, remote, wrote, answer, recorded, deaths>>
          /\ next' \in [Call -> {"start", "produce", "sync"}] /\ spoiled' \in BOOLEAN
      BY <2>2 DEF EnsureTracked, AddVersion, Restore, TypeInv, Locked
    <3>2. /\ stage' \in [Call -> Stages] /\ loaded' \in [Call -> GoodIndex]
          /\ mutex' \in Call \cup {Free}
          /\ \A d \in Call : stage'[d] \in Locked <=> mutex' = d
          /\ \A d \in Call : stage'[d] \in {"upload", "save", "saving"}
                               => stage[d] = stage'[d] /\ loaded'[d] = loaded[d]
      BY <3>1, LoadsTypes
    <3> QED BY <3>1, <3>2 DEF TypeInv
  <2>3. CASE CopyCurrent(c)
    <3>1. /\ stage' = [stage EXCEPT ![c] = "save"] /\ stage[c] = "copy" /\ mutex = c
          /\ loaded[c] \in GoodIndex /\ file \in Data
          /\ loaded' = [loaded EXCEPT ![c] = [now |-> Len(loaded[c].versions) + 1,
                                      versions |-> Append(loaded[c].versions, file)]]
          /\ UNCHANGED <<file, index, mutex, next, remote, wrote, answer, recorded, spoiled,
                         deaths>>
      BY <2>3 DEF CopyCurrent, Goes, TypeInv, Locked
    <3>2. /\ loaded'[c] = [now |-> Len(loaded[c].versions) + 1,
                           versions |-> Append(loaded[c].versions, file)]
          /\ \A d \in Call : d # c => loaded'[d] = loaded[d]
          /\ loaded' = [d \in Call |-> loaded'[d]]
      BY <3>1 DEF TypeInv
    <3>3. loaded'[c] \in GoodIndex /\ loaded'[c].now \in 1..Len(loaded'[c].versions)
      BY <3>1, <3>2, Appended
    <3>4. loaded' \in [Call -> GoodIndex]
      BY <3>2, <3>3 DEF TypeInv
    <3> QED BY <3>1, <3>2, <3>3, <3>4 DEF TypeInv, Stages, Locked
  <2>4. CASE ReplaceCurrent(c)
    <3>1. /\ stage' = [stage EXCEPT ![c] = "upload"] /\ stage[c] = "replace" /\ mutex = c
          /\ next' \in [Call -> {"start", "produce", "sync"}]
          /\ UNCHANGED <<index, mutex, remote, wrote, answer, recorded, spoiled, deaths>>
      BY <2>4 DEF ReplaceCurrent, Goes, TypeInv, Locked
    <3>2. PICK n \in 1..Len(loaded[c].versions) :
             /\ file' = loaded[c].versions[n] /\ loaded' = [loaded EXCEPT ![c].now = n]
      BY <2>4 DEF ReplaceCurrent
    <3>3. /\ loaded'[c] = [loaded[c] EXCEPT !.now = n] /\ loaded[c] \in GoodIndex
          /\ \A d \in Call : d # c => loaded'[d] = loaded[d]
          /\ loaded' = [d \in Call |-> loaded'[d]]
      BY <3>2 DEF TypeInv
    <3>4. /\ loaded'[c] \in GoodIndex /\ loaded'[c].now = n
          /\ loaded'[c].versions = loaded[c].versions
      BY <3>3, Repointed
    <3>5. loaded' \in [Call -> GoodIndex] /\ loaded'[c].now \in 1..Len(loaded'[c].versions)
      BY <3>3, <3>4 DEF TypeInv
    <3>6. file' \in Data
      BY <3>2, <3>3 DEF GoodIndex, Index
    <3> QED BY <3>1, <3>3, <3>5, <3>6 DEF TypeInv, Stages, Locked
  <2>5. CASE CopyFails(c) \/ NoSuchVersion(c)
    BY <2>5 DEF CopyFails, NoSuchVersion, Goes, Released, TypeInv, Stages, Locked
  <2>6. CASE Upload(c)
    BY <2>6 DEF Upload, Goes, TypeInv, Stages, Locked
  <2>7. CASE UploadFails(c)
    BY <2>7 DEF UploadFails, Goes, Released, TypeInv, Stages, Locked
  <2>8. CASE SaveBegins(c)
    BY <2>8 DEF SaveBegins, Goes, TypeInv, Stages, Locked
  <2>9. CASE SaveEnds(c)
    <3>1. /\ stage[c] = "saving" /\ mutex = c /\ mutex' = Free
          /\ stage' = [stage EXCEPT ![c] = next[c]] /\ index' = loaded[c]
          /\ remote' = [remote EXCEPT !.index = loaded[c]]
          /\ answer' = [answer EXCEPT ![c] = loaded[c].now]
          /\ recorded' = [recorded EXCEPT ![c] = loaded[c].versions[loaded[c].now]]
          /\ UNCHANGED <<file, loaded, next, wrote, spoiled, deaths>>
      BY <2>9 DEF SaveEnds, Goes, Released, TypeInv, Locked
    <3>2. /\ loaded[c] \in GoodIndex /\ loaded[c].now \in 1..Len(loaded[c].versions)
          /\ next[c] \in {"start", "produce", "sync"}
      BY <3>1 DEF TypeInv
    <3>3. loaded[c].now \in Nat /\ loaded[c].versions[loaded[c].now] \in Data
      BY <3>2 DEF GoodIndex, Index
    <3>4. /\ stage' \in [Call -> Stages] /\ answer' \in [Call -> Nat]
          /\ recorded' \in [Call -> Data] /\ remote' \in [file : Data, index : GoodIndex]
      BY <3>1, <3>2, <3>3 DEF TypeInv, Stages
    <3> QED BY <3>1, <3>2, <3>4 DEF TypeInv, Locked
  <2>10. CASE SaveFails(c)
    <3>1. /\ stage[c] = "saving" /\ mutex = c /\ mutex' = Free
          /\ stage' = [stage EXCEPT ![c] = "done"]
          /\ index' = loaded[c] \/ index' = remote.index
          /\ spoiled' = TRUE
          /\ UNCHANGED <<file, loaded, next, remote, wrote, answer, recorded, deaths>>
      BY <2>10 DEF SaveFails, Goes, Released, TypeInv, Locked
    <3> QED BY <3>1 DEF TypeInv, Stages, Locked
  <2> QED BY <1>1, <2>1, <2>2, <2>3, <2>4, <2>5, <2>6, <2>7, <2>8, <2>9, <2>10 DEF CallStep
<1>2. CASE Die
  BY <1>2 DEF Die, TypeInv, Stages, Locked
<1>3. CASE UNCHANGED versionsVars
  BY <1>3 DEF versionsVars, TypeInv
<1> QED BY <1>1, <1>2, <1>3 DEF VersionsNext

(* The types hold initially.                                               *)
LEMMA TypeInit == VersionsInit => TypeInv
<1> SUFFICES ASSUME VersionsInit PROVE TypeInv
  OBVIOUS
<1>1. Empty \in GoodIndex
  BY DEF Empty, GoodIndex, Index
<1> QED BY <1>1, VersionsAssumption DEF VersionsInit, TypeInv, Stages, Locked, Data

(***************************************************************************)
(* Versions stand                                                          *)
(***************************************************************************)

(* Every version a call was told of stands in an index.                    *)
Stands(ix) ==
  \A c \in Call : answer[c] > 0 =>
    answer[c] \in 1..Len(ix.versions) /\ ix.versions[answer[c]] = recorded[c]

(* It stands on disk, in what the holder of the lock has in memory and will*)
(* save, and in the remote copy to which a save that fails goes back.      *)
StandInv ==
  /\ index # Torn => Stands(index)
  /\ \A c \in Call : mutex = c => Stands(loaded[c])
  /\ Stands(remote.index)

(* StandInv is inductive.                                                  *)
LEMMA StandStep ==
  ASSUME TypeInv, StandInv, [VersionsNext]_versionsVars
  PROVE  StandInv'
<1> USE VersionsAssumption, TornAssumption
<1>u. ASSUME UNCHANGED <<answer, recorded>>, index' = index \/ index' = Torn,
             remote'.index = remote.index,
             \A c \in Call : mutex' = c => mutex = c /\ loaded'[c] = loaded[c]
      PROVE  StandInv'
  BY <1>u DEF StandInv, Stands
<1>1. ASSUME NEW c \in Call, CallStep(c) PROVE StandInv'
  <2>1. CASE NothingToTrack(c) \/ Produce(c) \/ ProduceFails(c)
    BY <1>u, <2>1 DEF NothingToTrack, Produce, ProduceFails
  <2>2. CASE EnsureTracked(c) \/ AddVersion(c) \/ Restore(c)
    <3>1. /\ \E s \in {"copy", "replace"} : Loads(c, s)
          /\ UNCHANGED <<answer, recorded, index, remote>>
      BY <2>2 DEF EnsureTracked, AddVersion, Restore
    <3>2. CASE index = Torn
      BY <1>u, <3>1, <3>2 DEF Loads
    <3>3. CASE index # Torn
      <4>1. mutex' = c /\ loaded'[c] = index
        BY <3>1, <3>3 DEF Loads, TypeInv
      <4> QED BY <3>1, <3>3, <4>1 DEF StandInv, Stands
    <3> QED BY <3>2, <3>3
  <2>3. CASE CopyCurrent(c)
    <3>1. /\ loaded'[c] = [now |-> Len(loaded[c].versions) + 1,
                           versions |-> Append(loaded[c].versions, file)]
          /\ loaded[c] \in GoodIndex /\ file \in Data /\ mutex = c
          /\ UNCHANGED <<answer, recorded, index, remote, mutex>>
      BY <2>3 DEF CopyCurrent, TypeInv, Locked
    <3>2. \A n \in 1..Len(loaded[c].versions) :
            n \in 1..Len(loaded'[c].versions) /\ loaded'[c].versions[n] = loaded[c].versions[n]
      BY <3>1, Appended
    <3> QED BY <3>1, <3>2 DEF StandInv, Stands
  <2>4. CASE ReplaceCurrent(c)
    <3>1. /\ mutex = c /\ UNCHANGED <<answer, recorded, index, remote, mutex>>
          /\ loaded[c] \in GoodIndex
      BY <2>4 DEF ReplaceCurrent, TypeInv, Locked
    <3>2. PICK n \in 1..Len(loaded[c].versions) : loaded' = [loaded EXCEPT ![c].now = n]
      BY <2>4 DEF ReplaceCurrent
    <3>3. loaded'[c] = [loaded[c] EXCEPT !.now = n]
      BY <3>2 DEF TypeInv
    <3>4. loaded'[c].versions = loaded[c].versions
      BY <3>1, <3>3, Repointed
    <3>5. Stands(loaded[c])
      BY <3>1 DEF StandInv
    <3>6. Stands(loaded[c])'
      BY <3>1, <3>4, <3>5 DEF Stands
    <3>7. \A d \in Call : mutex' = d => d = c
      BY <3>1
    <3>8. Stands(index)' <=> Stands(index)
      BY <3>1 DEF Stands
    <3>9. Stands(remote.index)' <=> Stands(remote.index)
      BY <3>1 DEF Stands
    <3> QED BY <3>1, <3>6, <3>7, <3>8, <3>9 DEF StandInv
  <2>5. CASE CopyFails(c) \/ NoSuchVersion(c) \/ Upload(c) \/ UploadFails(c) \/ SaveBegins(c)
    <3>1. /\ UNCHANGED <<answer, recorded, loaded>>
          /\ index' = index \/ index' = Torn
          /\ \A d \in Call : mutex' = d => mutex = d
      BY <2>5 DEF CopyFails, NoSuchVersion, Upload, UploadFails, SaveBegins, Released
    <3>2. remote'.index = remote.index
      BY <2>5 DEF CopyFails, NoSuchVersion, Upload, UploadFails, SaveBegins, TypeInv
    <3> QED BY <1>u, <3>1, <3>2
  <2>6. CASE SaveEnds(c)
    <3>1. /\ mutex = c /\ mutex' = Free /\ index' = loaded[c] /\ remote'.index = loaded[c]
          /\ loaded[c].now \in 1..Len(loaded[c].versions)
          /\ answer'[c] = loaded[c].now
          /\ recorded'[c] = loaded[c].versions[loaded[c].now]
          /\ \A d \in Call : d # c => answer'[d] = answer[d] /\ recorded'[d] = recorded[d]
      BY <2>6 DEF SaveEnds, Released, TypeInv, Locked
    <3>2. \A d \in Call : answer'[d] > 0 => /\ answer'[d] \in 1..Len(loaded[c].versions)
                                            /\ loaded[c].versions[answer'[d]] = recorded'[d]
      BY <3>1 DEF StandInv, Stands
    <3>3. Stands(index)' /\ Stands(remote.index)'
      BY <3>1, <3>2 DEF Stands
    <3>4. \A d \in Call : mutex' # d
      BY <3>1
    <3> QED BY <3>3, <3>4 DEF StandInv
  <2>7. CASE SaveFails(c)
    <3>1. /\ mutex = c /\ mutex' = Free
          /\ index' = loaded[c] \/ index' = remote.index
          /\ UNCHANGED <<answer, recorded, remote>>
      BY <2>7 DEF SaveFails, Released, TypeInv, Locked
    <3> QED BY <3>1 DEF StandInv, Stands
  <2> QED BY <1>1, <2>1, <2>2, <2>3, <2>4, <2>5, <2>6, <2>7 DEF CallStep
<1>2. CASE Die
  BY <1>u, <1>2 DEF Die
<1>3. CASE UNCHANGED versionsVars
  BY <1>u, <1>3 DEF versionsVars
<1> QED BY <1>1, <1>2, <1>3 DEF VersionsNext

(* A version a call was told of keeps its number and its content, whatever *)
(* the other calls do or fail at, and whenever the server dies.            *)
THEOREM VersionsStand == VersionsSpec => []EveryVersionStands
<1>1. VersionsInit => StandInv
  BY DEF VersionsInit, StandInv, Stands
<1>2. TypeInv /\ StandInv /\ [VersionsNext]_versionsVars => TypeInv' /\ StandInv'
  BY TypeStep, StandStep
<1>3. StandInv => EveryVersionStands
  BY DEF StandInv, Stands, EveryVersionStands
<1> QED BY <1>1, <1>2, <1>3, TypeInit, PTL DEF VersionsSpec

(***************************************************************************)
(* The file and the index agree                                            *)
(***************************************************************************)

Writing == {"upload", "save", "saving"}

Current(ix) == ix.versions[ix.now]

(* The call has written the file and has not added its version yet.        *)
Pending(c) == stage[c] = "add" \/ (stage[c] = "copy" /\ next[c] = "sync")

(* As long as no call has failed half way and the server has not died: the *)
(* index is torn only while a call writes it, and when no output waits for *)
(* its version the file is the current version of the index about to be    *)
(* written, if there is one, or else of the index on disk.                 *)
AgreeInv ==
  ~spoiled /\ deaths = 0 =>
    /\ index = Torn => \E c \in Call : stage[c] = "saving"
    /\ (\A c \in Call : ~Pending(c)) =>
         /\ \A c \in Call : stage[c] \in Writing => file = Current(loaded[c])
         /\ (\A c \in Call : stage[c] \notin Writing) /\ index # Torn /\ index.now > 0
              => file = Current(index)

(* AgreeInv is inductive.                                                  *)
LEMMA AgreeStep ==
  ASSUME TypeInv, AgreeInv, [VersionsNext]_versionsVars
  PROVE  AgreeInv'
<1> USE VersionsAssumption, TornAssumption
<1> SUFFICES ASSUME ~spoiled', deaths' = 0 PROVE AgreeInv'
  BY DEF AgreeInv
<1>u. ASSUME UNCHANGED <<file, index, loaded>>, ~spoiled, deaths = 0,
             \A c \in Call : /\ Pending(c) => Pending(c)'
                             /\ stage'[c] \in Writing <=> stage[c] \in Writing
                             /\ stage[c] = "saving" => stage'[c] = "saving"
      PROVE  AgreeInv'
  BY <1>u DEF AgreeInv, Current
<1>1. ASSUME NEW c \in Call, CallStep(c) PROVE AgreeInv'
  <2>d. deaths' = deaths
    BY <1>1 DEF CallStep, NothingToTrack, EnsureTracked, Produce, ProduceFails, AddVersion,
                CopyCurrent, CopyFails, Restore, ReplaceCurrent, NoSuchVersion, Upload,
                UploadFails, SaveBegins, SaveEnds, SaveFails
  <2>s. spoiled' = TRUE \/ spoiled' = spoiled
    <3>1. spoiled \in BOOLEAN
      BY DEF TypeInv
    <3>2. CASE AddVersion(c)
      BY <3>1, <3>2 DEF AddVersion
    <3>3. CASE ~AddVersion(c)
      BY <1>1, <3>1, <3>3
         DEF CallStep, NothingToTrack, EnsureTracked, Produce, ProduceFails, CopyCurrent,
             CopyFails, Restore, ReplaceCurrent, NoSuchVersion, Upload, UploadFails,
             SaveBegins, SaveEnds, SaveFails
    <3> QED BY <3>2, <3>3
  <2>0. ~spoiled /\ deaths = 0
    BY <2>d, <2>s
  <2>i. /\ index = Torn => \E d \in Call : stage[d] = "saving"
        /\ index = Torn => mutex # Free
    BY <2>0 DEF AgreeInv, TypeInv, Locked
  <2>1. CASE NothingToTrack(c) \/ NoSuchVersion(c)
    BY <1>u, <2>0, <2>1 DEF NothingToTrack, NoSuchVersion, Goes, Pending, TypeInv, Writing
  <2>2. CASE ProduceFails(c)
    BY <1>u, <2>0, <2>2 DEF ProduceFails, Goes, Pending, TypeInv, Writing
  <2>3. CASE EnsureTracked(c) \/ AddVersion(c) \/ Restore(c)
    <3>1. /\ stage[c] \in {"start", "add"} /\ UNCHANGED <<file, index>>
          /\ \E s \in {"copy", "replace"} : Loads(c, s)
          /\ stage[c] = "add" => AddVersion(c)
      BY <2>3 DEF EnsureTracked, AddVersion, Restore
    <3>2. /\ index # Torn /\ mutex = Free
          /\ \E s \in {"copy", "replace"} : stage' = [stage EXCEPT ![c] = s]
          /\ loaded' = [loaded EXCEPT ![c] = index]
      BY <2>i, <3>1 DEF Loads, Goes
    <3>3. stage[c] = "add" => stage'[c] = "copy" /\ next'[c] = "sync"
      BY <3>1, <3>2 DEF AddVersion, Loads, Goes, TypeInv
    <3>4. \A d \in Call : d # c => next'[d] = next[d] /\ stage'[d] = stage[d]
      BY <2>3, <3>2 DEF EnsureTracked, AddVersion, Restore, TypeInv
    <3>5. \A d \in Call : stage[d] \notin Writing /\ stage'[d] \notin Writing
      BY <3>1, <3>2 DEF TypeInv, Writing, Locked
    <3>6. \A d \in Call : Pending(d) => Pending(d)'
      BY <3>1, <3>3, <3>4 DEF Pending
    <3> QED BY <2>0, <3>1, <3>2, <3>5, <3>6 DEF AgreeInv, Current
  <2>4. CASE Produce(c)
    <3>1. Pending(c)' /\ index' = index
      BY <2>4 DEF Produce, Goes, Pending, TypeInv
    <3>2. \A d \in Call : stage[d] = "saving" => stage'[d] = "saving"
      BY <2>4 DEF Produce, Goes, TypeInv
    <3> QED BY <2>i, <3>1, <3>2 DEF AgreeInv
  <2>5. CASE CopyCurrent(c)
    <3>1. /\ stage' = [stage EXCEPT ![c] = "save"] /\ stage[c] = "copy" /\ mutex = c
          /\ loaded[c] \in GoodIndex /\ file \in Data
          /\ loaded'[c] = [now |-> Len(loaded[c].versions) + 1,
                           versions |-> Append(loaded[c].versions, file)]
          /\ UNCHANGED <<file, index>>
      BY <2>5 DEF CopyCurrent, Goes, TypeInv, Locked
    <3>2. file = Current(loaded'[c])
      BY <3>1, Appended DEF Current
    <3>3. /\ \A d \in Call : stage'[d] \in Writing => d = c
          /\ stage'[c] \in Writing
          /\ \A d \in Call : stage[d] # "saving"
      BY <3>1 DEF TypeInv, Writing, Locked
    <3> QED BY <2>i, <3>1, <3>2, <3>3 DEF AgreeInv, Current
  <2>6. CASE ReplaceCurrent(c)
    <3>1. /\ stage' = [stage EXCEPT ![c] = "upload"] /\ stage[c] = "replace" /\ mutex = c
          /\ loaded[c] \in GoodIndex /\ UNCHANGED index
      BY <2>6 DEF ReplaceCurrent, Goes, TypeInv, Locked
    <3>2. PICK n \in 1..Len(loaded[c].versions) :
             file' = loaded[c].versions[n] /\ loaded' = [loaded EXCEPT ![c].now = n]
      BY <2>6 DEF ReplaceCurrent
    <3>3. loaded'[c] = [loaded[c] EXCEPT !.now = n]
      BY <3>2 DEF TypeInv
    <3>4. file' = Current(loaded'[c])
      BY <3>1, <3>2, <3>3, Repointed DEF Current
    <3>5. /\ \A d \in Call : stage'[d] \in Writing => d = c
          /\ stage'[c] \in Writing
          /\ \A d \in Call : stage[d] # "saving"
      BY <3>1 DEF TypeInv, Writing, Locked
    <3> QED BY <2>i, <3>1, <3>4, <3>5 DEF AgreeInv, Current
  <2>7. CASE Upload(c)
    BY <1>u, <2>0, <2>7 DEF Upload, Goes, Pending, TypeInv, Writing
  <2>8. CASE CopyFails(c) \/ UploadFails(c) \/ SaveFails(c)
    BY <2>8 DEF CopyFails, UploadFails, SaveFails
  <2>9. CASE SaveBegins(c)
    <3>1. /\ stage' = [stage EXCEPT ![c] = "saving"] /\ stage[c] = "save"
          /\ index' = Torn /\ UNCHANGED <<file, loaded, next>>
      BY <2>9 DEF SaveBegins, Goes
    <3>2. stage'[c] = "saving" /\ \A d \in Call : d # c => stage'[d] = stage[d]
      BY <3>1 DEF TypeInv
    <3>3. \A d \in Call : /\ Pending(d) => Pending(d)'
                          /\ stage'[d] \in Writing <=> stage[d] \in Writing
      BY <3>1, <3>2 DEF Pending, Writing
    <3> QED BY <2>0, <3>1, <3>2, <3>3 DEF AgreeInv, Current
  <2>10. CASE SaveEnds(c)
    <3>1. /\ stage' = [stage EXCEPT ![c] = next[c]] /\ stage[c] = "saving" /\ mutex = c
          /\ index' = loaded[c] /\ UNCHANGED <<file, loaded, next>>
          /\ loaded[c] \in GoodIndex
          /\ next[c] \in {"start", "produce", "sync"}
      BY <2>10 DEF SaveEnds, Goes, TypeInv, Locked
    <3>2. /\ \A d \in Call : d # c => stage'[d] = stage[d]
          /\ \A d \in Call : Pending(d) => Pending(d)'
          /\ stage[c] \in Writing
      BY <3>1 DEF Pending, TypeInv, Writing
    <3>3. \A d \in Call : stage'[d] \notin Writing
      BY <3>1, <3>2 DEF TypeInv, Writing, Locked
    <3>4. index' # Torn
      BY <3>1 DEF GoodIndex
    <3> QED BY <2>0, <3>1, <3>2, <3>3, <3>4 DEF AgreeInv, Current
  <2> QED BY <1>1, <2>1, <2>2, <2>3, <2>4, <2>5, <2>6, <2>7, <2>8, <2>9, <2>10 DEF CallStep
<1>2. CASE Die
  BY <1>2 DEF Die, TypeInv
<1>3. CASE UNCHANGED versionsVars
  BY <1>u, <1>3 DEF versionsVars, Pending
<1> QED BY <1>1, <1>2, <1>3 DEF VersionsNext

(* When no call is under way the canonical file is the version the index   *)
(* calls current, unless a call failed half way or the server died.        *)
THEOREM FileAndIndexAgree == VersionsSpec => []FileIsCurrentVersion
<1>0. Empty # Torn /\ Empty.now = 0
  <2>1. Empty \in Index /\ Empty.now = 0
    BY DEF Empty, Index
  <2> QED BY <2>1, TornAssumption
<1>1. VersionsInit => AgreeInv
  BY <1>0 DEF VersionsInit, AgreeInv, Writing
<1>2. TypeInv /\ AgreeInv /\ [VersionsNext]_versionsVars => TypeInv' /\ AgreeInv'
  BY TypeStep, AgreeStep
<1>3. AgreeInv => FileIsCurrentVersion
  BY DEF AgreeInv, Pending, Writing, Current, FileIsCurrentVersion
<1> QED BY <1>1, <1>2, <1>3, TypeInit, PTL DEF VersionsSpec

(***************************************************************************)
(* What was there first is kept                                            *)
(***************************************************************************)

Kept(ix) == \E n \in 1..Len(ix.versions) : ix.versions[n] = Original

Lacks(ix) == \A n \in 1..Len(ix.versions) : ix.versions[n] # Original

(* A resource whose file did not exist never has the original content.     *)
AbsentInv ==
  /\ file # Original /\ remote.file # Original
  /\ index # Torn => Lacks(index)
  /\ Lacks(remote.index)
  /\ \A c \in Call : Lacks(loaded[c])

(* Otherwise the original is the file as long as there is no version, and  *)
(* then one of them: no call gets to "produce" before, and the index that a*)
(* call writes, or a failed save goes back to, has it.                     *)
KeptInv ==
  /\ file # NoFile
  /\ index # Torn => (file = Original /\ index.versions = <<>>) \/ Kept(index)
  /\ remote.index = Empty \/ Kept(remote.index)
  /\ \A c \in Call :
       /\ stage[c] \in {"produce", "add", "sync"} /\ index # Torn => Kept(index)
       /\ stage[c] \in {"copy", "replace"} => index # Torn /\ loaded[c] = index
       /\ stage[c] = "upload" => index # Torn /\ loaded[c].versions = index.versions
       /\ stage[c] \in Writing => Kept(loaded[c])

(* A resource without an original stays one.                               *)
LEMMA AbsentStep ==
  ASSUME TypeInv, AbsentInv, [VersionsNext]_versionsVars
  PROVE  AbsentInv'
<1> USE VersionsAssumption, TornAssumption
<1>u. ASSUME UNCHANGED <<file, remote>>, index' = index \/ index' = Torn,
             \A d \in Call : loaded'[d] = loaded[d]
      PROVE  AbsentInv'
  BY <1>u DEF AbsentInv, Lacks
<1>1. ASSUME NEW c \in Call, CallStep(c) PROVE AbsentInv'
  <2>1. CASE NothingToTrack(c) \/ CopyFails(c) \/ NoSuchVersion(c) \/ SaveBegins(c)
    BY <1>u, <2>1 DEF NothingToTrack, CopyFails, NoSuchVersion, SaveBegins
  <2>2. CASE EnsureTracked(c) \/ AddVersion(c) \/ Restore(c)
    <3>1. /\ \E s \in {"copy", "replace"} : Loads(c, s)
          /\ UNCHANGED <<file, index, remote>>
      BY <2>2 DEF EnsureTracked, AddVersion, Restore
    <3>2. \A d \in Call : loaded'[d] = loaded[d] \/ (loaded'[d] = index /\ index # Torn)
      BY <3>1 DEF Loads, TypeInv
    <3> QED BY <3>1, <3>2 DEF AbsentInv, Lacks
  <2>3. CASE Produce(c) \/ ProduceFails(c)
    BY <2>3 DEF Produce, ProduceFails, AbsentInv, Lacks
  <2>4. CASE CopyCurrent(c)
    <3>1. /\ loaded[c] \in GoodIndex /\ file \in Data /\ file # Original
          /\ loaded'[c] = [now |-> Len(loaded[c].versions) + 1,
                           versions |-> Append(loaded[c].versions, file)]
          /\ \A d \in Call : d # c => loaded'[d] = loaded[d]
          /\ Lacks(loaded[c])
          /\ UNCHANGED <<file, index, remote>>
      BY <2>4 DEF CopyCurrent, TypeInv, AbsentInv
    <3>2. loaded[c].versions \in Seq(Data)
      BY <3>1 DEF GoodIndex, Index
    <3>3. /\ Len(loaded'[c].versions) = Len(loaded[c].versions) + 1
          /\ loaded'[c].versions[Len(loaded[c].versions) + 1] = file
          /\ \A n \in 1..Len(loaded[c].versions) :
               loaded'[c].versions[n] = loaded[c].versions[n]
          /\ Len(loaded[c].versions) \in Nat
      BY <3>1, <3>2
    <3>4. Lacks(loaded[c])'
      BY <3>1, <3>3 DEF Lacks
    <3> QED BY <3>1, <3>4 DEF AbsentInv, Lacks
  <2>5. CASE ReplaceCurrent(c)
    <3>1. loaded[c] \in GoodIndex /\ UNCHANGED <<index, remote>>
      BY <2>5 DEF ReplaceCurrent, TypeInv
    <3>2. PICK n \in 1..Len(loaded[c].versions) :
             file' = loaded[c].versions[n] /\ loaded' = [loaded EXCEPT ![c].now = n]
      BY <2>5 DEF ReplaceCurrent
    <3>3. /\ loaded'[c] = [loaded[c] EXCEPT !.now = n]
          /\ \A d \in Call : d # c => loaded'[d] = loaded[d]
      BY <3>2 DEF TypeInv
    <3>4. loaded'[c].versions = loaded[c].versions
      BY <3>1, <3>3, Repointed
    <3>5. file' # Original
      BY <3>2 DEF AbsentInv, Lacks
    <3>6. \A d \in Call : loaded'[d].versions = loaded[d].versions
      BY <3>3, <3>4
    <3> QED BY <3>1, <3>5, <3>6 DEF AbsentInv, Lacks
  <2>6. CASE Upload(c)
    <3>1. /\ remote' = [remote EXCEPT !.file = file] /\ UNCHANGED <<file, index, loaded>>
      BY <2>6 DEF Upload
    <3>2. remote'.file = file /\ remote'.index = remote.index
      BY <3>1 DEF TypeInv
    <3> QED BY <3>1, <3>2 DEF AbsentInv, Lacks
  <2>7. CASE UploadFails(c)
    BY <2>7 DEF UploadFails, AbsentInv, Lacks
  <2>8. CASE SaveEnds(c)
    <3>1. /\ remote' = [remote EXCEPT !.index = loaded[c]] /\ UNCHANGED <<file, loaded>>
          /\ index' = loaded[c]
      BY <2>8 DEF SaveEnds
    <3>2. remote'.file = remote.file /\ remote'.index = loaded[c]
      BY <3>1 DEF TypeInv
    <3> QED BY <3>1, <3>2 DEF AbsentInv, Lacks
  <2>9. CASE SaveFails(c)
    <3>1. index' = loaded[c] \/ index' = remote.index
      BY <2>9 DEF SaveFails
    <3> QED BY <2>9, <3>1 DEF SaveFails, AbsentInv, Lacks
  <2> QED BY <1>1, <2>1, <2>2, <2>3, <2>4, <2>5, <2>6, <2>7, <2>8, <2>9 DEF CallStep
<1>2. CASE Die
  BY <1>u, <1>2 DEF Die
<1>3. CASE UNCHANGED versionsVars
  BY <1>u, <1>3 DEF versionsVars
<1> QED BY <1>1, <1>2, <1>3 DEF VersionsNext

(* A resource with an original keeps it.                                   *)
LEMMA KeptStep ==
  ASSUME TypeInv, KeptInv, [VersionsNext]_versionsVars
  PROVE  KeptInv'
<1> USE VersionsAssumption, TornAssumption
<1>u. ASSUME UNCHANGED <<file, index, loaded>>, remote'.index = remote.index,
             \A d \in Call : stage'[d] \in {stage[d], "start", "done"}
      PROVE  KeptInv'
  BY <1>u DEF KeptInv, Kept, Writing
<1>f. ASSUME UNCHANGED <<index, loaded, remote>>, file' # NoFile, index # Torn => Kept(index),
             NEW c \in Call, NEW s \in {"add", "done"}, Goes(c, s)
      PROVE  KeptInv'
  <2>1. \A d \in Call : stage'[d] \in {stage[d], "add", "done"}
    BY <1>f DEF Goes, TypeInv
  <2> QED BY <1>f, <2>1 DEF KeptInv, Kept, Writing
<1>1. ASSUME NEW c \in Call, CallStep(c) PROVE KeptInv'
  <2>1. CASE NothingToTrack(c)
    <3>1. /\ index # Torn /\ index.now > 0 /\ UNCHANGED <<file, index, loaded, remote>>
          /\ stage' = [stage EXCEPT ![c] = "produce"]
      BY <2>1 DEF NothingToTrack, Goes, KeptInv
    <3>2. index.versions # <<>>
      BY <3>1 DEF TypeInv, GoodIndex, Index
    <3>3. Kept(index)
      BY <3>1, <3>2 DEF KeptInv
    <3>4. \A d \in Call : stage'[d] \in {stage[d], "produce"}
      BY <3>1 DEF TypeInv
    <3> QED BY <3>1, <3>3, <3>4 DEF KeptInv, Kept, Writing
  <2>2. CASE EnsureTracked(c) \/ AddVersion(c) \/ Restore(c)
    <3>1. /\ \E s \in {"copy", "replace"} : Loads(c, s)
          /\ UNCHANGED <<file, index, remote>>
      BY <2>2 DEF EnsureTracked, AddVersion, Restore
    <3>2. CASE index = Torn
      BY <1>u, <3>1, <3>2 DEF Loads, Goes, TypeInv
    <3>3. CASE index # Torn
      <4>1. /\ stage'[c] \in {"copy", "replace"} /\ loaded'[c] = index
            /\ \A d \in Call : d # c => stage'[d] = stage[d] /\ loaded'[d] = loaded[d]
        BY <3>1, <3>3 DEF Loads, Goes, TypeInv
      <4> QED BY <3>1, <3>3, <4>1 DEF KeptInv, Kept, Writing
    <3> QED BY <3>2, <3>3
  <2>3. CASE Produce(c)
    BY <1>f, <2>3 DEF Produce, KeptInv
  <2>4. CASE ProduceFails(c)
    <3>1. /\ stage[c] = "produce" /\ Goes(c, "done")
          /\ file' = c \/ file' = file
          /\ UNCHANGED <<index, loaded, remote>>
      BY <2>4 DEF ProduceFails
    <3> QED BY <1>f, <3>1 DEF KeptInv
  <2>5. CASE CopyCurrent(c)
    <3>1. /\ stage[c] = "copy" /\ loaded[c] \in GoodIndex /\ file \in Data
          /\ loaded'[c] = [now |-> Len(loaded[c].versions) + 1,
                           versions |-> Append(loaded[c].versions, file)]
          /\ stage'[c] = "save"
          /\ \A d \in Call : d # c => stage'[d] = stage[d] /\ loaded'[d] = loaded[d]
          /\ UNCHANGED <<file, index, remote>>
      BY <2>5 DEF CopyCurrent, Goes, TypeInv
    <3>2. /\ loaded'[c].now \in 1..Len(loaded'[c].versions)
          /\ loaded'[c].versions[loaded'[c].now] = file
          /\ \A n \in 1..Len(loaded[c].versions) :
               n \in 1..Len(loaded'[c].versions) /\ loaded'[c].versions[n] = loaded[c].versions[n]
      BY <3>1, Appended
    <3>3. loaded[c] = index /\ (file = Original \/ Kept(index))
      BY <3>1 DEF KeptInv
    <3>4. Kept(loaded[c])'
      BY <3>2, <3>3 DEF Kept
    <3> QED BY <3>1, <3>4 DEF KeptInv, Kept, Writing
  <2>6. CASE ReplaceCurrent(c)
    <3>1. /\ stage[c] = "replace" /\ loaded[c] = index /\ index # Torn
          /\ loaded[c] \in GoodIndex /\ UNCHANGED <<index, remote>>
          /\ stage'[c] = "upload" /\ \A d \in Call : d # c => stage'[d] = stage[d]
      BY <2>6 DEF ReplaceCurrent, Goes, TypeInv, KeptInv
    <3>2. PICK n \in 1..Len(loaded[c].versions) :
             /\ loaded[c].versions[n] # NoFile /\ file' = loaded[c].versions[n]
             /\ loaded' = [loaded EXCEPT ![c].now = n]
      BY <2>6 DEF ReplaceCurrent
    <3>3. /\ loaded'[c] = [loaded[c] EXCEPT !.now = n]
          /\ \A d \in Call : d # c => loaded'[d] = loaded[d]
      BY <3>2 DEF TypeInv
    <3>4. loaded'[c].versions = index.versions
      BY <3>1, <3>3, Repointed
    <3>5. Kept(index)
      <4>1. index.versions # <<>>
        BY <3>1, <3>2 DEF GoodIndex, Index
      <4> QED BY <3>1, <4>1 DEF KeptInv
    <3>6. Kept(loaded[c])'
      BY <3>4, <3>5 DEF Kept
    <3> QED BY <3>1, <3>2, <3>3, <3>4, <3>5, <3>6 DEF KeptInv, Kept, Writing
  <2>7. CASE CopyFails(c) \/ NoSuchVersion(c)
    BY <1>u, <2>7 DEF CopyFails, NoSuchVersion, Goes, TypeInv
  <2>8. CASE Upload(c)
    <3>1. /\ UNCHANGED <<file, index, loaded>> /\ remote'.index = remote.index
          /\ \A d \in Call : \/ stage'[d] \in {stage[d], "done"}
                             \/ stage[d] = "upload" /\ stage'[d] = "save"
      BY <2>8 DEF Upload, Goes, TypeInv
    <3> QED BY <3>1 DEF KeptInv, Kept, Writing
  <2>9. CASE UploadFails(c)
    <3>1. /\ stage[c] \in {"upload", "sync"} /\ Goes(c, "done") /\ file' # NoFile
          /\ UNCHANGED <<index, loaded, remote>>
      BY <2>9 DEF UploadFails, KeptInv
    <3>2. index # Torn => Kept(index)
      BY <3>1 DEF KeptInv, Kept, Writing
    <3> QED BY <1>f, <3>1, <3>2
  <2>10. CASE SaveBegins(c)
    <3>1. /\ stage[c] = "save" /\ stage'[c] = "saving" /\ mutex = c /\ index' = Torn
          /\ \A d \in Call : d # c => stage'[d] = stage[d]
          /\ UNCHANGED <<file, loaded, remote>>
      BY <2>10 DEF SaveBegins, Goes, TypeInv, Locked
    <3>2. \A d \in Call : d # c => stage'[d] \notin Locked
      BY <3>1 DEF TypeInv
    <3>3. Kept(loaded[c])'
      BY <3>1 DEF KeptInv, Kept, Writing
    <3> QED BY <3>1, <3>2, <3>3 DEF KeptInv, Kept, Writing, Locked
  <2>11. CASE SaveEnds(c) \/ SaveFails(c)
    <3>1. /\ stage[c] = "saving" /\ mutex = c /\ UNCHANGED <<file, loaded>>
          /\ index' = loaded[c] \/ (index' = remote.index /\ remote.index # Empty)
          /\ remote'.index = remote.index \/ remote'.index = loaded[c]
          /\ stage'[c] \in {"start", "produce", "sync", "done"}
          /\ \A d \in Call : d # c => stage'[d] = stage[d]
      BY <2>11 DEF SaveEnds, SaveFails, Goes, TypeInv, Locked
    <3>2. \A d \in Call : stage'[d] \notin Locked
      BY <3>1 DEF TypeInv, Locked
    <3>3. Kept(loaded[c])
      BY <3>1 DEF KeptInv, Writing
    <3>4. Kept(index)' /\ (remote'.index = Empty \/ Kept(remote.index)')
      BY <3>1, <3>3 DEF KeptInv, Kept
    <3> QED BY <3>1, <3>2, <3>4 DEF KeptInv, Writing, Locked
  <2> QED BY <1>1, <2>1, <2>2, <2>3, <2>4, <2>5, <2>6, <2>7, <2>8, <2>9, <2>10, <2>11
          DEF CallStep
<1>2. CASE Die
  BY <1>u, <1>2 DEF Die
<1>3. CASE UNCHANGED versionsVars
  BY <1>u, <1>3 DEF versionsVars
<1> QED BY <1>1, <1>2, <1>3 DEF VersionsNext

(* No step writes the file and the index.                                  *)
LEMMA FileOrIndex ==
  ASSUME [VersionsNext]_versionsVars
  PROVE  file' = file \/ index' = index
BY DEF VersionsNext, versionsVars, CallStep, NothingToTrack, EnsureTracked, Produce,
       ProduceFails, AddVersion, CopyCurrent, CopyFails, Restore, ReplaceCurrent,
       NoSuchVersion, Upload, UploadFails, SaveBegins, SaveEnds, SaveFails, Die

(* A file that was there before any version was kept is a version before   *)
(* anything is written over it, whatever fails and whenever the server     *)
(* dies, as long as the index can be read.                                 *)
THEOREM TheOriginalIsKept == VersionsSpec => OriginalIsKept
<1>1. VersionsInit => AbsentInv \/ KeptInv
  <2>1. Empty.versions = <<>> /\ Len(Empty.versions) = 0
    BY DEF Empty
  <2> QED BY <2>1, VersionsAssumption
          DEF VersionsInit, AbsentInv, KeptInv, Lacks, Writing
<1>2. TypeInv /\ (AbsentInv \/ KeptInv) /\ [VersionsNext]_versionsVars
        => TypeInv' /\ (AbsentInv \/ KeptInv)'
  BY TypeStep, AbsentStep, KeptStep
<1>3. TypeInv /\ (AbsentInv \/ KeptInv) /\ [VersionsNext]_versionsVars
        => [file = Original /\ file' # Original /\ index # Torn
              => \E n \in 1..Len(index.versions) : index.versions[n] = Original]_versionsVars
  <2> SUFFICES ASSUME TypeInv, AbsentInv \/ KeptInv, [VersionsNext]_versionsVars,
                      file = Original, file' # Original, index # Torn
               PROVE  \E n \in 1..Len(index.versions) : index.versions[n] = Original
    OBVIOUS
  <2>1. KeptInv' /\ index' = index
    BY KeptStep, FileOrIndex DEF AbsentInv
  <2> QED BY <2>1 DEF KeptInv, Kept
<1> QED BY <1>1, <1>2, <1>3, TypeInit, PTL DEF VersionsSpec, OriginalIsKept

(***************************************************************************)
(* The one way to lose an output                                           *)
(***************************************************************************)

Has(ix, f) == \E n \in 1..Len(ix.versions) : ix.versions[n] = f
Extends(jx, ix) == \A f \in Data : Has(ix, f) => Has(jx, f)

(* While a call holds the lock the index on disk is what it has loaded,    *)
(* until it writes it; what it will write has every version there was.     *)
HeldInv ==
  \A d \in Call :
    /\ stage[d] \in {"copy", "replace", "upload", "save"} =>
         index # Torn /\ Extends(loaded[d], index)
    /\ stage[d] = "replace" => loaded[d] = index
    /\ stage[d] = "saving" => index = Torn

(* The file that a call has written has a version, or the call has not     *)
(* made its copy yet.                                                      *)
OutputInv ==
  /\ wrote \subseteq Call
  /\ ~spoiled /\ deaths = 0 =>
       \A c \in wrote : file = c => HasVersion(c) \/ stage[c] \in {"add", "copy"}

(* HeldInv is inductive.                                                   *)
LEMMA HeldStep ==
  ASSUME TypeInv, HeldInv, [VersionsNext]_versionsVars
  PROVE  HeldInv'
<1> USE VersionsAssumption, TornAssumption
<1>u. ASSUME UNCHANGED <<index, loaded>>,
             \A d \in Call : \/ stage'[d] = stage[d] \/ stage'[d] \notin Locked
                             \/ stage[d] = "upload" /\ stage'[d] = "save"
      PROVE  HeldInv'
  BY <1>u DEF HeldInv, Extends, Has, Locked
<1>e. ASSUME NEW c \in Call, index' = index, index # Torn, Extends(loaded'[c], index),
             stage'[c] \in {"save", "upload"},
             \A d \in Call : d # c => stage'[d] = stage[d] /\ loaded'[d] = loaded[d]
      PROVE  HeldInv'
  <2>1. ASSUME NEW d \in Call, stage'[d] \in {"copy", "replace", "upload", "save"}
        PROVE  Extends(loaded[d], index)'
    <3>1. CASE d = c
      BY <1>e, <3>1 DEF Extends, Has
    <3>2. CASE d # c
      BY <1>e, <2>1, <3>2 DEF HeldInv, Extends, Has
    <3> QED BY <3>1, <3>2
  <2>2. ASSUME NEW d \in Call
        PROVE  /\ stage'[d] = "replace" => loaded'[d] = index'
               /\ stage'[d] = "saving" => index' = Torn
    BY <1>e DEF HeldInv
  <2> QED BY <1>e, <2>1, <2>2 DEF HeldInv
<1>1. ASSUME NEW c \in Call, CallStep(c) PROVE HeldInv'
  <2>1. CASE NothingToTrack(c) \/ Produce(c) \/ ProduceFails(c) \/ CopyFails(c)
             \/ NoSuchVersion(c) \/ Upload(c) \/ UploadFails(c)
    <3>1. /\ UNCHANGED <<index, loaded>>
          /\ \E s \in {"produce", "add", "done", "save"} :
               Goes(c, s) /\ (s = "save" => stage[c] = "upload")
      BY <2>1 DEF NothingToTrack, Produce, ProduceFails, CopyFails, NoSuchVersion, Upload,
                  UploadFails
    <3>2. \A d \in Call : \/ stage'[d] = stage[d] \/ stage'[d] \notin Locked
                          \/ stage[d] = "upload" /\ stage'[d] = "save"
      BY <3>1 DEF Goes, TypeInv, Locked
    <3> QED BY <1>u, <3>1, <3>2
  <2>2. CASE EnsureTracked(c) \/ AddVersion(c) \/ Restore(c)
    <3>1. (\E s \in {"copy", "replace"} : Loads(c, s)) /\ index' = index
      BY <2>2 DEF EnsureTracked, AddVersion, Restore
    <3>2. CASE index = Torn
      BY <1>u, <3>1, <3>2 DEF Loads, Goes, TypeInv, Locked
    <3>3. CASE index # Torn
      <4>1. /\ stage'[c] \in {"copy", "replace"} /\ loaded'[c] = index
            /\ \A d \in Call : d # c => stage'[d] = stage[d] /\ loaded'[d] = loaded[d]
        BY <3>1, <3>3 DEF Loads, Goes, TypeInv
      <4> QED BY <3>1, <3>3, <4>1 DEF HeldInv, Extends, Has
    <3> QED BY <3>2, <3>3
  <2>3. CASE CopyCurrent(c)
    <3>1. /\ stage[c] = "copy" /\ loaded[c] \in GoodIndex /\ file \in Data
          /\ loaded'[c] = [now |-> Len(loaded[c].versions) + 1,
                           versions |-> Append(loaded[c].versions, file)]
          /\ stage'[c] = "save" /\ index' = index
          /\ \A d \in Call : d # c => stage'[d] = stage[d] /\ loaded'[d] = loaded[d]
      BY <2>3 DEF CopyCurrent, Goes, TypeInv
    <3>2. \A n \in 1..Len(loaded[c].versions) :
            n \in 1..Len(loaded'[c].versions) /\ loaded'[c].versions[n] = loaded[c].versions[n]
      BY <3>1, Appended
    <3>3. \A f : Has(loaded[c], f) => Has(loaded'[c], f)
      BY <3>2 DEF Has
    <3>4. index # Torn /\ Extends(loaded[c], index)
      BY <3>1 DEF HeldInv
    <3>5. Extends(loaded'[c], index)
      BY <3>3, <3>4 DEF Extends
    <3> QED BY <1>e, <3>1, <3>4, <3>5
  <2>4. CASE ReplaceCurrent(c)
    <3>1. /\ stage[c] = "replace" /\ loaded[c] = index /\ index # Torn /\ index' = index
          /\ loaded[c] \in GoodIndex
          /\ stage'[c] = "upload" /\ \A d \in Call : d # c => stage'[d] = stage[d]
      BY <2>4 DEF ReplaceCurrent, Goes, TypeInv, HeldInv
    <3>2. PICK n \in 1..Len(loaded[c].versions) : loaded' = [loaded EXCEPT ![c].now = n]
      BY <2>4 DEF ReplaceCurrent
    <3>3. /\ loaded'[c] = [loaded[c] EXCEPT !.now = n]
          /\ \A d \in Call : d # c => loaded'[d] = loaded[d]
      BY <3>2 DEF TypeInv
    <3>4. loaded'[c].versions = index.versions
      BY <3>1, <3>3, Repointed
    <3>5. Extends(loaded'[c], index)
      BY <3>4 DEF Extends, Has
    <3> QED BY <1>e, <3>1, <3>3, <3>5
  <2>5. CASE SaveBegins(c) \/ SaveEnds(c) \/ SaveFails(c)
    <3>1. /\ mutex = c /\ stage'[c] \notin {"copy", "replace", "upload", "save"}
          /\ stage'[c] = "saving" => index' = Torn
          /\ \A d \in Call : d # c => stage'[d] = stage[d]
      BY <2>5 DEF SaveBegins, SaveEnds, SaveFails, Goes, TypeInv, Locked
    <3>2. \A d \in Call : d # c => stage[d] \notin Locked
      BY <3>1 DEF TypeInv
    <3> QED BY <3>1, <3>2 DEF HeldInv, Locked
  <2> QED BY <1>1, <2>1, <2>2, <2>3, <2>4, <2>5 DEF CallStep
<1>2. CASE Die
  BY <1>2 DEF Die, HeldInv
<1>3. CASE UNCHANGED versionsVars
  BY <1>u, <1>3 DEF versionsVars
<1> QED BY <1>1, <1>2, <1>3 DEF VersionsNext

(* What has a version keeps it, as long as no step fails; a copy of the    *)
(* file gives the file one, and a restore takes a file that has one.       *)
LEMMA VersionKept ==
  ASSUME TypeInv, HeldInv, [VersionsNext]_versionsVars, ~spoiled', deaths' = 0,
         NEW f \in Data
  PROVE  /\ HasVersion(f) => HasVersion(f)'
         /\ \A c \in Call : CopyCurrent(c) /\ f = file => HasVersion(f)'
         /\ \A c \in Call : ReplaceCurrent(c) /\ f = file' => HasVersion(f)'
<1> USE VersionsAssumption, TornAssumption
<1>h. HasVersion(f) <=> \/ index # Torn /\ Has(index, f)
                        \/ \E d \in Call : mutex = d /\ Has(loaded[d], f)
  BY DEF HasVersion, Has
<1>p. HasVersion(f)' <=> \/ index' # Torn /\ Has(index', f)
                         \/ \E d \in Call : mutex' = d /\ Has(loaded'[d], f)
  BY DEF HasVersion, Has
<1>1. ASSUME NEW c \in Call, CallStep(c) PROVE HasVersion(f) => HasVersion(f)'
  <2>1. CASE NothingToTrack(c) \/ Produce(c) \/ ProduceFails(c) \/ Upload(c)
    BY <1>h, <1>p, <2>1 DEF NothingToTrack, Produce, ProduceFails, Upload
  <2>2. CASE EnsureTracked(c) \/ AddVersion(c) \/ Restore(c)
    <3>1. (\E s \in {"copy", "replace"} : Loads(c, s)) /\ index' = index
      BY <2>2 DEF EnsureTracked, AddVersion, Restore
    <3> QED BY <1>h, <1>p, <3>1 DEF Loads
  <2>3. CASE CopyCurrent(c)
    <3>1. /\ loaded[c] \in GoodIndex /\ file \in Data /\ mutex = c
          /\ loaded'[c] = [now |-> Len(loaded[c].versions) + 1,
                           versions |-> Append(loaded[c].versions, file)]
          /\ UNCHANGED <<index, mutex>>
      BY <2>3 DEF CopyCurrent, TypeInv, Locked
    <3>2. \A n \in 1..Len(loaded[c].versions) :
            n \in 1..Len(loaded'[c].versions) /\ loaded'[c].versions[n] = loaded[c].versions[n]
      BY <3>1, Appended
    <3> QED BY <1>h, <1>p, <3>1, <3>2 DEF Has
  <2>4. CASE ReplaceCurrent(c)
    <3>1. loaded[c] \in GoodIndex /\ UNCHANGED <<index, mutex>> /\ mutex = c
      BY <2>4 DEF ReplaceCurrent, TypeInv, Locked
    <3>2. PICK n \in 1..Len(loaded[c].versions) : loaded' = [loaded EXCEPT ![c].now = n]
      BY <2>4 DEF ReplaceCurrent
    <3>3. loaded'[c] = [loaded[c] EXCEPT !.now = n]
      BY <3>2 DEF TypeInv
    <3>4. loaded'[c].versions = loaded[c].versions
      BY <3>1, <3>3, Repointed
    <3> QED BY <1>h, <1>p, <3>1, <3>4 DEF Has
  <2>5. CASE NoSuchVersion(c)
    <3>1. mutex = c /\ loaded[c] = index /\ index # Torn /\ index' = index
      BY <2>5 DEF NoSuchVersion, TypeInv, Locked, HeldInv
    <3> QED BY <1>h, <1>p, <3>1
  <2>6. CASE CopyFails(c) \/ UploadFails(c) \/ SaveFails(c)
    BY <2>6 DEF CopyFails, UploadFails, SaveFails
  <2>7. CASE SaveBegins(c)
    <3>1. /\ mutex = c /\ UNCHANGED <<mutex, loaded>> /\ Extends(loaded[c], index)
      BY <2>7 DEF SaveBegins, TypeInv, Locked, HeldInv
    <3> QED BY <1>h, <1>p, <3>1 DEF Extends
  <2>8. CASE SaveEnds(c)
    <3>1. mutex = c /\ index' = loaded[c] /\ loaded[c] \in Index /\ index = Torn
      BY <2>8 DEF SaveEnds, TypeInv, Locked, GoodIndex, HeldInv
    <3> QED BY <1>h, <1>p, <3>1
  <2> QED BY <1>1, <2>1, <2>2, <2>3, <2>4, <2>5, <2>6, <2>7, <2>8 DEF CallStep
<1>2. CASE Die
  <2>1. deaths' = deaths + 1 /\ deaths \in Nat
    BY <1>2 DEF Die, TypeInv
  <2> QED BY <2>1
<1>3. ASSUME UNCHANGED versionsVars PROVE HasVersion(f) => HasVersion(f)'
  <2>1. UNCHANGED <<index, mutex, loaded>>
    BY <1>3 DEF versionsVars
  <2> QED BY <2>1 DEF HasVersion
<1>4. HasVersion(f) => HasVersion(f)'
  BY <1>1, <1>2, <1>3 DEF VersionsNext
<1>5. ASSUME NEW c \in Call, CopyCurrent(c), f = file PROVE HasVersion(f)'
  <2>1. /\ loaded[c] \in GoodIndex /\ mutex' = c
        /\ loaded'[c] = [now |-> Len(loaded[c].versions) + 1,
                         versions |-> Append(loaded[c].versions, file)]
    BY <1>5 DEF CopyCurrent, TypeInv, Locked
  <2>2. Has(loaded'[c], f)
    BY <1>5, <2>1, Appended DEF Has
  <2> QED BY <1>p, <2>1, <2>2
<1>6. ASSUME NEW c \in Call, ReplaceCurrent(c), f = file' PROVE HasVersion(f)'
  <2>1. /\ loaded[c] = index /\ index # Torn /\ index' = index
        /\ \E n \in 1..Len(loaded[c].versions) : file' = loaded[c].versions[n]
    BY <1>6 DEF ReplaceCurrent, HeldInv
  <2> QED BY <1>p, <1>6, <2>1 DEF Has
<1> QED BY <1>4, <1>5, <1>6

(* OutputInv is inductive: only the call itself leaves its place between   *)
(* its write and its copy, by copying or by failing.                       *)
LEMMA OutputStep ==
  ASSUME TypeInv, HeldInv, OutputInv, [VersionsNext]_versionsVars
  PROVE  OutputInv'
<1> USE VersionsAssumption, TornAssumption
<1>1. wrote' \subseteq Call /\ (~spoiled' => ~spoiled) /\ (deaths' = 0 => deaths = 0)
  <2>1. ASSUME NEW c \in Call, CallStep(c)
        PROVE  wrote' \in {wrote, wrote \cup {c}} /\ (~spoiled' => ~spoiled) /\ deaths' = deaths
    <3>1. wrote' \in {wrote, wrote \cup {c}} /\ deaths' = deaths
      BY <2>1 DEF CallStep, NothingToTrack, EnsureTracked, Produce, ProduceFails, AddVersion,
                  CopyCurrent, CopyFails, Restore, ReplaceCurrent, NoSuchVersion, Upload,
                  UploadFails, SaveBegins, SaveEnds, SaveFails
    <3>2. spoiled' \in {spoiled, TRUE} \/ AddVersion(c)
      BY <2>1 DEF CallStep, NothingToTrack, EnsureTracked, Produce, ProduceFails,
                  CopyCurrent, CopyFails, Restore, ReplaceCurrent, NoSuchVersion, Upload,
                  UploadFails, SaveBegins, SaveEnds, SaveFails
    <3>3. ~spoiled' => ~spoiled
      BY <3>2, Zenon DEF AddVersion
    <3> QED BY <3>1, <3>3
  <2>2. CASE Die
    <3>1. deaths' = deaths + 1 /\ deaths \in Nat /\ wrote' = wrote /\ spoiled' = spoiled
      BY <2>2 DEF Die, TypeInv
    <3> QED BY <3>1 DEF OutputInv
  <2>3. CASE UNCHANGED versionsVars
    BY <2>3 DEF versionsVars, OutputInv
  <2> QED BY <2>1, <2>2, <2>3 DEF VersionsNext, OutputInv
<1>2. ASSUME ~spoiled', deaths' = 0, NEW c \in wrote', file' = c
      PROVE  HasVersion(c)' \/ stage'[c] \in {"add", "copy"}
  <2>0. c \in Call /\ c \in Data /\ ~spoiled /\ deaths = 0
    BY <1>1, <1>2 DEF Data
  <2>k. /\ HasVersion(c) => HasVersion(c)'
        /\ \A d \in Call : CopyCurrent(d) /\ c = file => HasVersion(c)'
        /\ \A d \in Call : ReplaceCurrent(d) /\ c = file' => HasVersion(c)'
    BY <1>2, <2>0, VersionKept
  <2>s. ASSUME file' = file, wrote' = wrote,
               stage'[c] = stage[c] \/ stage[c] \notin {"add", "copy"} \/ stage'[c] = "copy"
        PROVE  HasVersion(c)' \/ stage'[c] \in {"add", "copy"}
    BY <1>2, <2>0, <2>k, <2>s DEF OutputInv
  <2>1. ASSUME NEW d \in Call, CallStep(d)
        PROVE  HasVersion(c)' \/ stage'[c] \in {"add", "copy"}
    <3>1. CASE NothingToTrack(d) \/ NoSuchVersion(d) \/ Upload(d) \/ SaveBegins(d)
               \/ SaveEnds(d)
      <4>1. /\ UNCHANGED <<file, wrote>> /\ stage[d] \notin {"add", "copy"}
            /\ \E x : stage' = [stage EXCEPT ![d] = x]
        BY <3>1 DEF NothingToTrack, NoSuchVersion, Upload, SaveBegins, SaveEnds, Goes
      <4>2. stage'[c] = stage[c] \/ stage[c] \notin {"add", "copy"}
        BY <2>0, <4>1 DEF TypeInv
      <4> QED BY <2>s, <4>1, <4>2
    <3>2. CASE EnsureTracked(d) \/ Restore(d)
      <4>1. /\ UNCHANGED <<file, wrote>> /\ stage[d] = "start"
            /\ \E x : stage' = [stage EXCEPT ![d] = x]
        BY <3>2 DEF EnsureTracked, Restore, Loads, Goes
      <4>2. stage'[c] = stage[c] \/ stage[c] \notin {"add", "copy"}
        BY <2>0, <4>1 DEF TypeInv
      <4> QED BY <2>s, <4>1, <4>2
    <3>3. CASE AddVersion(d)
      <4>1. UNCHANGED <<file, wrote>> /\ stage' = [stage EXCEPT ![d] = "copy"]
        BY <1>2, <3>3 DEF AddVersion, Loads, Goes, TypeInv
      <4>2. stage'[c] = stage[c] \/ stage'[c] = "copy"
        BY <2>0, <4>1 DEF TypeInv
      <4> QED BY <2>s, <4>1, <4>2
    <3>4. CASE Produce(d)
      <4>1. file' = d /\ stage' = [stage EXCEPT ![d] = "add"]
        BY <3>4 DEF Produce, Goes
      <4> QED BY <1>2, <4>1 DEF TypeInv
    <3>5. CASE ProduceFails(d)
      <4>1. /\ UNCHANGED <<file, wrote>> /\ stage[d] = "produce"
            /\ stage' = [stage EXCEPT ![d] = "done"]
        BY <1>2, <3>5 DEF ProduceFails, Goes
      <4>2. stage'[c] = stage[c] \/ stage[c] \notin {"add", "copy"}
        BY <2>0, <4>1 DEF TypeInv
      <4> QED BY <2>s, <4>1, <4>2
    <3>6. CASE CopyCurrent(d)
      <4>1. file' = file
        BY <3>6 DEF CopyCurrent
      <4> QED BY <1>2, <2>k, <3>6, <4>1
    <3>7. CASE ReplaceCurrent(d)
      BY <1>2, <2>k, <3>7
    <3>8. CASE CopyFails(d) \/ UploadFails(d) \/ SaveFails(d)
      BY <1>2, <3>8 DEF CopyFails, UploadFails, SaveFails
    <3> QED BY <2>1, <3>1, <3>2, <3>3, <3>4, <3>5, <3>6, <3>7, <3>8 DEF CallStep
  <2>2. CASE Die
    <3>1. deaths' = deaths + 1 /\ deaths \in Nat
      BY <2>2 DEF Die, TypeInv
    <3> QED BY <1>2, <3>1
  <2>3. CASE UNCHANGED versionsVars
    BY <2>s, <2>3 DEF versionsVars
  <2> QED BY <2>1, <2>2, <2>3 DEF VersionsNext
<1> QED BY <1>1, <1>2 DEF OutputInv

(* An output without a version is written over only between its own call's *)
(* write and that call's copy of it, by an overlapping call; once a call is*)
(* past its copy its bytes are never lost, unless a step has failed half   *)
(* way or the server has died (ResourceVersionsLost.cfg shows that the one *)
(* way is open).                                                           *)
THEOREM LostInOneWay == VersionsSpec => LostBeforeItsCopy
<1>1. VersionsInit => HeldInv /\ OutputInv
  BY DEF VersionsInit, HeldInv, OutputInv
<1>2. TypeInv /\ HeldInv /\ OutputInv /\ [VersionsNext]_versionsVars
        => TypeInv' /\ HeldInv' /\ OutputInv'
  BY TypeStep, HeldStep, OutputStep
<1>3. OutputInv => (~spoiled /\ deaths = 0 =>
        \A c \in wrote : file = c /\ file' # c => HasVersion(c) \/ stage[c] \in {"add", "copy"})
  BY DEF OutputInv
<1> QED BY <1>1, <1>2, <1>3, TypeInit, PTL DEF VersionsSpec, LostBeforeItsCopy
=============================================================================
