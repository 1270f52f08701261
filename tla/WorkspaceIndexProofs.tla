------------------------ MODULE WorkspaceIndexProofs ------------------------
(***************************************************************************)
(* What holds of WorkspaceIndex for any files, texts and models, any number  *)
(* of overlapping reindexes and chat turns, with failures, torn writes and   *)
(* reloads.                                                                  *)
(***************************************************************************)
EXTENDS WorkspaceIndex, TLAPS

-----------------------------------------------------------------------------
(* Indexes.                                                                  *)

\* Of an entry: the chunks are of the text whose hash is recorded.
Matches(e) == e.of = IF e.hash = Blank THEN Absent ELSE e.hash

\* Of an index: what HashesMatchVectors and VectorsOfOneModel say of it.
Hashed(index) == \A f \in Files : Matches(index.entries[f])
OneModel(index, c) ==
  \A f \in Files : LET by == index.entries[f].by
                   IN by \in {index.model, NoModel} \/ <<index.model, by>> \in c

\* The entries that are made are entries, and match.
LEMMA EntryMade ==
  /\ NoEntry \in Entries /\ Matches(NoEntry) /\ NoEntry.by = NoModel /\ NoEntry.hash = Absent
  /\ Blanks # {} => BlankEntry \in Entries
  /\ Matches(BlankEntry) /\ BlankEntry.by = NoModel /\ BlankEntry.hash = Blank
  /\ \A text \in Texts, m \in Models :
       /\ Entry(text, m) \in Entries /\ Matches(Entry(text, m))
       /\ Entry(text, m).by = m /\ Entry(text, m).hash = text
BY IndexAssumption
   DEF NoEntry, BlankEntry, Entry, Entries, Matches, Absent, Blank, NoModel, Written

\* An empty index is an index, and is sound.
LEMMA EmptyIndex ==
  /\ \A m \in Models : /\ Empty(m) \in Index /\ Empty(m).model = m
                       /\ Hashed(Empty(m)) /\ \A c : OneModel(Empty(m), c)
  /\ NoIndex.model = NoModel /\ Hashed(NoIndex) /\ \A c : OneModel(NoIndex, c)
BY EntryMade DEF Empty, NoIndex, Index, Hashed, OneModel

\* An index has a model; the absent one has none.
LEMMA NoIndexIsNone == NoIndex \notin Index
BY IndexAssumption DEF NoIndex, Index, NoModel

\* What is read is an index of the model asked for, sound if the file is.
LEMMA Deserialized ==
  ASSUME NEW data \in Index \union {NoIndex}, NEW m \in Models
  PROVE  /\ Deserialize(data, m) \in Index
         /\ Deserialize(data, m).model = m
         /\ Hashed(data) => Hashed(Deserialize(data, m))
         /\ \A c : OneModel(data, c) => OneModel(Deserialize(data, m), c)
<1>1. CASE data.model = m
  <2>1. data # NoIndex
    BY <1>1, EmptyIndex, IndexAssumption DEF NoModel
  <2>2. QED
    BY <1>1, <2>1 DEF Deserialize
<1>2. CASE data.model # m
  BY <1>2, EmptyIndex DEF Deserialize
<1>3. QED
  BY <1>1, <1>2

\* What can be read is what was saved, or nothing.
LEMMA ReadableType ==
  ASSUME TypeOK, NEW data \in Readable
  PROVE  data \in Index \union {NoIndex} /\ data \in {saved, NoIndex}
BY DEF TypeOK, Readable

-----------------------------------------------------------------------------
(* Types.                                                                    *)

\* A step of one job.
LEMMA StepType ==
  ASSUME TypeOK, NEW j \in Jobs, NEW state \in JobState, Step(j, state),
         state.at # "off" => state.model \in Models,
         state.at \in {"collecting", "embedding", "saving"} <=> state.index \in Index
  PROVE  /\ job' \in [Jobs -> JobState]
         /\ \A i \in Jobs :
              /\ job'[i].at # "off" => job'[i].model \in Models
              /\ HasIndex(i)' <=> job'[i].index \in Index
         /\ job'[j] = state
         /\ \A i \in Jobs \ {j} : job'[i] = job[i] /\ (HasIndex(i)' <=> HasIndex(i))
<1>1. /\ job \in [Jobs -> JobState]
      /\ \A i \in Jobs : /\ job[i].at # "off" => job[i].model \in Models
                         /\ HasIndex(i) <=> job[i].index \in Index
  BY DEF TypeOK
<1>2. /\ job' \in [Jobs -> JobState] /\ job'[j] = state
      /\ \A i \in Jobs \ {j} : job'[i] = job[i]
  BY <1>1 DEF Step
<1>3. QED
  BY <1>1, <1>2 DEF HasIndex

\* The state a job starts in.
Started(at, m) == [Off EXCEPT !.at = at, !.model = m]

\* A job that is off has a state, without an index; so has one that starts.
LEMMA OffType ==
  /\ Off \in JobState /\ Off.at = "off" /\ Off.index = NoIndex /\ Off.index \notin Index
  /\ \A at \in {"checking", "loading"}, m \in Models :
       /\ Started(at, m) \in JobState /\ Started(at, m).index \notin Index
       /\ Started(at, m).at = at /\ Started(at, m).model = m
BY NoIndexIsNone DEF Started, Off, JobState, Written

\* A job leaves.
LEMMA LeaveType ==
  ASSUME TypeOK, NEW j \in Jobs, Leave(j)
  PROVE  /\ job' \in [Jobs -> JobState]
         /\ \A i \in Jobs :
              /\ job'[i].at # "off" => job'[i].model \in Models
              /\ HasIndex(i)' <=> job'[i].index \in Index
         /\ held' \in Index \union {NoIndex}
         /\ user' \in {i \in Jobs : HasIndex(i)'} \union {NoJob}
         /\ job'[j] = Off
         /\ \A i \in Jobs \ {j} : job'[i] = job[i] /\ (HasIndex(i)' <=> HasIndex(i))
<1>1. Step(j, Off)
  BY DEF Leave, Step
<1>2. /\ job' \in [Jobs -> JobState] /\ job'[j] = Off
      /\ \A i \in Jobs : /\ job'[i].at # "off" => job'[i].model \in Models
                         /\ HasIndex(i)' <=> job'[i].index \in Index
      /\ \A i \in Jobs \ {j} : job'[i] = job[i] /\ (HasIndex(i)' <=> HasIndex(i))
  BY <1>1, OffType, StepType
<1>3. held' \in Index \union {NoIndex}
  BY DEF Leave, TypeOK, JobState
<1>4. user' \in {i \in Jobs : HasIndex(i)'} \union {NoJob}
  BY <1>2 DEF Leave, TypeOK
<1>5. QED
  BY <1>2, <1>3, <1>4

\* What the first half of an update makes of an entry.
LEMMA BroughtType ==
  ASSUME NEW e \in Entries, NEW text \in Written \union {Absent}
  PROVE  /\ Brought(e, text) \in Entries
         /\ Matches(e) => Matches(Brought(e, text))
         /\ Brought(e, text).by \in {e.by, NoModel}
         /\ text \notin Texts => Brought(e, text).hash = text
         /\ text \in Texts => Brought(e, text) = e
<1>1. text = Blank => Blanks # {}
  BY IndexAssumption DEF Written, Blank, Absent
<1>2. CASE text = Absent
  BY <1>2, EntryMade, IndexAssumption DEF Brought, Absent
<1>3. CASE text = Blank
  BY <1>1, <1>3, EntryMade, IndexAssumption DEF Brought, Absent, Blank
<1>4. CASE text # Absent /\ text # Blank
  BY <1>4, IndexAssumption DEF Brought, Written, Blank
<1>5. QED
  BY <1>2, <1>3, <1>4

\* A job whose index gets other entries.
WithEntries(s, at, m, changed, entries) ==
  [s EXCEPT !.at = at, !.model = m, !.changed = changed,
            !.index = [s.index EXCEPT !.entries = entries]]

\* What it is, field by field.
LEMMA NewEntries ==
  ASSUME NEW s \in JobState, s.index \in Index, NEW entries \in [Files -> Entries],
         NEW at \in {"embedding", "saving"}, NEW m \in Models, NEW changed \in SUBSET Files
  PROVE  LET t == WithEntries(s, at, m, changed, entries)
         IN  /\ t \in JobState
             /\ t.at = at /\ t.model = m /\ t.got = s.got /\ t.stable = s.stable
             /\ t.changed = changed
             /\ t.index \in Index /\ t.index.model = s.index.model
             /\ t.index.entries = entries
<1>0. PICK t : t = WithEntries(s, at, m, changed, entries)
  OBVIOUS
<1>1. PICK index : index = [s.index EXCEPT !.entries = entries]
  OBVIOUS
<1>2. index \in Index /\ index.model = s.index.model /\ index.entries = entries
  BY <1>1 DEF Index
<1>3. t = [s EXCEPT !.at = at, !.model = m, !.changed = changed, !.index = index]
  BY <1>0, <1>1 DEF WithEntries
<1>4. DOMAIN s = {"at", "model", "index", "todo", "got", "changed", "stable"}
  BY DEF JobState
<1>5. /\ t.at = at /\ t.model = m /\ t.got = s.got /\ t.stable = s.stable
      /\ t.changed = changed /\ t.index = index /\ t.todo = s.todo
  BY <1>3, <1>4
<1>6. t \in JobState
  BY <1>2, <1>3 DEF JobState
<1>7. QED
  BY <1>0, <1>2, <1>5, <1>6

\* The state a job updates its index to.
Updated(j) ==
  [job[j] EXCEPT !.at = "embedding", !.model = model, !.changed = Changed(j),
     !.index.entries = [f \in Files |-> Brought(job[j].index.entries[f], job[j].got[f])]]

\* The state it has when the vectors are there.
Replaced(j) ==
  [job[j] EXCEPT !.at = "saving",
     !.index.entries = [f \in Files |->
        IF f \in job[j].changed THEN Entry(job[j].got[f], job[j].model)
        ELSE job[j].index.entries[f]]]

\* What an update is, field by field.
LEMMA UpdatedType ==
  ASSUME TypeOK, NEW j \in Jobs, HasIndex(j)
  PROVE  /\ Updated(j) \in JobState
         /\ Updated(j).at = "embedding" /\ Updated(j).model = model
         /\ Updated(j).got = job[j].got /\ Updated(j).stable = job[j].stable
         /\ Updated(j).changed = Changed(j)
         /\ Updated(j).index \in Index
         /\ Updated(j).index.model = job[j].index.model
         /\ \A f \in Files : Updated(j).index.entries[f]
                              = Brought(job[j].index.entries[f], job[j].got[f])
<1>1. job[j] \in JobState /\ job[j].index \in Index /\ model \in Models
  BY DEF TypeOK
<1>2. Changed(j) \in SUBSET Files
  BY DEF Changed
<1>3. PICK entries : entries = [f \in Files |-> Brought(job[j].index.entries[f], job[j].got[f])]
  OBVIOUS
<1>4. entries \in [Files -> Entries]
  BY <1>1, <1>3, BroughtType DEF JobState, Index
<1>5. Updated(j) = [job[j] EXCEPT !.at = "embedding", !.model = model, !.changed = Changed(j),
                                  !.index.entries = entries]
  BY <1>3 DEF Updated
<1>6. Updated(j) = [job[j] EXCEPT !.at = "embedding", !.model = model, !.changed = Changed(j),
                       !.index = [job[j].index EXCEPT !.entries = entries]]
  BY <1>5
<1>7. /\ Updated(j) \in JobState
      /\ Updated(j).at = "embedding" /\ Updated(j).model = model
      /\ Updated(j).got = job[j].got /\ Updated(j).stable = job[j].stable
      /\ Updated(j).changed = Changed(j)
      /\ Updated(j).index \in Index /\ Updated(j).index.model = job[j].index.model
      /\ Updated(j).index.entries = entries
  <2>1. PICK s, t, m, changed : s = job[j] /\ t = Updated(j) /\ m = model /\ changed = Changed(j)
    OBVIOUS
  <2>2. /\ s \in JobState /\ s.index \in Index /\ m \in Models /\ changed \in SUBSET Files
        /\ t = WithEntries(s, "embedding", m, changed, entries)
    BY <1>1, <1>2, <1>6, <2>1 DEF WithEntries
  <2>3. /\ t \in JobState
        /\ t.at = "embedding" /\ t.model = m /\ t.got = s.got /\ t.stable = s.stable
        /\ t.changed = changed
        /\ t.index \in Index /\ t.index.model = s.index.model /\ t.index.entries = entries
    BY <1>4, <2>2, NewEntries
  <2>4. QED
    BY <2>1, <2>3
<1>8. QED
  BY <1>3, <1>7

\* What replacing the changed files is, field by field.
LEMMA ReplacedType ==
  ASSUME TypeOK, NEW j \in Jobs, HasIndex(j),
         \A f \in job[j].changed : job[j].got[f] \in Texts
  PROVE  /\ Replaced(j) \in JobState
         /\ Replaced(j).at = "saving" /\ Replaced(j).model = job[j].model
         /\ Replaced(j).got = job[j].got /\ Replaced(j).stable = job[j].stable
         /\ Replaced(j).changed = job[j].changed
         /\ Replaced(j).index \in Index
         /\ Replaced(j).index.model = job[j].index.model
         /\ \A f \in Files : Replaced(j).index.entries[f]
               = IF f \in job[j].changed THEN Entry(job[j].got[f], job[j].model)
                 ELSE job[j].index.entries[f]
<1>1. /\ job[j] \in JobState /\ job[j].index \in Index /\ job[j].model \in Models
  BY DEF TypeOK, HasIndex
<1>2. PICK entries : entries = [f \in Files |->
                       IF f \in job[j].changed THEN Entry(job[j].got[f], job[j].model)
                       ELSE job[j].index.entries[f]]
  OBVIOUS
<1>3. entries \in [Files -> Entries]
  BY <1>1, <1>2, EntryMade DEF JobState, Index
<1>4. Replaced(j) = [job[j] EXCEPT !.at = "saving", !.index.entries = entries]
  BY <1>2 DEF Replaced
<1>5. job[j].changed \in SUBSET Files
  BY <1>1 DEF JobState
<1>6. Replaced(j) = [job[j] EXCEPT !.at = "saving", !.model = job[j].model,
                       !.changed = job[j].changed,
                       !.index = [job[j].index EXCEPT !.entries = entries]]
  <2>1. [job[j] EXCEPT !.at = "saving", !.index.entries = entries]
          = [job[j] EXCEPT !.at = "saving", !.index = [job[j].index EXCEPT !.entries = entries]]
    OBVIOUS
  <2>2. PICK s, index : s = job[j] /\ index = [job[j].index EXCEPT !.entries = entries]
    OBVIOUS
  <2>3. [s EXCEPT !.at = "saving", !.index = index]
          = [s EXCEPT !.at = "saving", !.model = s.model, !.changed = s.changed, !.index = index]
    BY <1>1, <2>2 DEF JobState
  <2>4. QED
    BY <1>4, <2>1, <2>2, <2>3
<1>7. /\ Replaced(j) \in JobState
      /\ Replaced(j).at = "saving" /\ Replaced(j).model = job[j].model
      /\ Replaced(j).got = job[j].got /\ Replaced(j).stable = job[j].stable
      /\ Replaced(j).changed = job[j].changed
      /\ Replaced(j).index \in Index /\ Replaced(j).index.model = job[j].index.model
      /\ Replaced(j).index.entries = entries
  <2>1. PICK s, t : s = job[j] /\ t = Replaced(j)
    OBVIOUS
  <2>2. /\ s \in JobState /\ s.index \in Index /\ s.model \in Models
        /\ s.changed \in SUBSET Files
        /\ t = WithEntries(s, "saving", s.model, s.changed, entries)
    BY <1>1, <1>5, <1>6, <2>1 DEF WithEntries
  <2>3. /\ t \in JobState
        /\ t.at = "saving" /\ t.model = s.model /\ t.got = s.got /\ t.stable = s.stable
        /\ t.changed = s.changed
        /\ t.index \in Index /\ t.index.model = s.index.model /\ t.index.entries = entries
    BY <1>3, <2>2, NewEntries
  <2>4. QED
    BY <2>1, <2>3
<1>8. QED
  BY <1>2, <1>7

-----------------------------------------------------------------------------
(* The inductive invariant.  Of every index: the chunks are of the recorded     *)
(* texts, and of one model, but for the models that crossed.  Of every reindex:  *)
(* what it has read, and what its index says of it.                              *)

Sound(index, c) == Hashed(index) /\ OneModel(index, c)

\* The texts a job holds are those its entries are about to have, have, and, if no
\* file changed since it listed them, those on disk.
TextsOK(s, d) ==
  /\ s.at = "loading" => \A f \in Files : s.got[f] = Absent
  /\ s.at = "collecting" /\ s.stable => \A f \in Files : f \in s.todo \/ s.got[f] = d[f]
  /\ s.at = "embedding" =>
       /\ \A f \in s.changed : s.got[f] \in Texts
       /\ \A f \in Files \ s.changed : s.index.entries[f].hash = s.got[f]
  /\ s.at = "saving" => \A f \in Files : s.index.entries[f].hash = s.got[f]
  /\ s.at \in {"embedding", "saving"} /\ s.stable => \A f \in Files : s.got[f] = d[f]

\* The files are embedded with the model the index was loaded for, or the two crossed.
ModelsOK(s, c) ==
  s.at \in {"embedding", "saving"} => s.index.model = s.model \/ <<s.index.model, s.model>> \in c

JobOK(s, d, c) == TextsOK(s, d) /\ ModelsOK(s, c) /\ Sound(s.index, c)

IInv ==
  /\ TypeOK
  /\ Sound(saved, crossed) /\ Sound(held, crossed)
  /\ \A j \in Jobs : JobOK(job[j], disk, crossed)

\* What TypeOK says of the jobs.
JobsType ==
  /\ job \in [Jobs -> JobState]
  /\ \A j \in Jobs : /\ job[j].at # "off" => job[j].model \in Models
                     /\ HasIndex(j) <=> job[j].index \in Index

\* More models that crossed allow more.
LEMMA Monotone ==
  ASSUME NEW c, NEW e, c \subseteq e
  PROVE  /\ \A index : Sound(index, c) => Sound(index, e)
         /\ \A s, d : JobOK(s, d, c) => JobOK(s, d, e)
BY DEF Sound, OneModel, JobOK, ModelsOK

\* What can be read is sound.
LEMMA ReadableSound ==
  ASSUME IInv, NEW data \in Readable, NEW m \in Models
  PROVE  /\ Deserialize(data, m) \in Index /\ Deserialize(data, m).model = m
         /\ Sound(Deserialize(data, m), crossed)
<1>1. TypeOK /\ Sound(saved, crossed)
  BY DEF IInv
<1>2. data \in Index \union {NoIndex} /\ data \in {saved, NoIndex}
  BY <1>1, ReadableType
<1>3. Sound(data, crossed)
  BY <1>1, <1>2, EmptyIndex DEF Sound
<1>4. QED
  BY <1>2, <1>3, Deserialized DEF Sound

\* A job whose next state is right, and the others, keep the invariant.
LEMMA StepInv ==
  ASSUME IInv, NEW j \in Jobs, NEW state \in JobState, Step(j, state),
         state.at # "off" => state.model \in Models,
         state.at \in {"collecting", "embedding", "saving"} <=> state.index \in Index,
         JobOK(state, disk, crossed'), crossed \subseteq crossed', disk' = disk
  PROVE  /\ JobsType'
         /\ \A i \in Jobs : JobOK(job[i], disk, crossed)'
         /\ job'[j] = state
         /\ \A i \in Jobs \ {j} : HasIndex(i)' <=> HasIndex(i)
<1>1. TypeOK /\ \A i \in Jobs : JobOK(job[i], disk, crossed)
  BY DEF IInv
<1>2. /\ job' \in [Jobs -> JobState]
      /\ \A i \in Jobs : /\ job'[i].at # "off" => job'[i].model \in Models
                         /\ HasIndex(i)' <=> job'[i].index \in Index
      /\ job'[j] = state
      /\ \A i \in Jobs \ {j} : job'[i] = job[i] /\ (HasIndex(i)' <=> HasIndex(i))
  BY <1>1, StepType
<1>3. \A i \in Jobs : JobOK(job'[i], disk, crossed')
  BY <1>1, <1>2, Monotone
<1>4. QED
  BY <1>2, <1>3 DEF JobsType

\* A job that is off, or that only starts, is right.
LEMMA OffOK ==
  /\ \A d, c : JobOK(Off, d, c)
  /\ \A d, c, m : \A at \in {"checking", "loading"} : JobOK(Started(at, m), d, c)
<1>1. \A c : Sound(NoIndex, c)
  BY EmptyIndex DEF Sound
<1>2. ASSUME NEW d, NEW c PROVE JobOK(Off, d, c)
  BY <1>1, OffType DEF JobOK, TextsOK, ModelsOK
<1>3. ASSUME NEW d, NEW c, NEW m, NEW at \in {"checking", "loading"}
      PROVE  JobOK(Started(at, m), d, c)
  <2>1. PICK s : s = Started(at, m)
    OBVIOUS
  <2>2. s.at = at /\ s.model = m /\ s.index = NoIndex /\ s.got = [f \in Files |-> Absent]
    BY <2>1 DEF Off, Started
  <2>3. JobOK(s, d, c)
    BY <1>1, <2>2 DEF JobOK, TextsOK, ModelsOK
  <2>4. QED
    BY <2>1, <2>3
<1>4. QED
  BY <1>2, <1>3

\* A job that leaves keeps the invariant, whatever becomes of the file.
LEMMA LeaveInv ==
  ASSUME IInv, NEW j \in Jobs, Leave(j), disk' = disk, model' = model, timer' = timer,
         reader' = reader, query' = query, crossed' = crossed,
         owed' \subseteq Files, saved' \in {saved, job[j].index}
  PROVE  IInv'
<1>1. /\ TypeOK /\ Sound(saved, crossed) /\ Sound(held, crossed)
      /\ \A i \in Jobs : JobOK(job[i], disk, crossed)
  BY DEF IInv
<1>2. /\ job' \in [Jobs -> JobState]
      /\ \A i \in Jobs : /\ job'[i].at # "off" => job'[i].model \in Models
                         /\ HasIndex(i)' <=> job'[i].index \in Index
      /\ held' \in Index \union {NoIndex}
      /\ user' \in {i \in Jobs : HasIndex(i)'} \union {NoJob}
      /\ job'[j] = Off
      /\ \A i \in Jobs \ {j} : job'[i] = job[i]
  BY <1>1, LeaveType
<1>3. saved' \in Index \union {NoIndex}
  BY <1>1 DEF TypeOK, JobState
<1>4. TypeOK'
  BY <1>1, <1>2, <1>3 DEF TypeOK
<1>5. Sound(saved', crossed) /\ Sound(held', crossed)
  BY <1>1 DEF JobOK, Leave
<1>6. \A i \in Jobs : JobOK(job'[i], disk, crossed)
  BY <1>1, <1>2, OffOK
<1>7. QED
  BY <1>4, <1>5, <1>6 DEF IInv

-----------------------------------------------------------------------------
(* The steps.                                                                *)

\* A file changes: what was read may be stale, and no job is stable.
LEMMA FileInv ==
  ASSUME IInv, NEW f \in Files, NEW text \in Written \union {Absent},
         Save(f, text) \/ ChangeOutside(f, text)
  PROVE  IInv'
<1>1. /\ TypeOK /\ Sound(saved, crossed) /\ Sound(held, crossed)
      /\ \A i \in Jobs : JobOK(job[i], disk, crossed)
  BY DEF IInv
<1>2. /\ disk' \in [Files -> Written \union {Absent}] /\ timer' \in BOOLEAN
      /\ Unstable /\ owed' \subseteq Files
      /\ UNCHANGED <<model, saved, reader, user, held, query, crossed>>
  BY <1>1 DEF Save, ChangeOutside, TypeOK, ghosts
<1>3. ASSUME NEW i \in Jobs
      PROVE  /\ job'[i] \in JobState
             /\ job'[i].at = job[i].at /\ job'[i].model = job[i].model
             /\ job'[i].index = job[i].index
             /\ JobOK(job'[i], disk', crossed)
  <2>1. PICK s, t, d : s = job[i] /\ t = job'[i] /\ d = disk'
    OBVIOUS
  <2>2. s \in JobState /\ t = [s EXCEPT !.stable = FALSE] /\ JobOK(s, disk, crossed)
    BY <1>1, <1>2, <2>1 DEF Unstable, TypeOK
  <2>3. /\ t \in JobState /\ t.at = s.at /\ t.model = s.model /\ t.index = s.index
        /\ t.got = s.got /\ t.changed = s.changed /\ t.stable = FALSE
    BY <2>2 DEF JobState
  <2>4. JobOK(t, d, crossed)
    BY <2>2, <2>3 DEF JobOK, TextsOK, ModelsOK
  <2>5. QED
    BY <2>1, <2>3, <2>4
<1>4. DOMAIN job' = Jobs /\ job' = [i \in Jobs |-> job'[i]]
  BY <1>2 DEF Unstable
<1>5. TypeOK'
  BY <1>1, <1>2, <1>3, <1>4 DEF TypeOK, HasIndex
<1>6. QED
  BY <1>1, <1>2, <1>3, <1>5 DEF IInv

\* The setting changes: no index does.
LEMMA SwitchInv ==
  ASSUME IInv, NEW m \in Models, SwitchModel(m)
  PROVE  IInv'
<1>1. TypeOK'
  BY DEF IInv, SwitchModel, TypeOK, HasIndex, ghosts
<1>2. QED
  BY <1>1 DEF IInv, SwitchModel, ghosts

\* The window reloads: the file is what it was, what was being written, or nothing.
LEMMA ReloadInv ==
  ASSUME IInv, Reload
  PROVE  IInv'
<1>1. /\ TypeOK /\ Sound(saved, crossed) /\ Sound(held, crossed)
      /\ \A i \in Jobs : JobOK(job[i], disk, crossed)
  BY DEF IInv
<1>2. saved' \in Index \union {NoIndex} /\ Sound(saved', crossed)
  <2>1. CASE saved' \in Readable
    BY <1>1, <2>1, ReadableType, EmptyIndex DEF Sound
  <2>2. CASE saved' \in {job[j].index : j \in {i \in Jobs : job[i].at = "saving"}}
    BY <1>1, <2>2 DEF TypeOK, JobState, JobOK
  <2>3. QED
    BY <2>1, <2>2 DEF Reload
<1>3. Sound(NoIndex, crossed)
  BY EmptyIndex DEF Sound
<1>4. job' = [j \in Jobs |-> Off]
  BY DEF Reload
<1>5. job' \in [Jobs -> JobState] /\ \A j \in Jobs : job'[j] = Off
  BY <1>4, OffType
<1>6. JobsType'
  BY <1>5, OffType DEF JobsType, HasIndex
<1>7. TypeOK'
  BY <1>1, <1>2, <1>6 DEF TypeOK, JobsType, Reload
<1>8. QED
  BY <1>2, <1>3, <1>5, <1>7, OffOK DEF IInv, Reload

\* A reindex starts, or the timer looks for an index first.
LEMMA StartInv ==
  ASSUME IInv, NEW j \in Jobs, Reindex(j) \/ TimerReindexes(j) \/ TimerLoads(j)
  PROVE  IInv'
<1>1. TypeOK /\ Sound(saved, crossed) /\ Sound(held, crossed)
  BY DEF IInv
<1>2. PICK at \in {"checking", "loading"} :
         /\ Step(j, Started(at, model))
         /\ timer' \in BOOLEAN
         /\ UNCHANGED <<disk, model, saved, reader, user, held, query, ghosts>>
         /\ job[j].at = "off"
  BY <1>1 DEF Reindex, TimerReindexes, TimerLoads, TypeOK, Started
<1>3. PICK state : state = Started(at, model)
  OBVIOUS
<1>4. /\ state \in JobState /\ state.at = at /\ state.model = model /\ state.index \notin Index
      /\ model \in Models
  BY <1>1, <1>3, OffType DEF TypeOK
<1>5. JobOK(state, disk, crossed)
  BY <1>3, OffOK
<1>6. /\ JobsType' /\ \A i \in Jobs : JobOK(job[i], disk, crossed)'
      /\ \A i \in Jobs \ {j} : HasIndex(i)' <=> HasIndex(i)
  BY <1>2, <1>3, <1>4, <1>5, StepInv DEF ghosts
<1>7. user' \in {i \in Jobs : HasIndex(i)'} \union {NoJob}
  BY <1>1, <1>2, <1>6 DEF TypeOK, HasIndex
<1>8. TypeOK'
  BY <1>1, <1>2, <1>6, <1>7 DEF TypeOK, JobsType, ghosts
<1>9. QED
  BY <1>1, <1>2, <1>6, <1>8 DEF IInv, ghosts

\* The timer's load is over: what it read is the index in memory.
LEMMA CheckedInv ==
  ASSUME IInv, NEW j \in Jobs, Checked(j)
  PROVE  IInv'
<1>1. TypeOK /\ Sound(saved, crossed) /\ Sound(held, crossed)
  BY DEF IInv
<1>2. PICK data \in Readable :
         /\ held' = Deserialize(data, job[j].model)
         /\ Step(j, IF HasChunks(Deserialize(data, job[j].model))
                      THEN Started("loading", model) ELSE Off)
  BY DEF Checked, Started
<1>3. job[j].model \in Models
  BY <1>1 DEF Checked, TypeOK
<1>4. held' \in Index /\ Sound(held', crossed)
  BY <1>2, <1>3, ReadableSound
<1>5. PICK state : /\ Step(j, state)
                   /\ state \in {Off, Started("loading", model)}
  BY <1>2
<1>6. /\ state \in JobState /\ state.at \in {"off", "loading"} /\ state.index \notin Index
      /\ state.at # "off" => state.model \in Models
  BY <1>1, <1>5, OffType DEF TypeOK
<1>7. JobOK(state, disk, crossed)
  BY <1>5, OffOK
<1>8. JobsType' /\ \A i \in Jobs : JobOK(job[i], disk, crossed)'
  BY <1>5, <1>6, <1>7, StepInv DEF Checked, ghosts
<1>9. TypeOK'
  BY <1>1, <1>4, <1>8 DEF TypeOK, JobsType, Checked, ghosts
<1>10. QED
  BY <1>1, <1>4, <1>8, <1>9 DEF IInv, Checked, ghosts

\* What a step that leaves the rest alone keeps, when the job it is of still has, or
\* still lacks, an object of its own.
LEMMA SameInv ==
  ASSUME IInv, NEW j \in Jobs, NEW state \in JobState, Step(j, state),
         state.at # "off" => state.model \in Models,
         state.at \in {"collecting", "embedding", "saving"}, state.index \in Index,
         JobOK(state, disk, crossed'), crossed \subseteq crossed',
         crossed' \subseteq Models \X Models, owed' \subseteq Files,
         UNCHANGED <<disk, model, saved, timer, reader, user, held, query>>
  PROVE  IInv'
<1>1. TypeOK /\ Sound(saved, crossed) /\ Sound(held, crossed)
  BY DEF IInv
<1>2. /\ JobsType' /\ \A i \in Jobs : JobOK(job[i], disk, crossed)'
      /\ job'[j] = state
      /\ \A i \in Jobs \ {j} : HasIndex(i)' <=> HasIndex(i)
  BY StepInv
<1>3. user' \in {i \in Jobs : HasIndex(i)'} \union {NoJob}
  BY <1>1, <1>2 DEF TypeOK, HasIndex
<1>4. TypeOK'
  BY <1>1, <1>2, <1>3 DEF TypeOK, JobsType
<1>5. Sound(saved, crossed') /\ Sound(held, crossed')
  BY <1>1, Monotone
<1>6. QED
  BY <1>2, <1>4, <1>5 DEF IInv

\* index.json was read: the job has an object, and a list of the files.
LEMMA LoadedInv ==
  ASSUME IInv, NEW j \in Jobs, Loaded(j)
  PROVE  IInv'
<1>1. TypeOK /\ Sound(saved, crossed) /\ Sound(held, crossed) /\ JobOK(job[j], disk, crossed)
  BY DEF IInv
<1>2. PICK data \in Readable :
       job' = [i \in Jobs |->
                 IF i = j
                   THEN [job[j] EXCEPT !.at = "collecting", !.stable = TRUE,
                                       !.index = Deserialize(data, job[j].model),
                                       !.todo = {f \in Files : disk[f] # Absent}]
                   ELSE job[i]]
  BY DEF Loaded
<1>3. /\ job[j] \in JobState /\ job[j].model \in Models /\ job[j].at = "loading"
      /\ DOMAIN job = Jobs
  BY <1>1 DEF Loaded, TypeOK
<1>4. PICK s, index, todo, d, c :
         /\ s = job[j] /\ index = Deserialize(data, job[j].model) /\ d = disk /\ c = crossed
         /\ todo = {f \in Files : disk[f] # Absent}
  OBVIOUS
<1>5. index \in Index /\ index.model = s.model /\ Sound(index, c)
  BY <1>3, <1>4, ReadableSound
<1>6. PICK t : t = [s EXCEPT !.at = "collecting", !.stable = TRUE, !.index = index,
                             !.todo = todo]
  OBVIOUS
<1>7. /\ t \in JobState /\ t.at = "collecting" /\ t.model = s.model /\ t.index = index
      /\ t.todo = todo /\ t.got = s.got
  BY <1>3, <1>4, <1>5, <1>6 DEF JobState
<1>8. Step(j, t)
  BY <1>2, <1>3, <1>4, <1>6 DEF Step
<1>9. JobOK(t, d, c)
  <2>1. \A f \in Files : s.got[f] = Absent
    BY <1>1, <1>3, <1>4 DEF JobOK, TextsOK
  <2>2. TextsOK(t, d)
    BY <1>4, <1>7, <2>1 DEF TextsOK
  <2>3. ModelsOK(t, c)
    BY <1>7 DEF ModelsOK
  <2>4. QED
    BY <1>5, <1>7, <2>2, <2>3 DEF JobOK
<1>10. /\ JobsType' /\ \A i \in Jobs : JobOK(job[i], disk, crossed)'
       /\ job'[j] = t
  <2>1. JobOK(t, disk, crossed)
    BY <1>4, <1>9
  <2>2. t.model \in Models /\ t.at # "off" /\ t.at = "collecting" /\ t.index \in Index
    BY <1>3, <1>4, <1>5, <1>7
  <2>3. disk' = disk /\ crossed' = crossed
    BY DEF Loaded
  <2>4. QED
    BY <1>7, <1>8, <2>1, <2>2, <2>3, StepInv
<1>11. Sound(NoIndex, crossed)
  BY EmptyIndex DEF Sound
<1>12. TypeOK'
  BY <1>1, <1>7, <1>10 DEF TypeOK, JobsType, HasIndex, Loaded
<1>13. QED
  BY <1>1, <1>10, <1>11, <1>12 DEF IInv, Loaded

\* A file is read, or skipped.
LEMMA ReadInv ==
  ASSUME IInv, NEW j \in Jobs, NEW f \in Files, ReadFile(j, f) \/ SkipFile(j, f)
  PROVE  IInv'
<1>1. TypeOK /\ JobOK(job[j], disk, crossed)
  BY DEF IInv
<1>2. PICK s, d, c : s = job[j] /\ d = disk /\ c = crossed
  OBVIOUS
<1>3. /\ s \in JobState /\ s.at = "collecting" /\ s.model \in Models /\ s.index \in Index
      /\ d \in [Files -> Written \union {Absent}] /\ JobOK(s, d, c)
  BY <1>1, <1>2 DEF ReadFile, SkipFile, TypeOK, HasIndex
<1>4. PICK t : /\ \/ t = [s EXCEPT !.todo = @ \ {f}, !.got[f] = d[f]]
                  \/ t = [s EXCEPT !.todo = @ \ {f}, !.stable = FALSE]
               /\ Step(j, t)
  BY <1>2 DEF ReadFile, SkipFile
<1>5. /\ t.at = s.at /\ t.model = s.model /\ t.index = s.index /\ t.todo = s.todo \ {f}
      /\ \/ t.stable = s.stable /\ t.got = [s.got EXCEPT ![f] = d[f]]
         \/ t.stable = FALSE /\ t.got = s.got
      /\ t.changed = s.changed
  BY <1>3, <1>4 DEF JobState
<1>6. t \in JobState
  <2>1. CASE t = [s EXCEPT !.todo = @ \ {f}, !.stable = FALSE]
    BY <1>3, <2>1 DEF JobState
  <2>2. CASE t = [s EXCEPT !.todo = @ \ {f}, !.got[f] = d[f]]
    <3>1. PICK got : got = [s.got EXCEPT ![f] = d[f]]
      OBVIOUS
    <3>2. got \in [Files -> Written \union {Absent}]
      BY <1>3, <3>1 DEF JobState
    <3>3. t = [s EXCEPT !.todo = s.todo \ {f}, !.got = got]
      BY <2>2, <3>1
    <3>4. QED
      BY <1>3, <3>2, <3>3 DEF JobState
  <2>3. QED
    BY <1>4, <2>1, <2>2
<1>7. TextsOK(t, d)
  <2>1. CASE t.stable = FALSE
    BY <1>3, <1>5, <2>1 DEF TextsOK
  <2>2. CASE t.stable = s.stable /\ t.got = [s.got EXCEPT ![f] = d[f]]
    <3>1. s.got \in [Files -> Written \union {Absent}]
      BY <1>3 DEF JobState
    <3>2. ASSUME s.stable, NEW g \in Files PROVE g \in t.todo \/ t.got[g] = d[g]
      <4>1. g \in s.todo \/ s.got[g] = d[g]
        BY <1>3, <3>2 DEF JobOK, TextsOK
      <4>2. QED
        BY <1>5, <2>2, <3>1, <4>1
    <3>3. QED
      BY <1>3, <1>5, <2>2, <3>2 DEF TextsOK
  <2>3. QED
    BY <1>5, <2>1, <2>2
<1>8. JobOK(t, d, c)
  BY <1>3, <1>5, <1>7 DEF JobOK, ModelsOK
<1>9. /\ UNCHANGED <<disk, model, saved, timer, reader, user, held, query, crossed>>
      /\ owed' \subseteq Files /\ crossed \subseteq Models \X Models
  BY <1>1 DEF ReadFile, SkipFile, Gives, ghosts, TypeOK
<1>10. QED
  BY <1>2, <1>3, <1>4, <1>5, <1>6, <1>8, <1>9, SameInv

\* All files are read: what is gone is dropped, and the vectors are asked for.
LEMMA UpdateInv ==
  ASSUME IInv, NEW j \in Jobs, Update(j)
  PROVE  IInv'
<1>1. TypeOK /\ JobOK(job[j], disk, crossed)
  BY DEF IInv
<1>2. HasIndex(j) /\ Step(j, Updated(j))
  BY DEF Update, HasIndex, Updated
<1>3. PICK s, t, d, m, c : /\ s = job[j] /\ t = Updated(j) /\ d = disk /\ m = model
                          /\ c = crossed
  OBVIOUS
<1>4. /\ s \in JobState /\ s.at = "collecting" /\ s.index \in Index /\ s.todo = {}
      /\ JobOK(s, d, c) /\ m \in Models
  BY <1>1, <1>2, <1>3 DEF Update, TypeOK
<1>5. /\ t \in JobState /\ t.at = "embedding" /\ t.model = m /\ t.got = s.got
      /\ t.stable = s.stable /\ t.index \in Index /\ t.index.model = s.index.model
      /\ t.changed = {f \in Files : s.got[f] \in Texts /\ s.index.entries[f].hash # s.got[f]}
      /\ \A f \in Files : t.index.entries[f] = Brought(s.index.entries[f], s.got[f])
  BY <1>1, <1>2, <1>3, UpdatedType DEF Changed
<1>6. ASSUME NEW f \in Files
      PROVE  LET e == s.index.entries[f]
                 b == t.index.entries[f]
             IN  /\ Matches(e) => Matches(b)
                 /\ b.by \in {e.by, NoModel}
                 /\ s.got[f] \notin Texts => b.hash = s.got[f]
                 /\ s.got[f] \in Texts => b = e
  <2>1. s.index.entries[f] \in Entries /\ s.got[f] \in Written \union {Absent}
    BY <1>4 DEF Index, JobState
  <2>2. QED
    BY <1>5, <2>1, BroughtType
<1>7. TextsOK(t, d)
  <2>1. \A f \in t.changed : t.got[f] \in Texts
    BY <1>5
  <2>2. \A f \in Files \ t.changed : t.index.entries[f].hash = t.got[f]
    BY <1>5, <1>6
  <2>3. s.stable => \A f \in Files : t.got[f] = d[f]
    BY <1>4, <1>5 DEF JobOK, TextsOK
  <2>4. QED
    BY <1>5, <2>1, <2>2, <2>3 DEF TextsOK
<1>8. PICK e : e = c \cup ({<<s.index.model, m>>} \ {<<m, m>>})
  OBVIOUS
<1>9. Sound(t.index, e)
  BY <1>4, <1>5, <1>6, <1>8 DEF JobOK, Sound, Hashed, OneModel
<1>10. ModelsOK(t, e)
  BY <1>5, <1>8 DEF ModelsOK
<1>11. JobOK(t, d, e)
  BY <1>7, <1>9, <1>10 DEF JobOK
<1>12. /\ UNCHANGED <<disk, model, saved, timer, reader, user, held, query, owed>>
       /\ crossed' = e
  BY <1>3, <1>8 DEF Update
<1>13. /\ crossed \subseteq crossed' /\ crossed' \subseteq Models \X Models
       /\ owed' \subseteq Files
  BY <1>1, <1>3, <1>4, <1>8, <1>12 DEF TypeOK, Index
<1>14. QED
  BY <1>2, <1>3, <1>4, <1>5, <1>11, <1>12, <1>13, SameInv

\* The vectors are there: the entries of the changed files are replaced.
LEMMA EmbeddedInv ==
  ASSUME IInv, NEW j \in Jobs, Embedded(j)
  PROVE  IInv'
<1>1. TypeOK /\ JobOK(job[j], disk, crossed)
  BY DEF IInv
<1>2. HasIndex(j) /\ Step(j, Replaced(j))
  BY DEF Embedded, HasIndex, Replaced
<1>3. PICK s, t, d, c : s = job[j] /\ t = Replaced(j) /\ d = disk /\ c = crossed
  OBVIOUS
<1>4. /\ s \in JobState /\ s.at = "embedding" /\ s.index \in Index /\ s.model \in Models
      /\ JobOK(s, d, c) /\ s.changed \in SUBSET Files
  BY <1>1, <1>2, <1>3 DEF Embedded, TypeOK, JobState
<1>5. \A f \in s.changed : s.got[f] \in Texts
  BY <1>4 DEF JobOK, TextsOK
<1>6. /\ t \in JobState /\ t.at = "saving" /\ t.model = s.model /\ t.got = s.got
      /\ t.stable = s.stable /\ t.index \in Index /\ t.index.model = s.index.model
      /\ \A f \in Files : t.index.entries[f] = IF f \in s.changed THEN Entry(s.got[f], s.model)
                                               ELSE s.index.entries[f]
  BY <1>1, <1>2, <1>3, <1>5, ReplacedType
<1>7. \A f \in s.changed : /\ t.index.entries[f].hash = s.got[f]
                           /\ t.index.entries[f].by = s.model
                           /\ Matches(t.index.entries[f])
  BY <1>4, <1>5, <1>6, EntryMade
<1>8. TextsOK(t, d)
  BY <1>4, <1>6, <1>7 DEF JobOK, TextsOK
<1>9. Sound(t.index, c)
  BY <1>4, <1>6, <1>7 DEF JobOK, ModelsOK, Sound, Hashed, OneModel
<1>10. ModelsOK(t, c)
  BY <1>4, <1>6 DEF JobOK, ModelsOK
<1>11. JobOK(t, d, c)
  BY <1>8, <1>9, <1>10 DEF JobOK
<1>12. /\ UNCHANGED <<disk, model, saved, timer, reader, user, held, query, ghosts>>
       /\ owed \subseteq Files /\ crossed \subseteq Models \X Models
  BY <1>1 DEF Embedded, TypeOK
<1>13. QED
  BY <1>2, <1>3, <1>4, <1>6, <1>11, <1>12, SameInv DEF ghosts

\* A chat turn loads, or queries, the index; a timer finds nothing to keep fresh.
LEMMA ReaderInv ==
  ASSUME IInv,
         \/ \E r \in Readers : ReaderLoads(r) \/ ReaderLoaded(r)
         \/ Retrieve
         \/ TimerIgnored
  PROVE  IInv'
<1>1. /\ TypeOK /\ Sound(saved, crossed) /\ Sound(held, crossed)
      /\ \A i \in Jobs : JobOK(job[i], disk, crossed)
      /\ UNCHANGED <<disk, model, saved, job, crossed>> /\ owed' \subseteq Files
  BY DEF IInv, TypeOK, ReaderLoads, ReaderLoaded, Retrieve, TimerIgnored, ghosts
<1>2. held' \in Index \union {NoIndex} /\ Sound(held', crossed)
  <2>1. CASE UNCHANGED held
    BY <1>1, <2>1 DEF TypeOK
  <2>2. ASSUME NEW r \in Readers, ReaderLoaded(r)
        PROVE  held' \in Index \union {NoIndex} /\ Sound(held', crossed)
    <3>1. reader[r] \in Models
      BY <1>1, <2>2 DEF ReaderLoaded, TypeOK
    <3>2. QED
      BY <2>2, <3>1, ReadableSound DEF ReaderLoaded
  <2>3. QED
    BY <2>1, <2>2 DEF ReaderLoads, Retrieve, TimerIgnored
<1>3. reader' \in [Readers -> Models \union {NoModel}] /\ timer' \in BOOLEAN
  BY <1>1 DEF TypeOK, ReaderLoads, ReaderLoaded, Retrieve, TimerIgnored
<1>4. query' \in [index : Models \union {NoModel}, vector : Models \union {NoModel}]
  <2>1. CASE Retrieve
    <3>1. InMemory \in Index \union {NoIndex}
      BY <1>1 DEF InMemory, TypeOK, JobState
    <3>2. InMemory.model \in Models \union {NoModel}
      BY <3>1, EmptyIndex DEF Index
    <3>3. QED
      BY <1>1, <2>1, <3>2 DEF Retrieve, TypeOK
  <2>2. CASE UNCHANGED query
    BY <1>1, <2>2 DEF TypeOK
  <2>3. QED
    BY <2>1, <2>2 DEF ReaderLoads, ReaderLoaded, TimerIgnored
<1>5. user' \in {user, NoJob}
  BY DEF ReaderLoads, ReaderLoaded, Retrieve, TimerIgnored
<1>6. TypeOK'
  BY <1>1, <1>2, <1>3, <1>4, <1>5 DEF TypeOK, HasIndex
<1>7. QED
  BY <1>1, <1>2, <1>6 DEF IInv

-----------------------------------------------------------------------------
(* The theorems.                                                             *)

\* Every step keeps the invariant.
LEMMA NextInv == IInv /\ [Next]_vars => IInv'
<1> SUFFICES ASSUME IInv, [Next]_vars PROVE IInv'
  OBVIOUS
<1>1. ASSUME NEW f \in Files, NEW text \in Written \union {Absent},
             Save(f, text) \/ ChangeOutside(f, text)
      PROVE  IInv'
  BY <1>1, FileInv
<1>2. ASSUME NEW f \in Files, NEW j \in Jobs, ReadFile(j, f) \/ SkipFile(j, f)
      PROVE  IInv'
  BY <1>2, ReadInv
<1>3. ASSUME NEW m \in Models, SwitchModel(m) PROVE IInv'
  BY <1>3, SwitchInv
<1>4. CASE Reload
  BY <1>4, ReloadInv
<1>5. ASSUME NEW j \in Jobs, Reindex(j) \/ TimerReindexes(j) \/ TimerLoads(j) PROVE IInv'
  BY <1>5, StartInv
<1>6. ASSUME NEW j \in Jobs, Checked(j) PROVE IInv'
  BY <1>6, CheckedInv
<1>7. ASSUME NEW j \in Jobs, Loaded(j) PROVE IInv'
  BY <1>7, LoadedInv
<1>8. ASSUME NEW j \in Jobs, NothingToIndex(j) \/ Saved(j) \/ ReindexFails(j) PROVE IInv'
  <2>1. /\ Leave(j) /\ saved' \in {saved, job[j].index}
        /\ UNCHANGED <<disk, model, timer, reader, query, crossed>> /\ owed' \subseteq Files
    BY <1>8 DEF NothingToIndex, Saved, ReindexFails, Gives, ghosts, IInv, TypeOK
  <2>2. QED
    BY <2>1, LeaveInv
<1>9. ASSUME NEW j \in Jobs, Update(j) PROVE IInv'
  BY <1>9, UpdateInv
<1>10. ASSUME NEW j \in Jobs, Embedded(j) PROVE IInv'
  BY <1>10, EmbeddedInv
<1>11. CASE (\E r \in Readers : ReaderLoads(r) \/ ReaderLoaded(r)) \/ Retrieve \/ TimerIgnored
  BY <1>11, ReaderInv
<1>12. CASE UNCHANGED vars
  BY <1>12 DEF vars, IInv, TypeOK, HasIndex
<1>13. QED
  BY <1>1, <1>2, <1>3, <1>4, <1>5, <1>6, <1>7, <1>8, <1>9, <1>10, <1>11, <1>12 DEF Next

\* The start: no reindex runs, and the file, if any, is of the files.
LEMMA InitInv == Init => IInv
<1> SUFFICES ASSUME Init PROVE IInv
  OBVIOUS
<1>1. Sound(NoIndex, crossed)
  BY EmptyIndex DEF Sound
<1>2. saved \in Index \union {NoIndex} /\ Sound(saved, crossed)
  <2>1. CASE ~Indexed
    BY <1>1, <2>1 DEF Init
  <2>2. CASE Indexed
    <3>1. saved = [model |-> model, entries |-> [f \in Files |-> Entry(disk[f], model)]]
      BY <2>2 DEF Init
    <3>2. saved \in Index
      BY <3>1, EntryMade DEF Init, Index
    <3>3. \A f \in Files : /\ Matches(saved.entries[f])
                           /\ saved.entries[f].by = saved.model
      BY <3>1, EntryMade DEF Init
    <3>4. QED
      BY <3>2, <3>3 DEF Sound, Hashed, OneModel
  <2>3. QED
    BY <2>1, <2>2
<1>3. job \in [Jobs -> JobState] /\ \A j \in Jobs : job[j] = Off
  BY OffType DEF Init
<1>4. TypeOK
  BY <1>2, <1>3, OffType DEF Init, TypeOK, HasIndex, Written
<1>5. QED
  BY <1>1, <1>2, <1>3, <1>4, OffOK DEF Init, IInv

\* IInv holds.
LEMMA Invariance == Spec => []IInv
BY InitInv, NextInv, PTL DEF Spec

\* Every variable keeps its type: an index, or the absence of one, wherever an
\* index is kept, and this.index always the object of a reindex that has one.
THEOREM IndexTyped == Spec => []TypeOK
<1>1. IInv => TypeOK
  BY DEF IInv
<1>2. QED
  BY <1>1, Invariance, PTL

\* However reindexes, loads, failures, torn writes and reloads interleave, the hash
\* that makes a later reindex skip a file is that of the text its vectors are of.
THEOREM HashesAreTrue == Spec => []HashesMatchVectors
<1>1. IInv => HashesMatchVectors
  BY DEF IInv, HashesMatchVectors, AllIndexes, JobOK, Sound, Hashed, Matches
<1>2. QED
  BY <1>1, Invariance, PTL

\* Every index, in memory and on disk, holds vectors of the model it names, and of
\* another only if the setting changed to it in the middle of a reindex that had loaded
\* an index for the named one.
THEOREM OneModelPerIndex == Spec => []VectorsOfOneModel
<1>1. IInv => VectorsOfOneModel
  BY DEF IInv, VectorsOfOneModel, AllIndexes, JobOK, Sound, OneModel
<1>2. QED
  BY <1>1, Invariance, PTL

\* Whatever else goes on, a reindex during which no file changed, and which could read
\* every file, writes an index of exactly the files and texts there are.
THEOREM SavedIndexIsFresh == Spec => SavesAreFresh
<1>1. IInv => [\A j \in Jobs : (job[j].at = "saving" /\ saved' = job[j].index /\ job[j].stable
                                  /\ job'[j].at = "off")
                                  => IsFresh(job[j].index)]_vars
  BY DEF IInv, JobOK, TextsOK, IsFresh
<1>2. QED
  BY <1>1, Invariance, PTL DEF SavesAreFresh

-----------------------------------------------------------------------------
(* The index in memory is kept fresh.  The inductive invariant: a step is still *)
(* to come that starts over from what the files hold by then; or else, of every  *)
(* file but those owed, the index in memory knows what it holds, or the reindex    *)
(* whose object it is has read what it holds, or has yet to read it.              *)

\* The debounce runs, or a reindex has yet to read index.json, and the files after it.
Pending == timer \/ \E j \in Jobs : job[j].at \in {"checking", "loading"}

\* What a reindex has read of a file is the text, or it has yet to read it.
ReadOK(s, f, text) ==
  /\ s.at = "collecting" => f \in s.todo \/ s.got[f] = text
  /\ s.at \in {"embedding", "saving"} => s.got[f] = text

Follows(f) ==
  IF user = NoJob THEN HasChunks(held) => held.entries[f].hash = disk[f]
  ELSE ReadOK(job[user], f, disk[f])

FInv == Pending \/ \A f \in Files \ owed : Follows(f)

\* No index has no chunks.
LEMMA NoChunks == ~ HasChunks(NoIndex)
BY DEF HasChunks, NoIndex, NoEntry

\* A file changes: the debounce runs, or the index in memory may miss it.
LEMMA FreshFile ==
  ASSUME TypeOK, FInv, NEW f \in Files, NEW text,
         Save(f, text) \/ ChangeOutside(f, text)
  PROVE  FInv'
<1>1. CASE Save(f, text)
  BY <1>1 DEF Save, FInv, Pending
<1>2. CASE ChangeOutside(f, text)
  <2>1. \A j \in Jobs : LET s == job[j]
                            t == job'[j]
                        IN t.at = s.at /\ t.todo = s.todo /\ t.got = s.got
    <3> SUFFICES ASSUME NEW j \in Jobs, NEW s, NEW t, s = job[j], t = job'[j]
                 PROVE  t.at = s.at /\ t.todo = s.todo /\ t.got = s.got
      OBVIOUS
    <3>1. s \in JobState /\ t = [s EXCEPT !.stable = FALSE]
      BY <1>2 DEF TypeOK, ChangeOutside, Unstable
    <3>2. QED
      BY <3>1 DEF JobState
  <2>2. UNCHANGED <<timer, user, held>> /\ owed' = owed \cup {f}
    BY <1>2 DEF ChangeOutside
  <2>3. Pending => Pending'
    BY <2>1, <2>2 DEF Pending
  <2>4. ASSUME NEW g \in Files \ owed', Follows(g) PROVE Follows(g)'
    <3>1. g # f /\ disk'[g] = disk[g]
      BY <1>2, <2>2, <2>4 DEF ChangeOutside, TypeOK
    <3>2. user # NoJob => user \in Jobs
      BY DEF TypeOK
    <3>3. CASE user = NoJob
      BY <2>2, <2>4, <3>1, <3>3 DEF Follows
    <3>4. CASE user # NoJob
      <4>1. ReadOK(job[user], g, disk[g])
        BY <2>4, <3>4 DEF Follows
      <4>2. ReadOK(job'[user], g, disk'[g])
        BY <2>1, <3>1, <3>2, <3>4, <4>1 DEF ReadOK
      <4>3. QED
        BY <2>2, <3>4, <4>2 DEF Follows
    <3>5. QED
      BY <3>3, <3>4
  <2>5. QED
    BY <2>2, <2>3, <2>4 DEF FInv
<1>3. QED
  BY <1>1, <1>2

\* A reindex works on, and what it has read it keeps.
LEMMA FreshStep ==
  ASSUME TypeOK, FInv, NEW j \in Jobs, NEW s, Step(j, s),
         job[j].at \notin {"checking", "loading"},
         UNCHANGED <<disk, timer, user, held>>, owed \subseteq owed',
         user = j => \A f \in Files \ owed' :
                       ReadOK(job[j], f, disk[f]) => ReadOK(s, f, disk[f])
  PROVE  FInv'
<1>1. job'[j] = s /\ \A i \in Jobs \ {j} : job'[i] = job[i]
  BY DEF Step, TypeOK
<1>2. Pending => Pending'
  BY <1>1 DEF Pending
<1>3. ASSUME NEW f \in Files \ owed', Follows(f) PROVE Follows(f)'
  <2>1. CASE user = NoJob
    BY <1>3, <2>1 DEF Follows
  <2>2. CASE user # NoJob
    <3>1. user \in Jobs /\ ReadOK(job[user], f, disk[f])
      BY <1>3, <2>2 DEF Follows, TypeOK
    <3>2. ReadOK(job'[user], f, disk[f])
      BY <1>1, <3>1
    <3>3. QED
      BY <2>2, <3>2 DEF Follows
  <2>3. QED
    BY <2>1, <2>2
<1>4. QED
  BY <1>2, <1>3 DEF FInv

\* A file is read or skipped; all are, and are compared; the vectors are there.
LEMMA FreshWork ==
  ASSUME TypeOK, FInv, NEW j \in Jobs,
         (\E f \in Files : ReadFile(j, f) \/ SkipFile(j, f)) \/ Update(j) \/ Embedded(j)
  PROVE  FInv'
<1>1. PICK s, d : s = job[j] /\ d = disk
  OBVIOUS
<1>2. s \in JobState /\ d \in [Files -> Written \union {Absent}]
  BY <1>1 DEF TypeOK
<1>3. ASSUME NEW f \in Files, ReadFile(j, f) PROVE FInv'
  <2>1. PICK t : t = [s EXCEPT !.todo = @ \ {f}, !.got[f] = d[f]]
    OBVIOUS
  <2>2. /\ t.at = s.at /\ s.at = "collecting"
        /\ t.todo = s.todo \ {f} /\ t.got = [s.got EXCEPT ![f] = d[f]] /\ DOMAIN s.got = Files
    BY <1>1, <1>2, <1>3, <2>1 DEF JobState, ReadFile
  <2>3. \A g \in Files : ReadOK(s, g, d[g]) => ReadOK(t, g, d[g])
    BY <2>2 DEF ReadOK
  <2>4. Step(j, t) /\ UNCHANGED <<disk, timer, user, held>> /\ owed' = owed
    BY <1>1, <1>3, <2>1 DEF ReadFile, ghosts
  <2>5. QED
    BY <1>1, <2>2, <2>3, <2>4, FreshStep
<1>4. ASSUME NEW f \in Files, SkipFile(j, f) PROVE FInv'
  <2>1. PICK t : t = [s EXCEPT !.todo = @ \ {f}, !.stable = FALSE]
    OBVIOUS
  <2>2. /\ t.at = s.at /\ s.at = "collecting"
        /\ t.todo = s.todo \ {f} /\ t.got = s.got
    BY <1>1, <1>2, <1>4, <2>1 DEF JobState, SkipFile
  <2>3. \A g \in Files \ {f} : ReadOK(s, g, d[g]) => ReadOK(t, g, d[g])
    BY <2>2 DEF ReadOK
  <2>4. /\ Step(j, t) /\ UNCHANGED <<disk, timer, user, held>>
        /\ owed \subseteq owed' /\ (user = j => f \in owed')
    BY <1>1, <1>4, <2>1 DEF SkipFile, Gives
  <2>5. QED
    BY <1>1, <2>2, <2>3, <2>4, FreshStep
<1>5. CASE Update(j)
  <2>1. PICK t : t = Updated(j)
    OBVIOUS
  <2>2. t.at = "embedding" /\ t.got = s.got
    BY <1>1, <1>5, <2>1, UpdatedType DEF Update, HasIndex
  <2>3. s.at = "collecting" /\ s.todo = {}
    BY <1>1, <1>5 DEF Update
  <2>4. \A g \in Files : ReadOK(s, g, d[g]) => ReadOK(t, g, d[g])
    BY <2>2, <2>3 DEF ReadOK
  <2>5. Step(j, t) /\ UNCHANGED <<disk, timer, user, held>> /\ owed' = owed
    BY <1>5, <2>1 DEF Update, Updated
  <2>6. QED
    BY <1>1, <2>3, <2>4, <2>5, FreshStep
<1>6. CASE Embedded(j)
  <2>1. PICK index : index = [s.index EXCEPT !.entries = [f \in Files |->
                        IF f \in s.changed THEN Entry(s.got[f], s.model)
                        ELSE s.index.entries[f]]]
    OBVIOUS
  <2>2. PICK t : t = [s EXCEPT !.at = "saving", !.index = index]
    OBVIOUS
  <2>3. t.at = "saving" /\ t.got = s.got /\ s.at = "embedding"
    BY <1>1, <1>2, <1>6, <2>2 DEF JobState, Embedded
  <2>4. \A g \in Files : ReadOK(s, g, d[g]) => ReadOK(t, g, d[g])
    BY <2>3 DEF ReadOK
  <2>5. Step(j, t) /\ UNCHANGED <<disk, timer, user, held>> /\ owed' = owed
    BY <1>1, <1>6, <2>1, <2>2 DEF Embedded, ghosts
  <2>6. QED
    BY <1>1, <2>3, <2>4, <2>5, FreshStep
<1>7. QED
  BY <1>3, <1>4, <1>5, <1>6

\* A reindex ends.  If the index in memory is its object, either it wrote what it had
\* read, or it gave up, and every file is owed.
LEMMA FreshLeave ==
  ASSUME IInv, FInv, NEW j \in Jobs, NothingToIndex(j) \/ Saved(j) \/ ReindexFails(j)
  PROVE  FInv'
<1>1. TypeOK /\ TextsOK(job[j], disk) /\ job[j] \in JobState
  BY DEF IInv, JobOK, TypeOK
<1>2. /\ Leave(j) /\ UNCHANGED <<disk, timer>> /\ owed \subseteq owed'
      /\ job[j].at \notin {"checking", "loading"}
      /\ job[j].at = "saving" \/ (user = j => Files \subseteq owed')
  BY DEF NothingToIndex, Saved, ReindexFails, Gives, ghosts
<1>3. job'[j] = Off /\ \A i \in Jobs \ {j} : job'[i] = job[i]
  BY <1>1, <1>2 DEF Leave, TypeOK
<1>4. Pending => Pending'
  BY <1>2, <1>3 DEF Pending
<1>5. ASSUME NEW f \in Files \ owed', Follows(f) PROVE Follows(f)'
  <2>1. NoJob # j
    BY IndexAssumption DEF NoJob
  <2>2. CASE user = j
    <3>1. user' = NoJob /\ held' = job[j].index /\ job[j].at = "saving"
      BY <1>2, <1>5, <2>2 DEF Leave
    <3>2. job[j].got[f] = disk[f] /\ job[j].index.entries[f].hash = job[j].got[f]
      BY <1>1, <1>5, <2>1, <2>2, <3>1 DEF Follows, ReadOK, TextsOK
    <3>3. QED
      BY <1>2, <3>1, <3>2 DEF Follows
  <2>3. CASE user = NoJob
    BY <1>2, <1>5, <2>1, <2>3 DEF Follows, Leave
  <2>4. CASE user # j /\ user # NoJob
    <3>1. user \in Jobs /\ user' = user /\ job'[user] = job[user]
      BY <1>1, <1>2, <1>3, <2>4 DEF Leave, TypeOK
    <3>2. ReadOK(job[user], f, disk[f])
      BY <1>5, <2>4 DEF Follows
    <3>3. QED
      BY <1>2, <2>4, <3>1, <3>2 DEF Follows
  <2>5. QED
    BY <2>2, <2>3, <2>4
<1>6. QED
  BY <1>2, <1>4, <1>5 DEF FInv

\* A reindex starts, or the debounce asks whether there is an index: a step is to come.
LEMMA FreshStart ==
  ASSUME TypeOK, NEW j \in Jobs, NEW s, Step(j, s), s.at \in {"checking", "loading"}
  PROVE  FInv'
<1>1. job'[j] = s
  BY DEF Step, TypeOK
<1>2. QED
  BY <1>1 DEF FInv, Pending

\* index.json was read for the debounce: it has chunks, so the reindex starts; or it has
\* none to be stale.
LEMMA FreshChecked ==
  ASSUME TypeOK, NEW j \in Jobs, Checked(j)
  PROVE  FInv'
<1>1. PICK index : /\ held' = index /\ user' = NoJob
                   /\ Step(j, IF HasChunks(index) THEN Started("loading", model) ELSE Off)
  BY DEF Checked, Started
<1>2. CASE HasChunks(index)
  <2>1. PICK s : s = Started("loading", model)
    OBVIOUS
  <2>2. s.at = "loading" /\ Step(j, s)
    BY <1>1, <1>2, <2>1, OffType DEF TypeOK
  <2>3. QED
    BY <2>2, FreshStart
<1>3. CASE ~ HasChunks(index)
  <2>1. ~ HasChunks(held')
    BY <1>1, <1>3
  <2>2. (~ HasChunks(held))'
    BY <2>1 DEF HasChunks
  <2>3. QED
    BY <1>1, <2>2 DEF FInv, Follows
<1>4. QED
  BY <1>2, <1>3

\* index.json was read by a reindex: its object is the index in memory, and it has yet to
\* read every file there is.
LEMMA FreshLoaded ==
  ASSUME TypeOK, IInv, NEW j \in Jobs, Loaded(j)
  PROVE  FInv'
<1>1. job[j] \in JobState /\ TextsOK(job[j], disk) /\ job[j].at = "loading"
  BY DEF TypeOK, IInv, JobOK, Loaded
<1>2. PICK index : job' = [i \in Jobs |->
                 IF i = j
                   THEN [job[j] EXCEPT !.at = "collecting", !.stable = TRUE,
                                       !.index = index,
                                       !.todo = {f \in Files : disk[f] # Absent}]
                   ELSE job[i]]
  BY DEF Loaded
<1>3. PICK s, t, d, todo : /\ s = job[j] /\ d = disk /\ todo = {f \in Files : disk[f] # Absent}
                           /\ t = [s EXCEPT !.at = "collecting", !.stable = TRUE,
                                            !.index = index, !.todo = todo]
  OBVIOUS
<1>4. job'[j] = t
  BY <1>2, <1>3
<1>5. t.at = "collecting" /\ t.todo = todo /\ t.got = s.got
  BY <1>1, <1>3 DEF JobState
<1>6. \A f \in Files : s.got[f] = Absent
  BY <1>1, <1>3 DEF TextsOK
<1>7. \A f \in Files : ReadOK(t, f, d[f])
  BY <1>3, <1>5, <1>6 DEF ReadOK
<1>8. user' = j /\ j # NoJob /\ disk' = disk
  BY IndexAssumption DEF Loaded, NoJob
<1>9. QED
  BY <1>3, <1>4, <1>7, <1>8 DEF FInv, Follows

\* Every step keeps the invariant.
LEMMA NextFresh == ASSUME IInv, FInv, [Next]_vars PROVE FInv'
<1>0. TypeOK /\ model \in Models
  BY DEF IInv, TypeOK
<1>1. ASSUME NEW f \in Files, NEW text, Save(f, text) \/ ChangeOutside(f, text) PROVE FInv'
  BY <1>0, <1>1, FreshFile
<1>2. ASSUME NEW f \in Files, NEW j \in Jobs, ReadFile(j, f) \/ SkipFile(j, f) PROVE FInv'
  BY <1>0, <1>2, FreshWork
<1>3. CASE Reload
  BY <1>3, NoChunks DEF Reload, FInv, Follows, HasChunks
<1>4. ASSUME NEW j \in Jobs, Reindex(j) \/ TimerReindexes(j) \/ TimerLoads(j) PROVE FInv'
  <2>1. PICK s, t : s = Started("loading", model) /\ t = Started("checking", model)
    OBVIOUS
  <2>2. s.at = "loading" /\ t.at = "checking"
    BY <1>0, <2>1, OffType
  <2>3. Step(j, s) \/ Step(j, t)
    BY <1>4, <2>1 DEF Reindex, TimerReindexes, TimerLoads, Started
  <2>4. QED
    BY <1>0, <2>2, <2>3, FreshStart
<1>5. ASSUME NEW j \in Jobs, Checked(j) PROVE FInv'
  BY <1>0, <1>5, FreshChecked
<1>6. ASSUME NEW j \in Jobs, Loaded(j) PROVE FInv'
  BY <1>0, <1>6, FreshLoaded
<1>7. ASSUME NEW j \in Jobs, NothingToIndex(j) \/ Saved(j) \/ ReindexFails(j) PROVE FInv'
  BY <1>7, FreshLeave
<1>8. ASSUME NEW j \in Jobs, Update(j) \/ Embedded(j) PROVE FInv'
  BY <1>0, <1>8, FreshWork
<1>9. CASE TimerIgnored \/ \E r \in Readers : ReaderLoaded(r)
  BY <1>9 DEF TimerIgnored, ReaderLoaded, FInv
<1>10. CASE \/ \E m \in Models : SwitchModel(m)
            \/ \E r \in Readers : ReaderLoads(r)
            \/ Retrieve \/ UNCHANGED vars
  <2>1. UNCHANGED <<disk, timer, job, user, held, owed>>
    BY <1>10 DEF SwitchModel, ReaderLoads, Retrieve, vars, ghosts
  <2>2. QED
    BY <2>1 DEF FInv, Follows, Pending, HasChunks
<1>11. QED
  BY <1>1, <1>2, <1>3, <1>4, <1>5, <1>6, <1>7, <1>8, <1>9, <1>10 DEF Next

\* Once the debounce and the reindexes are over, the index in memory is that of the files,
\* for any number of files, texts, models, overlapping reindexes and chat turns, through
\* failures, torn writes, reloads and changes of the model -- but for the files that
\* changed outside the editor or could not be read since its reindex began, and unless
\* that reindex failed or a chat turn or the first build stood in its way.
THEOREM KeptFresh == Spec => []FreshWhenQuiet
<1>1. Init => FInv
  BY NoChunks DEF Init, FInv, Follows
<1>2. IInv /\ FInv /\ [Next]_vars => FInv'
  BY NextFresh
<1>3. IInv /\ FInv => FreshWhenQuiet
  <2> SUFFICES ASSUME TypeOK, FInv, ~ timer, \A j \in Jobs : job[j].at = "off",
                      HasChunks(InMemory), NEW f \in Files \ owed
               PROVE  InMemory.entries[f].hash = disk[f]
    BY DEF IInv, FreshWhenQuiet
  <2>1. user = NoJob /\ ~ Pending
    BY DEF TypeOK, HasIndex, Pending
  <2>2. Follows(f) /\ InMemory = held
    BY <2>1 DEF FInv, InMemory
  <2>3. QED
    BY <2>1, <2>2 DEF Follows
<1>4. QED
  BY <1>1, <1>2, <1>3, Invariance, PTL DEF Spec
=============================================================================
