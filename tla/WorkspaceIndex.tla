--------------------------- MODULE WorkspaceIndex ---------------------------
(***************************************************************************)
(* The @workspace semantic index (apps/vscode workspaceIndex.ts over        *)
(* packages/core retrieval/indexer.ts and store.ts, with the debounced      *)
(* auto-reindex of extension.ts).  WorkspaceIndexManager keeps one index in *)
(* memory and one on disk.  A reindex loads the index from disk into a new   *)
(* object, makes that the index in memory, reads the files, embeds those     *)
(* that changed and writes the object back.  Nothing keeps two reindexes,   *)
(* or a reindex and a chat turn's first load, apart.                        *)
(***************************************************************************)
EXTENDS Naturals, FiniteSets

CONSTANTS
  Files,           \* indexable paths
  Texts,           \* what a file with some text may hold
  Blanks,          \* {Blank} if files may be empty, else {}
  Models,          \* embedding models
  Jobs,            \* bound: reindexes that may overlap
  Readers,         \* bound: chat turns whose first load may overlap
  Indexed,         \* is there an index on disk at the start?
  Outside,         \* do files change other than by a save in the editor?
  EmbedsFail,      \* may the embedding endpoint or the disk refuse?
  Reloads,         \* may the window reload?
  Torn             \* may index.json be read, or left, half written?

ASSUME IndexAssumption ==
  /\ {Indexed, Outside, EmbedsFail, Reloads, Torn} \subseteq BOOLEAN
  /\ Texts # {} /\ Models # {} /\ Files # {}
  /\ Blanks \subseteq {"blank"}
  /\ {"absent", "blank"} \cap Texts = {}
  /\ "no model" \notin Models /\ "no job" \notin Jobs

VARIABLES
  disk,     \* what each file holds
  model,    \* the embedding model of the settings
  saved,    \* .codesetu/index.json
  timer,    \* is the auto-reindex debounce running?
  job,      \* per reindex: how far it is
  reader,   \* per chat turn: the model its load is for, or NoModel
  user,     \* the job whose object this.index is, or NoJob
  held,     \* else: this.index
  query,    \* the models of the last retrieval: its index's, its query vector's
  \* What the properties tell apart; no step depends on it.
  owed,     \* the files whose changes the index in memory may miss
  crossed   \* the models an index was loaded for, and its files embedded with, where
            \* the setting changed in between

vars == <<disk, model, saved, timer, job, reader, user, held, query, owed, crossed>>
ghosts == <<owed, crossed>>

-----------------------------------------------------------------------------
(* Files and indexes.                                                       *)

NoModel == "no model"
NoJob == "no job"
Absent == "absent"
Blank == "blank"

Written == Texts \union Blanks

\* What the index knows of a file: the hash of a text, and chunks of a text with
\* the vectors of a model.  (hashContent is taken as free of collisions.)
NoEntry == [hash |-> Absent, of |-> Absent, by |-> NoModel]
Entry(text, by) == [hash |-> text, of |-> text, by |-> by]
BlankEntry == [hash |-> Blank, of |-> Absent, by |-> NoModel]

Empty(m) == [model |-> m, entries |-> [f \in Files |-> NoEntry]]
NoIndex == [model |-> NoModel, entries |-> [f \in Files |-> NoEntry]]

HasChunks(index) == \E f \in Files : index.entries[f].of # Absent

\* A plausible slip: the vectors of any model are taken.
DeserializeAnyModel(data, m) == [data EXCEPT !.model = m]

\* WorkspaceIndex.deserialize, and load's catch: unreadable data and data of
\* another model give an empty index.
Deserialize(data, m) == IF data.model = m THEN data ELSE Empty(m)

Off == [at |-> "off", model |-> NoModel, index |-> NoIndex, todo |-> {},
        got |-> [f \in Files |-> Absent], changed |-> {}, stable |-> TRUE]

\* this.index
InMemory == IF user # NoJob THEN job[user].index ELSE held

\* What reading index.json may give: also garbage, while it is being written.
Readable == {saved} \union {NoIndex : j \in {i \in Jobs : Torn /\ job[i].at = "saving"}}

-----------------------------------------------------------------------------
Init ==
  /\ disk \in [Files -> Texts]
  /\ model \in Models
  /\ saved = IF Indexed
               THEN [model |-> model, entries |-> [f \in Files |-> Entry(disk[f], model)]]
               ELSE NoIndex
  /\ timer = FALSE
  /\ job = [j \in Jobs |-> Off]
  /\ reader = [r \in Readers |-> NoModel]
  /\ user = NoJob
  /\ held = NoIndex
  /\ query = [index |-> NoModel, vector |-> NoModel]
  /\ owed = {} /\ crossed = {}

-----------------------------------------------------------------------------
(* The user: files, settings, the window.                                   *)

Unstable == job' = [j \in Jobs |-> [job[j] EXCEPT !.stable = FALSE]]

\* A plausible slip: a save while a reindex runs does not start the debounce.
SaveUnlessBusy(f, text) ==
  /\ disk[f] # text
  /\ disk' = [disk EXCEPT ![f] = text]
  /\ timer' = (timer \/ \A j \in Jobs : job[j].at = "off")
  /\ Unstable
  /\ UNCHANGED <<model, saved, reader, user, held, query, ghosts>>

\* A save in the editor (re)starts the debounce.
Save(f, text) ==
  /\ disk[f] # text
  /\ disk' = [disk EXCEPT ![f] = text]
  /\ timer' = TRUE
  /\ Unstable
  /\ UNCHANGED <<model, saved, reader, user, held, query, ghosts>>

\* git, a build or the agent writes or deletes a file: no event is listened to.
ChangeOutside(f, text) ==
  /\ Outside
  /\ disk[f] # text
  /\ disk' = [disk EXCEPT ![f] = text]
  /\ Unstable
  /\ owed' = owed \cup {f}
  /\ UNCHANGED <<model, saved, timer, reader, user, held, query, crossed>>

SwitchModel(m) ==
  /\ m # model
  /\ model' = m
  /\ UNCHANGED <<disk, saved, timer, job, reader, user, held, query, ghosts>>

\* The window reloads; a write of index.json under way is done, not done or cut.
Reload ==
  /\ Reloads
  /\ saved' \in Readable \union
                {job[j].index : j \in {i \in Jobs : job[i].at = "saving"}}
  /\ timer' = FALSE
  /\ job' = [j \in Jobs |-> Off]
  /\ reader' = [r \in Readers |-> NoModel]
  /\ user' = NoJob
  /\ held' = NoIndex
  /\ owed' = {}
  /\ UNCHANGED <<disk, model, query, crossed>>

-----------------------------------------------------------------------------
(* A reindex.                                                               *)

\* The job leaves; its object stays this.index if it was.
Leave(j) ==
  /\ job' = [job EXCEPT ![j] = Off]
  /\ user' = IF user = j THEN NoJob ELSE user
  /\ held' = IF user = j THEN job[j].index ELSE held

Step(j, state) == job' = [job EXCEPT ![j] = state]

\* The job gives up on some files: it is not done for them, if it is the index in
\* memory that it works on.
Gives(j, files) == owed' = IF user = j THEN owed \cup files ELSE owed

\* codesetu.indexWorkspace, or an @workspace turn without an index: load reads
\* the model setting and starts to read index.json.
Reindex(j) ==
  /\ job[j].at = "off"
  /\ Step(j, [Off EXCEPT !.at = "loading", !.model = model])
  /\ UNCHANGED <<disk, model, saved, timer, reader, user, held, query, ghosts>>

\* The debounce ends and isIndexed finds chunks: reindex.
TimerReindexes(j) ==
  /\ timer
  /\ job[j].at = "off"
  /\ InMemory # NoIndex
  /\ HasChunks(InMemory)
  /\ timer' = FALSE
  /\ Step(j, [Off EXCEPT !.at = "loading", !.model = model])
  /\ UNCHANGED <<disk, model, saved, reader, user, held, query, ghosts>>

\* ... or no index is in memory yet, and isIndexed loads it first.
TimerLoads(j) ==
  /\ timer
  /\ job[j].at = "off"
  /\ InMemory = NoIndex
  /\ timer' = FALSE
  /\ Step(j, [Off EXCEPT !.at = "checking", !.model = model])
  /\ UNCHANGED <<disk, model, saved, reader, user, held, query, ghosts>>

Checked(j) ==
  /\ job[j].at = "checking"
  /\ \E data \in Readable :
       LET index == Deserialize(data, job[j].model)
       IN /\ held' = index
          /\ Step(j, IF HasChunks(index)
                       THEN [Off EXCEPT !.at = "loading", !.model = model] ELSE Off)
  /\ user' = NoJob
  /\ UNCHANGED <<disk, model, saved, timer, reader, query, ghosts>>

\* ... or the index in memory has no chunks: never auto-build.
TimerIgnored ==
  /\ timer
  /\ InMemory # NoIndex
  /\ ~HasChunks(InMemory)
  /\ timer' = FALSE
  /\ owed' = Files
  /\ UNCHANGED <<disk, model, saved, job, reader, user, held, query, crossed>>

\* index.json was read: a new object, this.index from now on.  collectFiles lists
\* the files.
Loaded(j) ==
  /\ job[j].at = "loading"
  /\ \E data \in Readable :
       job' = [i \in Jobs |->
                 IF i = j
                   THEN [job[j] EXCEPT !.at = "collecting", !.stable = TRUE,
                                       !.index = Deserialize(data, job[j].model),
                                       !.todo = {f \in Files : disk[f] # Absent}]
                   ELSE job[i]]
  /\ user' = j
  /\ held' = NoIndex
  /\ owed' = {}
  /\ UNCHANGED <<disk, model, saved, timer, reader, query, crossed>>

ReadFile(j, f) ==
  /\ job[j].at = "collecting"
  /\ f \in job[j].todo
  /\ Step(j, [job[j] EXCEPT !.todo = @ \ {f}, !.got[f] = disk[f]])
  /\ UNCHANGED <<disk, model, saved, timer, reader, user, held, query, ghosts>>

\* An unreadable file is skipped.
SkipFile(j, f) ==
  /\ EmbedsFail
  /\ job[j].at = "collecting"
  /\ f \in job[j].todo
  /\ Step(j, [job[j] EXCEPT !.todo = @ \ {f}, !.stable = FALSE])
  /\ Gives(j, {f})
  /\ UNCHANGED <<disk, model, saved, timer, reader, user, held, query, crossed>>

\* No files: the job returns, and index.json stays as it is.
NothingToIndex(j) ==
  /\ job[j].at = "collecting"
  /\ job[j].todo = {}
  /\ \A f \in Files : job[j].got[f] = Absent
  /\ Leave(j) /\ Gives(j, Files)
  /\ UNCHANGED <<disk, model, saved, timer, reader, query, crossed>>

\* The first half of updateWorkspaceIndex for one file.
Brought(entry, text) ==
  IF text = Absent THEN NoEntry
  ELSE IF text = Blank THEN BlankEntry
  ELSE entry

\* A plausible slip: only files the index does not know are embedded.
ChangedIfNew(j) == {f \in Files : /\ job[j].got[f] \in Texts
                                  /\ job[j].index.entries[f].hash = Absent}

\* The files whose hash differs from the recorded one.
Changed(j) == {f \in Files : /\ job[j].got[f] \in Texts
                             /\ job[j].index.entries[f].hash # job[j].got[f]}

\* A plausible slip: the hash of a changed file is recorded before it is embedded.
UpdateHashesFirst(j) ==
  /\ job[j].at = "collecting"
  /\ job[j].todo = {}
  /\ \E f \in Files : job[j].got[f] # Absent
  /\ Step(j, [job[j] EXCEPT
       !.at = "embedding", !.model = model, !.changed = Changed(j),
       !.index.entries = [f \in Files |->
          [Brought(job[j].index.entries[f], job[j].got[f]) EXCEPT !.hash = job[j].got[f]]]])
  /\ crossed' = crossed \cup ({<<job[j].index.model, model>>} \ {<<model, model>>})
  /\ UNCHANGED <<disk, model, saved, timer, reader, user, held, query, owed>>

\* All files read.  A provider is made for the model the settings name by now, and
\* updateWorkspaceIndex drops what is gone and asks for the vectors of what changed.
Update(j) ==
  /\ job[j].at = "collecting"
  /\ job[j].todo = {}
  /\ \E f \in Files : job[j].got[f] # Absent
  /\ Step(j, [job[j] EXCEPT
       !.at = "embedding", !.model = model, !.changed = Changed(j),
       !.index.entries = [f \in Files |->
          Brought(job[j].index.entries[f], job[j].got[f])]])
  /\ crossed' = crossed \cup ({<<job[j].index.model, model>>} \ {<<model, model>>})
  /\ UNCHANGED <<disk, model, saved, timer, reader, user, held, query, owed>>

\* The vectors are there: every changed file is replaced, and the save begins.
Embedded(j) ==
  /\ job[j].at = "embedding"
  /\ Step(j, [job[j] EXCEPT
       !.at = "saving",
       !.index.entries = [f \in Files |->
          IF f \in job[j].changed THEN Entry(job[j].got[f], job[j].model)
          ELSE job[j].index.entries[f]]])
  /\ UNCHANGED <<disk, model, saved, timer, reader, user, held, query, ghosts>>

Saved(j) ==
  /\ job[j].at = "saving"
  /\ saved' = job[j].index
  /\ Leave(j)
  /\ UNCHANGED <<disk, model, timer, reader, query, ghosts>>

\* The endpoint, or the write, throws: the object stays as far as it got.
ReindexFails(j) ==
  /\ EmbedsFail
  /\ \/ /\ job[j].at = "embedding"
        /\ job[j].changed # {}
     \/ job[j].at = "saving"
  /\ Leave(j) /\ Gives(j, Files)
  /\ UNCHANGED <<disk, model, saved, timer, reader, query, crossed>>

-----------------------------------------------------------------------------
(* A chat turn: chunkCount, retrieve and searchTool load what is not loaded.   *)

ReaderLoads(r) ==
  /\ reader[r] = NoModel
  /\ InMemory = NoIndex
  /\ reader' = [reader EXCEPT ![r] = model]
  /\ UNCHANGED <<disk, model, saved, timer, job, user, held, query, ghosts>>

ReaderLoaded(r) ==
  /\ reader[r] # NoModel
  /\ \E data \in Readable : held' = Deserialize(data, reader[r])
  /\ user' = NoJob
  /\ reader' = [reader EXCEPT ![r] = NoModel]
  /\ owed' = Files
  /\ UNCHANGED <<disk, model, saved, timer, job, query, crossed>>

\* The query is embedded by the model of the settings, and compared with the
\* vectors of the index in memory.
Retrieve ==
  /\ InMemory # NoIndex
  /\ HasChunks(InMemory)
  /\ query' = [index |-> InMemory.model, vector |-> model]
  /\ UNCHANGED <<disk, model, saved, timer, job, reader, user, held, ghosts>>

-----------------------------------------------------------------------------
Next ==
  \/ \E f \in Files :
       \/ \E text \in Written : Save(f, text)
       \/ \E text \in Written \union {Absent} : ChangeOutside(f, text)
       \/ \E j \in Jobs : ReadFile(j, f) \/ SkipFile(j, f)
  \/ \E m \in Models : SwitchModel(m)
  \/ Reload
  \/ \E j \in Jobs :
       \/ Reindex(j)
       \/ TimerReindexes(j)
       \/ TimerLoads(j)
       \/ Checked(j)
       \/ Loaded(j)
       \/ NothingToIndex(j)
       \/ Update(j)
       \/ Embedded(j)
       \/ Saved(j)
       \/ ReindexFails(j)
  \/ TimerIgnored
  \/ \E r \in Readers : ReaderLoads(r) \/ ReaderLoaded(r)
  \/ Retrieve

Spec == Init /\ [][Next]_vars

-----------------------------------------------------------------------------
(* Properties.                                                              *)

Entries == [hash : Written \union {Absent}, of : Texts \union {Absent},
            by : Models \union {NoModel}]
Index == [model : Models, entries : [Files -> Entries]]

JobState == [at : {"off", "checking", "loading", "collecting", "embedding", "saving"},
             model : Models \union {NoModel}, index : Index \union {NoIndex},
             todo : SUBSET Files, got : [Files -> Written \union {Absent}],
             changed : SUBSET Files, stable : BOOLEAN]

\* While it has an object of its own.
HasIndex(j) == job[j].at \in {"collecting", "embedding", "saving"}

TypeOK ==
  /\ disk \in [Files -> Written \union {Absent}]
  /\ model \in Models
  /\ saved \in Index \union {NoIndex}
  /\ held \in Index \union {NoIndex}
  /\ timer \in BOOLEAN
  /\ job \in [Jobs -> JobState]
  /\ \A j \in Jobs :
       /\ job[j].at # "off" => job[j].model \in Models
       /\ HasIndex(j) <=> job[j].index \in Index
  /\ reader \in [Readers -> Models \union {NoModel}]
  /\ user \in {j \in Jobs : HasIndex(j)} \union {NoJob}
  /\ query \in [index : Models \union {NoModel}, vector : Models \union {NoModel}]
  /\ owed \subseteq Files
  /\ crossed \subseteq Models \X Models

AllIndexes == {saved, held} \union {job[j].index : j \in Jobs}

\* Incremental reindexing trusts the hash: a file's vectors are those of the text
\* whose hash is recorded, in memory and on disk, also after a failed embedding, an
\* overlapping reindex or a reload in the middle of a save.  Else the file would be
\* skipped as unchanged for ever.
HashesMatchVectors ==
  \A index \in AllIndexes : \A f \in Files :
    LET e == index.entries[f]
    IN e.of = IF e.hash = Blank THEN Absent ELSE e.hash

\* store.ts:25: the index's model is the "embedding model the vectors were
\* produced with" -- over loads for another model, overlaps, failures and reloads.
\* Only a reindex between whose load and whose embeddings the setting changed puts
\* vectors of the one model into the index of the other.
VectorsOfOneModel ==
  \A index \in AllIndexes : \A f \in Files :
    LET by == index.entries[f].by
    IN by \in {index.model, NoModel} \/ <<index.model, by>> \in crossed

IsFresh(index) == \A f \in Files : index.entries[f].hash = disk[f]

\* indexer.ts:55: a reindex brings the index "in line with" the files.  What a
\* reindex writes holds exactly the files there are, with the text they have, if
\* none changed since it listed them and it could read them all -- whatever other
\* reindexes, loads and reloads come in between.
SavesAreFresh ==
  [][\A j \in Jobs : (job[j].at = "saving" /\ saved' = job[j].index /\ job[j].stable
                       /\ job'[j].at = "off")
                       => IsFresh(job[j].index)]_vars

\* extension.ts:101: "Keep an existing @workspace index fresh".  Once the debounce
\* and the reindexes are over, the index in memory is that of the files, whatever
\* overlapped, failed, was torn, switched or reloaded before -- but for the files that
\* changed outside the editor or that a reindex could not read; and not if the
\* reindex the index in memory is of failed or found no file, if the debounce ended
\* before the first index had chunks, or if a chat turn put index.json in its place.
FreshWhenQuiet ==
  (~timer /\ (\A j \in Jobs : job[j].at = "off") /\ HasChunks(InMemory))
    => \A f \in Files \ owed : InMemory.entries[f].hash = disk[f]

-----------------------------------------------------------------------------
(* What the documentation says, and the code does not do (README.md).          *)

\* store.ts:25 as it stands: the setting may change in the middle of a reindex.
VectorsOfThatModel ==
  \A index \in AllIndexes : \A f \in Files :
    index.entries[f].by \in {index.model, NoModel}

\* extension.ts:101 as it stands.
AlwaysFreshWhenQuiet ==
  (~timer /\ (\A j \in Jobs : job[j].at = "off") /\ HasChunks(InMemory))
    => IsFresh(InMemory)

\* FreshWhenQuiet of index.json, which the next window starts from.
FileFreshWhenQuiet ==
  (~timer /\ (\A j \in Jobs : job[j].at = "off") /\ HasChunks(saved))
    => IsFresh(saved)

\* store.ts:25: "a mismatch forces a rebuild" -- a query is compared with vectors of
\* its own model only.
QueryMatchesIndex == query.index = query.vector

=============================================================================
