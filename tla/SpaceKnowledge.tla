---------------------------- MODULE SpaceKnowledge ----------------------------
(***************************************************************************)
(* The knowledge of a space's assistant: its configuration and sources     *)
(* (lib/communities/spaceai.ts) and the background jobs that turn a source *)
(* into the chunks it answers from (lib/communities/spaceai-index.ts).     *)
(* The routes start a job after a configuration that enables the assistant,*)
(* an upload and a refresh, and do not wait for it; jobs of one space may  *)
(* overlap, a source may fail, and the process may die under a job.        *)
(*                                                                         *)
(* A process first serves a request and then runs the job it started.      *)
(* Chunks are inserted in Batches; a chunk is known by its batch.          *)
(***************************************************************************)
EXTENDS Callers

CONSTANTS
  Source,    \* websites and documents
  Batches    \* batches of chunks a source is cut into

ASSUME KnowledgeAssumption == IsFiniteSet(Source) /\ IsFiniteSet(Proc) /\ Batches \in Nat \ {0}

VARIABLES
  config,     \* the spaceaiconfig row
  history,    \* the spaceaisources rows of kind "history"
  source,     \* source[s]: the status of the row of s
  chunks,     \* chunks[s][b]: copies of batch b of s
  task,       \* task[p]: where the request or the job of p stands
  doubly,     \* history: sources indexed by two jobs at a time
  lost,       \* history: sources of a job that died
  mixed       \* history: two configurations overlapped

KnowVars == <<config, history, source, chunks, task, doubly, lost, mixed>>

HistoryRows == 1..Cardinality(Proc)
Copies == 0..Cardinality(Proc)
Flags == {"on", "off", "unsaid"}

KnowIdle == [at |-> "idle", enable |-> FALSE, say |-> "unsaid", saw |-> FALSE, row |-> 0,
             todo |-> {}, cur |-> "none", batch |-> 0]
Tasks ==
  [at : {"idle", "write_config", "add_source", "read_history", "write_history", "read_config", "read_sources",
         "next", "mark", "clear", "insert", "finish", "fail"},
   enable : BOOLEAN, say : Flags, saw : BOOLEAN, row : HistoryRows \cup {0},
   todo : SUBSET Source, cur : Source \cup {"none"}, batch : 0..Batches]

KnowInit ==
  /\ config = [made |-> FALSE, enabled |-> FALSE, history |-> FALSE]
  /\ history = {}
  /\ source = [s \in Source |-> "none"]
  /\ chunks = [s \in Source |-> [b \in 1..Batches |-> 0]]
  /\ task = [p \in Proc |-> KnowIdle]
  /\ doubly = {} /\ lost = {} /\ mixed = FALSE

Work(p, t) == task' = [task EXCEPT ![p] = t]
WorkAt(p, at) == Work(p, [task[p] EXCEPT !.at = at])
Rest(p) == Work(p, KnowIdle)
Configuring == {p \in Proc : task[p].at \in {"write_config", "add_source", "read_history", "write_history"}}
Indexing(s) == {p \in Proc : task[p].cur = s /\ task[p].at \in {"clear", "insert", "finish", "fail"}}
Quiet == \A p \in Proc : task[p] = KnowIdle
KnowNotes == <<doubly, lost, mixed>>

(***************************************************************************)
(* configureSpaceAi: the configuration, a source, the history row.         *)
(***************************************************************************)
ConfigureSpaceAi(p, enable, say) ==
  /\ task[p] = KnowIdle
  /\ Work(p, [KnowIdle EXCEPT !.at = "write_config", !.enable = enable, !.saw = config.made,
                              !.say = IF say # "unsaid" THEN say ELSE IF config.history THEN "on" ELSE "off"])
  /\ mixed' = (mixed \/ Configuring # {})
  /\ UNCHANGED <<config, history, source, chunks, doubly, lost>>

\* The space has one configuration: a second INSERT fails, and the request.
WriteConfig(p) ==
  LET t == task[p] IN
  /\ t.at = "write_config"
  /\ IF config.made /\ ~t.saw THEN Rest(p) /\ UNCHANGED config
     ELSE /\ config' = [made |-> TRUE, enabled |-> t.enable, history |-> t.say = "on"]
          /\ Work(p, [t EXCEPT !.at = "add_source", !.saw = FALSE])
  /\ UNCHANGED <<history, source, chunks, KnowNotes>>

NoNewSource(p) ==
  /\ task[p].at = "add_source" /\ WorkAt(p, "read_history")
  /\ UNCHANGED <<config, history, source, chunks, KnowNotes>>

AddSource(p, s) ==
  /\ task[p].at = "add_source" /\ source[s] = "none"
  /\ source' = [source EXCEPT ![s] = "pending"]
  /\ WorkAt(p, "read_history")
  /\ UNCHANGED <<config, history, chunks, KnowNotes>>

ReadHistory(p) ==
  /\ task[p].at = "read_history"
  /\ \/ history = {} /\ WorkAt(p, "write_history")
     \/ \E row \in history : Work(p, [task[p] EXCEPT !.at = "write_history", !.row = row])
  /\ UNCHANGED <<config, history, source, chunks, KnowNotes>>

StartJob(p, t) == IF t.enable THEN Work(p, [KnowIdle EXCEPT !.at = "read_config"]) ELSE Rest(p)

WriteHistory(p) ==
  LET t == task[p] IN
  /\ t.at = "write_history"
  /\ history' = CASE t.say = "on" /\ t.row = 0 -> history \cup {CHOOSE r \in HistoryRows : r \notin history}
                  [] t.say = "off" -> history \ {t.row}
                  [] OTHER -> history
  /\ StartJob(p, t)
  /\ UNCHANGED <<config, source, chunks, KnowNotes>>

(***************************************************************************)
(* addDocumentSource; refreshSpaceAi.                                      *)
(***************************************************************************)
AddDocumentSource(p, s) ==
  /\ task[p] = KnowIdle /\ source[s] = "none"
  /\ source' = [source EXCEPT ![s] = "pending"]
  /\ Work(p, [KnowIdle EXCEPT !.at = "read_config"])
  /\ UNCHANGED <<config, history, chunks, KnowNotes>>

Added == {s \in Source : source[s] # "none"}

RefreshSpaceAi(p) ==
  /\ task[p] = KnowIdle /\ Added # {}
  /\ source' = [s \in Source |-> IF s \in Added THEN "pending" ELSE "none"]
  /\ Work(p, [KnowIdle EXCEPT !.at = "read_config"])
  /\ UNCHANGED <<config, history, chunks, doubly, lost, mixed>>

(***************************************************************************)
(* indexSpaceAi: the configuration, the sources that are not ready, and    *)
(* one after the other marked, cleared, crawled, inserted and marked.      *)
(***************************************************************************)
ReadConfig(p) ==
  /\ task[p].at = "read_config"
  /\ IF config.enabled THEN WorkAt(p, "read_sources") ELSE Rest(p)
  /\ UNCHANGED <<config, history, source, chunks, KnowNotes>>

\* Slip: a source that another job has marked is left to it.
ReadPending(p) ==
  LET todo == {s \in Source : source[s] \in {"pending", "error"}} IN
  /\ task[p].at = "read_sources"
  /\ IF todo = {} THEN Rest(p) ELSE Work(p, [task[p] EXCEPT !.at = "next", !.todo = todo])
  /\ lost' = {}
  /\ UNCHANGED <<config, history, source, chunks, doubly, mixed>>

ReadSources(p) ==
  LET todo == {s \in Source : source[s] \notin {"none", "ready"}} IN
  /\ task[p].at = "read_sources"
  /\ IF todo = {} THEN Rest(p) ELSE Work(p, [task[p] EXCEPT !.at = "next", !.todo = todo])
  /\ lost' = {}
  /\ UNCHANGED <<config, history, source, chunks, doubly, mixed>>

MarkIndexing(p, s) ==
  /\ task[p].at = "next" /\ s \in task[p].todo
  /\ source' = [source EXCEPT ![s] = "indexing"]
  /\ doubly' = IF Indexing(s) # {} THEN doubly \cup {s} ELSE doubly \ {s}
  /\ Work(p, [task[p] EXCEPT !.at = "clear", !.cur = s, !.todo = @ \ {s}])
  /\ UNCHANGED <<config, history, chunks, lost, mixed>>

ClearChunks(p) ==
  LET s == task[p].cur IN
  /\ task[p].at = "clear"
  /\ chunks' = [chunks EXCEPT ![s] = [b \in 1..Batches |-> 0]]
  /\ Work(p, [task[p] EXCEPT !.at = "insert", !.batch = 1])
  /\ UNCHANGED <<config, history, source, doubly, lost, mixed>>

InsertBatch(p) ==
  LET t == task[p] IN
  /\ t.at = "insert"
  /\ chunks' = [chunks EXCEPT ![t.cur][t.batch] = IF @ = Cardinality(Proc) THEN @ ELSE @ + 1]
  /\ IF t.batch = Batches THEN WorkAt(p, "finish") ELSE Work(p, [t EXCEPT !.batch = @ + 1])
  /\ UNCHANGED <<config, history, source, KnowNotes>>

\* The deletion, the crawl, or the insertion of a batch, fails.
SourceFails(p) ==
  /\ task[p].at \in {"clear", "insert", "finish"} /\ WorkAt(p, "fail")
  /\ UNCHANGED <<config, history, source, chunks, KnowNotes>>

SetSourceStatus(p) ==
  LET t == task[p] IN
  /\ t.at \in {"finish", "fail"}
  /\ source' = [source EXCEPT ![t.cur] = IF t.at = "finish" THEN "ready" ELSE "error"]
  /\ IF t.todo = {} THEN Rest(p) ELSE Work(p, [t EXCEPT !.at = "next", !.cur = "none", !.batch = 0])
  /\ UNCHANGED <<config, history, chunks, KnowNotes>>

\* A restart, or a statement outside the loop's try: the job is not resumed.
JobDies(p) ==
  /\ task[p].at \in {"read_config", "read_sources", "next", "clear", "insert", "finish", "fail"}
  /\ Rest(p)
  /\ lost' = lost \cup (IF task[p].at \in {"read_config", "read_sources"} THEN Added
                        ELSE task[p].todo \cup (Source \cap {task[p].cur}))
  /\ UNCHANGED <<config, history, source, chunks, doubly, mixed>>

KnowNext == \E p \in Proc :
  \/ \E enable \in BOOLEAN, say \in Flags : ConfigureSpaceAi(p, enable, say)
  \/ \E s \in Source : AddSource(p, s) \/ AddDocumentSource(p, s) \/ MarkIndexing(p, s)
  \/ WriteConfig(p) \/ NoNewSource(p) \/ ReadHistory(p) \/ WriteHistory(p) \/ RefreshSpaceAi(p)
  \/ ReadConfig(p) \/ ReadSources(p) \/ ClearChunks(p) \/ InsertBatch(p) \/ SourceFails(p)
  \/ SetSourceStatus(p) \/ JobDies(p)

KnowSpec == KnowInit /\ [][KnowNext]_KnowVars

------------------------------------------------------------------------------
(***************************************************************************)
(* Properties.                                                             *)
(***************************************************************************)
\* Every variable holds a value of its kind.
KnowTypeOK ==
  /\ config \in [made : BOOLEAN, enabled : BOOLEAN, history : BOOLEAN]
  /\ history \subseteq HistoryRows
  /\ source \in [Source -> {"none", "pending", "indexing", "ready", "error"}]
  /\ chunks \in [Source -> [1..Batches -> Copies]]
  /\ task \in [Proc -> Tasks]
  /\ doubly \subseteq Source /\ lost \subseteq Source /\ mixed \in BOOLEAN

\* A source that is ready has each of its chunks once: what a job that failed,
\* died or came before left of it is gone.  Not so when two jobs indexed it at
\* the same time: each clears it and inserts.
ReadyHasEachChunkOnce ==
  \A s \in Source \ doubly : (source[s] = "ready" /\ Indexing(s) = {}) => \A b \in 1..Batches : chunks[s][b] = 1

\* With the assistant enabled, no source is left waiting once nothing runs: the
\* job that would skip it, reading the configuration or the sources too early,
\* is followed by one that does not.  Except for a source whose job died, until
\* the next one, and for configurations that overlapped.
NothingIsLeftPending ==
  (Quiet /\ config.enabled /\ ~mixed) => \A s \in Source \ lost : source[s] \notin {"pending", "indexing"}

\* The history row is there exactly when the configuration says so, unless two
\* configurations overlapped.
HistoryRowMirrorsTheFlag ==
  (Configuring = {} /\ ~mixed) => ((history # {}) <=> config.history)

\* All three: once nothing runs, what the assistant answers from is what its
\* configuration and its sources say.
KnowledgeSettles == ReadyHasEachChunkOnce /\ NothingIsLeftPending /\ HistoryRowMirrorsTheFlag

==============================================================================
