------------------------------ MODULE Archive ------------------------------
(***************************************************************************)
(* The store of sessions with its content-addressed blobs, the runs that   *)
(* write it, `uta exportdb` that copies a session out of it, `uta import`  *)
(* that puts copies back and a user who deletes what `uta doctor` calls    *)
(* unreferenced.  Every process may die between two steps.                 *)
(***************************************************************************)
EXTENDS Naturals, Sequences, FiniteSets, Functions

CONSTANTS Sessions,
          Contents,    \* what blobs hold; some of them have a secret in them
          Importers,   \* processes of `uta import`
          None,
          MaxTasks,    \* BOUND: subtasks of a session
          MaxFiles     \* BOUND: exported files

(* A redacted text is another text; a write cut short leaves a third.      *)
Secret(c) == c = "secret"
Scrub(c) == IF Secret(c) THEN "scrubbed" ELSE c
Held == Contents \union {"scrubbed", "torn"}

VARIABLES
  blob,      \* the file named by the digest of each content, or None
  sess,      \* the row of each session, or None: [status, goal, answer]
  tasks,     \* the rows of its subtasks: <<prompt, ...>>
  live,      \* the sessions whose run goes on
  held,      \* the blob a run has put and not yet named in a row, or None
  exporter,  \* [at, id, inline, redact, doc]
  file,      \* the exported files
  importer   \* process -> [at, doc, force, left]

vars == <<blob, sess, tasks, live, held, exporter, file, importer>>
store == <<sess, tasks>>
runs == <<live, held>>

NoExport == [at |-> "idle"]
NoImport == [at |-> "idle"]
Rows == [status : {"running", "completed"}, goal : {"secret", "scrubbed"},
         answer : Contents \union {None}]
Refs(row, prompts) == (Range(prompts) \union {row.answer}) \ {None}

TypeOK ==
  /\ blob \in [Contents -> Held \union {None}]
  /\ \A s \in Sessions :
       /\ sess[s] = None => tasks[s] = <<>>
       /\ sess[s] # None => sess[s] \in Rows
       /\ Range(tasks[s]) \subseteq Contents /\ Len(tasks[s]) <= MaxTasks
  /\ live \subseteq Sessions /\ held \in [Sessions -> Contents \union {None}]
  /\ exporter.at \in {"idle", "session", "tasks", "blobs"}
  /\ \A i \in Importers : importer[i].at \in {"idle", "blobs", "probe", "delete", "insert"}

-----------------------------------------------------------------------------
(* The run of a session: a blob is put before the row that names it.  It   *)
(* never looks at the row again, whatever others make of that.             *)

(* Put: a file of that name is kept as it is.                              *)
Put(s, c) ==
  /\ s \in live /\ held[s] = None
  /\ blob' = [blob EXCEPT ![c] = IF @ = None THEN c ELSE @]
  /\ held' = [held EXCEPT ![s] = c]
  /\ UNCHANGED <<store, live, exporter, file, importer>>

(* CreateSubtask; the foreign key refuses a session that is gone.          *)
AddTask(s) ==
  /\ held[s] # None /\ held' = [held EXCEPT ![s] = None] /\ Len(tasks[s]) < MaxTasks
  /\ tasks' = IF sess[s] = None THEN tasks ELSE [tasks EXCEPT ![s] = Append(@, held[s])]
  /\ UNCHANGED <<blob, sess, live, exporter, file, importer>>

(* MarkSession, of no row if there is none.                                *)
Finish(s) ==
  /\ held[s] # None /\ held' = [held EXCEPT ![s] = None] /\ live' = live \ {s}
  /\ sess' = IF sess[s] = None THEN sess
             ELSE [sess EXCEPT ![s].status = "completed", ![s].answer = held[s]]
  /\ UNCHANGED <<blob, tasks, exporter, file, importer>>

Die(s) ==
  /\ s \in live /\ live' = live \ {s} /\ held' = [held EXCEPT ![s] = None]
  /\ UNCHANGED <<blob, store, exporter, file, importer>>

(* UnreferencedBlobs: no row's reference column names it.                  *)
Unreferenced == {c \in Contents : blob[c] # None /\ \A s \in Sessions :
                   sess[s] # None => c \notin Refs(sess[s], tasks[s])}
Doctor(c) ==
  /\ c \in Unreferenced /\ blob' = [blob EXCEPT ![c] = None]
  /\ UNCHANGED <<store, runs, exporter, file, importer>>

-----------------------------------------------------------------------------
(* export.Run: one statement after another, no transaction around them.    *)

ExportBegins(s, inline, redact) ==
  /\ exporter = NoExport /\ sess[s] # None /\ Cardinality(file) < MaxFiles
  /\ exporter' = [at |-> "session", id |-> s, inline |-> inline, redact |-> redact, doc |-> None]
  /\ UNCHANGED <<blob, store, runs, file, importer>>

ExportSession ==
  /\ exporter.at = "session"
  /\ exporter' = IF sess[exporter.id] = None THEN NoExport
                 ELSE [exporter EXCEPT !.at = "tasks",
                         !.doc = [id |-> exporter.id, row |-> sess[exporter.id],
                                  prompts |-> <<>>, inlined |-> <<>>]]
  /\ UNCHANGED <<blob, store, runs, file, importer>>

ExportTasks ==
  /\ exporter.at = "tasks"
  /\ exporter' = [exporter EXCEPT !.at = "blobs", !.doc.prompts = tasks[exporter.id]]
  /\ UNCHANGED <<blob, store, runs, file, importer>>

(* Inlined blobs, a missing one as empty; then every text and every inlined *)
(* blob is scrubbed, the references are not; the file appears whole.       *)
\* broken: the texts are scrubbed, the inlined blobs are not.
Scrubbed_RowsOnly(doc) == [doc EXCEPT !.row.goal = Scrub(@)]
Scrubbed(doc) ==
  [doc EXCEPT !.row.goal = Scrub(@),
              !.inlined = [c \in DOMAIN @ |-> Scrub(@[c])]]
ExportBlobs ==
  /\ exporter.at = "blobs"
  /\ LET names == IF exporter.inline THEN Refs(exporter.doc.row, exporter.doc.prompts) ELSE {}
         whole == [exporter.doc EXCEPT !.inlined = [c \in names |-> blob[c]]]
         out   == IF exporter.redact THEN Scrubbed(whole) ELSE whole IN
     file' = file \union {[doc |-> out, redacted |-> exporter.redact]}
  /\ exporter' = NoExport
  /\ UNCHANGED <<blob, store, runs, importer>>

-----------------------------------------------------------------------------
(* export.Restore.                                                         *)

ImportBegins(i, f, force) ==
  /\ importer[i] = NoImport
  /\ importer' = [importer EXCEPT ![i] =
       [at |-> "blobs", doc |-> f.doc, force |-> force,
        left |-> {c \in DOMAIN f.doc.inlined : f.doc.inlined[c] # None}]]
  /\ UNCHANGED <<blob, store, runs, exporter, file>>

(* os.WriteFile truncates and writes, whatever the file held.              *)
ImportBlob(i, c) ==
  /\ importer[i].at = "blobs" /\ c \in importer[i].left
  /\ blob' = [blob EXCEPT ![c] = importer[i].doc.inlined[c]]
  /\ importer' = [importer EXCEPT ![i].left = @ \ {c}]
  /\ UNCHANGED <<store, runs, exporter, file>>

ImportProbes(i) ==
  /\ importer[i].at = "blobs" /\ importer[i].left = {}
  /\ importer' = [importer EXCEPT ![i] =
       IF sess[@.doc.id] = None THEN [@ EXCEPT !.at = "insert"]
       ELSE IF @.force THEN [@ EXCEPT !.at = "delete"] ELSE NoImport]
  /\ UNCHANGED <<blob, store, runs, exporter, file>>

ImportDeletes(i) ==
  /\ importer[i].at = "delete"
  /\ sess' = [sess EXCEPT ![importer[i].doc.id] = None]
  /\ tasks' = [tasks EXCEPT ![importer[i].doc.id] = <<>>]
  /\ importer' = [importer EXCEPT ![i].at = "insert"]
  /\ UNCHANGED <<blob, runs, exporter, file>>

(* One transaction; a session that came in between makes it roll back.     *)
\* broken: what came in between is replaced.
Insertable_Replaces(id) == TRUE
Insertable(id) == sess[id] = None
ImportInserts(i) ==
  /\ importer[i].at = "insert"
  /\ LET doc == importer[i].doc IN
     IF Insertable(doc.id)
     THEN /\ sess' = [sess EXCEPT ![doc.id] = doc.row]
          /\ tasks' = [tasks EXCEPT ![doc.id] = doc.prompts]
     ELSE UNCHANGED store
  /\ importer' = [importer EXCEPT ![i] = NoImport]
  /\ UNCHANGED <<blob, runs, exporter, file>>

(* Killed, perhaps in the middle of a blob.                                *)
ImportDies(i) ==
  /\ importer[i] # NoImport /\ importer' = [importer EXCEPT ![i] = NoImport]
  /\ blob' \in {blob} \union {[blob EXCEPT ![c] = "torn"] : c \in importer[i].left}
  /\ UNCHANGED <<store, runs, exporter, file>>

-----------------------------------------------------------------------------
Init ==
  /\ blob = [c \in Contents |-> None]
  /\ sess = [s \in Sessions |-> [status |-> "running", goal |-> "secret", answer |-> None]]
  /\ tasks = [s \in Sessions |-> <<>>]
  /\ live = Sessions /\ held = [s \in Sessions |-> None] /\ exporter = NoExport /\ file = {}
  /\ importer = [i \in Importers |-> NoImport]

Next ==
  \/ \E s \in Sessions :
       \/ \E c \in Contents : Put(s, c)
       \/ AddTask(s) \/ Finish(s) \/ Die(s)
       \/ \E inline, redact \in BOOLEAN : ExportBegins(s, inline, redact)
  \/ \E c \in Contents : Doctor(c)
  \/ ExportSession \/ ExportTasks \/ ExportBlobs
  \/ \E i \in Importers :
       \/ \E f \in file, force \in BOOLEAN : ImportBegins(i, f, force)
       \/ \E c \in Contents : ImportBlob(i, c)
       \/ ImportProbes(i) \/ ImportDeletes(i) \/ ImportInserts(i) \/ ImportDies(i)

Spec == Init /\ [][Next]_vars
-----------------------------------------------------------------------------
(* A redacted file has no secret in it, wherever the blobs it inlines came *)
(* from: an earlier import may have written them (export.go:271-318).      *)
SharedIsClean ==
  \A f \in file : f.redacted =>
    /\ ~ Secret(f.doc.row.goal)
    /\ \A c \in DOMAIN f.doc.inlined : ~ Secret(f.doc.inlined[c])

(* Without --force an import never touches a session the store has, also   *)
(* when two imports of one session race between probe and insert           *)
(* (import.go:87-113): only a run moves its row on, or a forced import.    *)
RowsStand ==
  \A s \in Sessions :
    sess[s] # None /\ sess'[s] # sess[s] =>
      \/ sess'[s] # None /\ sess[s].status = "running" /\ sess'[s].goal = sess[s].goal
      \/ \E i \in Importers : importer[i].at = "delete" /\ importer[i].doc.id = s
NotClobbered == [][RowsStand]_vars
=============================================================================
