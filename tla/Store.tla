-------------------------------- MODULE Store --------------------------------
(***************************************************************************)
(* The SQLite store of the orchestrator (src/src/orchestrator/state.py) as *)
(* it is opened: whoever opens it brings its schema to the current         *)
(* version, one migration after the other. The daemon does so when it      *)
(* starts, twice, and `ve orch status' of a daemon that has its PID file,  *)
(* so also of one that is still starting.                                  *)
(*                                                                         *)
(* A script is not a transaction: executescript commits each statement,    *)
(* and the row in schema_migrations is another. A process may be killed    *)
(* between any two. CREATE ... IF NOT EXISTS can be repeated; ADD COLUMN   *)
(* fails on a column that is there.                                        *)
(***************************************************************************)
EXTENDS Naturals, Sequences

CONSTANTS
  StatusCommands,  \* processes that run `ve orch status'
  MaxStoreKills    \* bound: processes killed

ASSUME StoreBound == MaxStoreKills \in Nat /\ "daemon" \notin StatusCommands

VARIABLES
  file,      \* whether the database file exists
  recorded,  \* the versions in schema_migrations
  columns,   \* the columns migrations added: <<version, place in its script>>
  tables,    \* the versions whose tables and indices exist
  opener,    \* opener[o]: where o is; its version and statement
  storeKills

storeVars == <<file, recorded, columns, tables, opener, storeKills>>

Openers == {"daemon"} \cup StatusCommands

CurrentVersion == 16
Versions == 1 .. CurrentVersion

\* What the scripts add to work_units; 13 has no script.
WithOneColumn == {3, 4, 5, 6, 8, 9, 10, 11, 14, 15}
WithTwoColumns == {2, 7, 12, 16}
WithTables == {1, 2, 7}

Script(v) ==
  (IF v \in WithTwoColumns THEN <<"column", "column">>
   ELSE IF v \in WithOneColumn THEN <<"column">> ELSE <<>>)
  \o (IF v \in WithTables THEN <<"tables">> ELSE <<>>)

ColumnsOf == [v \in Versions |->
                {<<v, i>> : i \in {j \in DOMAIN Script(v) : Script(v)[j] = "column"}}]
Applied(v) == ColumnsOf[v] \subseteq columns /\ (v \in WithTables => v \in tables)

Closed == [at |-> "off", version |-> 0, next |-> 0]

\* The database is none, or as some version of the program left it.
StoreInit ==
  /\ \E k \in 0 .. CurrentVersion :
       /\ file = (k > 0) /\ recorded = 1 .. k
       /\ columns = UNION {ColumnsOf[v] : v \in 1 .. k} /\ tables = WithTables \cap 1 .. k
  /\ opener = [o \in Openers |-> Closed]
  /\ storeKills = 0

OpenerAt(o, at) == opener' = [opener EXCEPT ![o].at = at]

\* _get_schema_version: 0 while there is no table to read
SchemaVersion == CHOOSE v \in recorded \cup {0} : \A w \in recorded : w <= v

(* start_daemon, once it has its PID file                                  *)
DaemonOpens ==
  /\ opener["daemon"].at \in {"off", "failed"}
  /\ OpenerAt("daemon", "scheduler's")
  /\ UNCHANGED <<file, recorded, columns, tables, storeKills>>

(* get_daemon_status of a daemon that lives, when the file is there        *)
StatusOpens(o) ==
  /\ o # "daemon" /\ opener[o].at = "off"
  /\ file /\ opener["daemon"].at \notin {"off", "failed"}
  /\ OpenerAt(o, "status")
  /\ UNCHANGED <<file, recorded, columns, tables, storeKills>>

\* Where a store that is at the current version leads: the daemon opens a second one for
\* the API (create_app) before it serves; a status command counts and ends.
Opened(o) == [Closed EXCEPT !.at =
  IF o # "daemon" THEN "off" ELSE IF opener[o].at = "api's" THEN "serving" ELSE "api's"]

(* initialize reads the version and decides where to begin                 *)
ReadVersion(o) ==
  /\ opener[o].at \in {"scheduler's", "api's", "status"}
  /\ file' = TRUE
  /\ opener' = [opener EXCEPT ![o] =
       IF SchemaVersion = CurrentVersion THEN Opened(o)
       ELSE [at |-> "migrate", version |-> SchemaVersion + 1, next |-> 1]]
  /\ UNCHANGED <<recorded, columns, tables, storeKills>>

\* An error ends the daemon; a status command shows no counts and ends.
Failed(o) == [Closed EXCEPT !.at = IF o = "daemon" THEN "failed" ELSE "off"]

Statement(o) == <<opener[o].version, opener[o].next>>
AtStatement(o) ==
  opener[o].at = "migrate" /\ opener[o].next \in DOMAIN Script(opener[o].version)

\* Mutant: a column that is there is taken for a migration that is done.
AddColumnOrSkip(o) ==
  /\ AtStatement(o) /\ Script(opener[o].version)[opener[o].next] = "column"
  /\ IF Statement(o) \in columns
     THEN /\ opener' = [opener EXCEPT ![o].next = Len(Script(opener[o].version)) + 1]
          /\ UNCHANGED columns
     ELSE opener' = [opener EXCEPT ![o].next = @ + 1] /\ columns' = columns \cup {Statement(o)}
  /\ UNCHANGED <<file, recorded, tables, storeKills>>

AddColumn(o) ==
  /\ AtStatement(o) /\ Script(opener[o].version)[opener[o].next] = "column"
  /\ IF Statement(o) \in columns
     THEN opener' = [opener EXCEPT ![o] = Failed(o)] /\ UNCHANGED columns
     ELSE opener' = [opener EXCEPT ![o].next = @ + 1] /\ columns' = columns \cup {Statement(o)}
  /\ UNCHANGED <<file, recorded, tables, storeKills>>

CreateTables(o) ==
  /\ AtStatement(o) /\ Script(opener[o].version)[opener[o].next] = "tables"
  /\ opener' = [opener EXCEPT ![o].next = @ + 1]
  /\ tables' = tables \cup {opener[o].version}
  /\ UNCHANGED <<file, recorded, columns, storeKills>>

(* _record_migration and the next version; the version is the table's key  *)
Record(o) ==
  LET v == opener[o].version
  IN  /\ opener[o].at = "migrate" /\ ~AtStatement(o)
      /\ IF v \in recorded
         THEN opener' = [opener EXCEPT ![o] = Failed(o)] /\ UNCHANGED recorded
         ELSE /\ recorded' = recorded \cup {v}
              /\ opener' = [opener EXCEPT ![o] =
                   IF v < CurrentVersion THEN [@ EXCEPT !.version = v + 1, !.next = 1]
                   ELSE Opened(o)]
      /\ UNCHANGED <<file, columns, tables, storeKills>>

(* `ve orch stop' of a daemon that serves                                  *)
DaemonStops ==
  /\ opener["daemon"].at = "serving" /\ OpenerAt("daemon", "off")
  /\ UNCHANGED <<file, recorded, columns, tables, storeKills>>

(* a signal, at any statement                                              *)
StoreKill(o) ==
  /\ storeKills < MaxStoreKills /\ opener[o].at \notin {"off", "failed"}
  /\ opener' = [opener EXCEPT ![o] = Closed] /\ storeKills' = storeKills + 1
  /\ UNCHANGED <<file, recorded, columns, tables>>

StoreNext ==
  \/ DaemonOpens \/ DaemonStops
  \/ \E o \in Openers :
       \/ StatusOpens(o) \/ ReadVersion(o)
       \/ AddColumn(o) \/ CreateTables(o) \/ Record(o) \/ StoreKill(o)

StoreSpec == StoreInit /\ [][StoreNext]_storeVars

-----------------------------------------------------------------------------
(* Properties. *)

AllColumns == UNION {ColumnsOf[v] : v \in Versions}

StoreTypeOK ==
  /\ file \in BOOLEAN /\ recorded \subseteq Versions /\ tables \subseteq WithTables
  /\ columns \subseteq AllColumns
  /\ \A o \in Openers : opener[o].at \in {"off", "failed", "scheduler's", "api's", "status",
                                           "migrate", "serving"}
  /\ storeKills \in 0 .. MaxStoreKills

\* What schema_migrations says was applied was applied in full and in order, whoever ran
\* which part of it; so a daemon that serves has every column it writes.
RecordedIsApplied ==
  /\ \A v \in recorded : Applied(v) /\ 1 .. v \subseteq recorded
  /\ opener["daemon"].at = "serving" => recorded = Versions

Migrating(o, v) == opener[o].at = "migrate" /\ opener[o].version = v

\* A migration that is half done is being done by somebody, unless a process was killed:
\* of two openers that meet in one, only one fails. (After a kill it stays half done, and
\* every start of the daemon fails on the column that is there.)
HalfDoneIsInHand ==
  storeKills = 0 => \A v \in Versions \ recorded :
    ColumnsOf[v] \cap columns # {} => \E o \in Openers : Migrating(o, v)

\* A daemon whose start failed on its schema was overtaken by a status command, which goes
\* on to the current version, unless a process was killed.
FailedWasOvertaken ==
  opener["daemon"].at = "failed" /\ storeKills = 0 =>
    recorded = Versions \/ \E o \in StatusCommands, v \in Versions : Migrating(o, v)

StoreInv == StoreTypeOK /\ RecordedIsApplied /\ HalfDoneIsInHand /\ FailedWasOvertaken
=============================================================================
