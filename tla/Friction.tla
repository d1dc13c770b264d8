------------------------------ MODULE Friction ------------------------------
(***************************************************************************)
(* The friction logs (src/src/friction.py, src/src/task/friction.py):      *)
(* `ve friction log' gives an entry the next number of FRICTION.md; in a   *)
(* task it does so in the external repository and lists the number in the  *)
(* front matter of projects.  A command reads the file three times and     *)
(* writes the whole of it, over whatever came in between; the file is      *)
(* emptied first.  Agents add proposed chunks to the front matter.         *)
(***************************************************************************)
EXTENDS Naturals, FiniteSets, FiniteSetsExt

CONSTANTS
  LogProjects, LogExternal,   \* the repositories of the task
  Loggers,                    \* `ve friction log' commands
  MaxEntries, MaxProposals, MaxLogKills   \* bounds

ASSUME FrictionBounds ==
  /\ LogExternal \notin LogProjects
  /\ {MaxEntries, MaxProposals, MaxLogKills} \subseteq Nat

VARIABLES
  logFile,   \* FRICTION.md: [parses, entries, linked, proposed]
  logger,    \* the commands
  written,   \* entries written so far
  logKills,
  reported,  \* history: repository -> what commands wrote there, and agents
  unseen,    \* history: of that, what was written after a command at work had read
  spoilt     \* history: repositories whose file a killed command left empty

frictionVars == <<logFile, logger, written, logKills, reported, unseen, spoilt>>

Logs == LogProjects \union {LogExternal}
NoEntries == [parses |-> TRUE, entries |-> {}, linked |-> {}, proposed |-> {}]
Emptied == [NoEntries EXCEPT !.parses = FALSE]
NoLogger == [at |-> "idle", log |-> LogExternal, content |-> NoEntries, front |-> NoEntries,
             entry |-> [num |-> 0, text |-> 0], todo |-> {}]
Numbers(f) == {e.num : e \in f.entries}

FrictionInit ==
  /\ logFile = [r \in Logs |-> NoEntries] /\ logger = [k \in Loggers |-> NoLogger]
  /\ written = 0 /\ logKills = 0
  /\ reported = [r \in Logs |-> {}] /\ unseen = [r \in Logs |-> {}] /\ spoilt = {}

-----------------------------------------------------------------------------
(* append_entry.                                                           *)

Set(k, c) == logger' = [logger EXCEPT ![k] = c]
\* A new text, a new link or a proposal is in log r; who had read r before does not see it.
Report(r, item) ==
  /\ reported' = [reported EXCEPT ![r] = @ \union {item}]
  /\ unseen' = IF \E k \in Loggers : logger'[k].at # "idle" /\ logger'[k].log = r
                                      /\ logger'[k].at # "link"
               THEN [unseen EXCEPT ![r] = @ \union {item}] ELSE unseen

ReadLog(k, r, projects) ==
  /\ logger[k].at = "idle" /\ written < MaxEntries
  /\ written' = written + 1
  /\ Set(k, [NoLogger EXCEPT !.at = "front", !.log = r, !.content = logFile[r],
                             !.entry.text = written', !.todo = projects])
  /\ UNCHANGED <<logFile, logKills, reported, unseen, spoilt>>

\* What cannot be parsed is an error.
ReadFront(k) ==
  LET c == logger[k]  f == logFile[c.log]
  IN  /\ c.at = "front"
      /\ Set(k, IF f.parses THEN [c EXCEPT !.at = "number", !.front = f] ELSE NoLogger)
      /\ UNCHANGED <<logFile, written, logKills, reported, unseen, spoilt>>

NextNumber(f) == Max(Numbers(f) \union {0}) + 1

ReadNumber(k) ==
  LET c == logger[k]
  IN  /\ c.at = "number"
      /\ Set(k, IF c.content.parses
                THEN [c EXCEPT !.at = "write", !.entry.num = NextNumber(logFile[c.log])]
                ELSE NoLogger)
      /\ UNCHANGED <<logFile, written, logKills, reported, unseen, spoilt>>

EmptyLog(k) ==
  LET c == logger[k]
  IN  /\ c.at \in {"write", "relink"}
      /\ Set(k, [c EXCEPT !.at = IF c.at = "write" THEN "text" ELSE "linkText"])
      /\ logFile' = [logFile EXCEPT ![c.log] = Emptied]
      /\ UNCHANGED <<written, logKills, reported, unseen, spoilt>>

\* The body of the first reading, the front matter of the second.
WriteLog(k) ==
  LET c == logger[k]
  IN  /\ c.at = "text"
      /\ logFile' = [logFile EXCEPT ![c.log] =
                       [c.front EXCEPT !.entries = c.content.entries \union {c.entry}]]
      /\ Set(k, IF c.todo = {} THEN NoLogger ELSE [c EXCEPT !.at = "link"])
      /\ Report(c.log, c.entry)
      /\ UNCHANGED <<written, logKills, spoilt>>

-----------------------------------------------------------------------------
(* add_external_friction_source, project by project.                       *)

ReadProject(k, p) ==
  LET c == logger[k]
  IN  /\ c.at = "link" /\ p \in c.todo
      /\ Set(k, IF logFile[p].parses
                THEN [c EXCEPT !.at = "relink", !.log = p, !.content = logFile[p],
                               !.todo = @ \ {p}]
                ELSE NoLogger)
      /\ UNCHANGED <<logFile, written, logKills, reported, unseen, spoilt>>

WriteProject(k) ==
  LET c == logger[k]
  IN  /\ c.at = "linkText"
      /\ logFile' = [logFile EXCEPT ![c.log] =
                       [c.content EXCEPT !.linked = @ \union {c.entry.num}]]
      /\ Set(k, IF c.todo = {} THEN NoLogger ELSE [c EXCEPT !.at = "link"])
      /\ Report(c.log, [link |-> c.entry.num])
      /\ UNCHANGED <<written, logKills, spoilt>>

\* A command is killed; a file it had emptied stays so.
LoggerKilled(k) ==
  /\ logger[k].at # "idle" /\ logKills < MaxLogKills
  /\ logKills' = logKills + 1
  /\ spoilt' = spoilt \union IF logger[k].at \in {"text", "linkText"} THEN {logger[k].log} ELSE {}
  /\ Set(k, NoLogger)
  /\ UNCHANGED <<logFile, written, reported, unseen>>

\* An agent adds a chunk that addresses an entry to proposed_chunks.
Propose(r, n) ==
  /\ logFile[r].parses /\ n \in Numbers(logFile[r]) \ logFile[r].proposed
  /\ Cardinality(logFile[r].proposed) < MaxProposals
  /\ logFile' = [logFile EXCEPT ![r].proposed = @ \union {n}]
  /\ logger' = logger
  /\ Report(r, [proposal |-> n])
  /\ UNCHANGED <<written, logKills, spoilt>>

FrictionNext ==
  \/ \E k \in Loggers :
       \/ \E r \in Logs : ReadLog(k, r, {})
       \/ \E ps \in SUBSET LogProjects \ {{}} : ReadLog(k, LogExternal, ps)
       \/ ReadFront(k) \/ ReadNumber(k) \/ EmptyLog(k) \/ WriteLog(k)
       \/ \E p \in LogProjects : ReadProject(k, p)
       \/ WriteProject(k) \/ LoggerKilled(k)
  \/ \E r \in Logs, n \in 1..MaxEntries : Propose(r, n)

FrictionSpec == FrictionInit /\ [][FrictionNext]_frictionVars

-----------------------------------------------------------------------------
(* Properties.                                                             *)

Whole(r) == logFile[r].parses /\ r \notin spoilt
Has(f, item) ==
  \/ item \in f.entries
  \/ \E n \in f.linked : item = [link |-> n]
  \/ \E n \in f.proposed : item = [proposal |-> n]

(* What a command wrote into a log, and an agent, stays there through the  *)
(* commands that follow, on this log or for its task, and wherever they    *)
(* are killed; only what was written between a command's reading and its   *)
(* writing can be lost (friction.py:249-290).                              *)
ReportedIsKept ==
  \A r \in Logs : Whole(r) => \A item \in reported[r] \ unseen[r] : Has(logFile[r], item)

\* Two commands worked on the log at a time.
Met(r) == \E item \in unseen[r] : DOMAIN item # {"proposal"}

(* A number is one entry's, as long as no two commands met on the log; so  *)
(* what chunks and projects say of F003 is said of one text.               *)
NumbersTellApart ==
  \A r \in Logs : Whole(r) /\ ~Met(r) =>
    \A e, f \in logFile[r].entries : e.num = f.num => e = f

(* A project links entries that the external log has.                      *)
LinksNameEntries ==
  \A p \in LogProjects : Whole(LogExternal) /\ ~Met(LogExternal) =>
    logFile[p].linked \subseteq Numbers(logFile[LogExternal])

(* An empty file is being written, or a command was killed there, after    *)
(* which each command fails on it.                                         *)
EmptyLogIsBeingWritten ==
  \A r \in Logs \ spoilt : ~logFile[r].parses =>
    \E k \in Loggers : logger[k].at \in {"text", "linkText"} /\ logger[k].log = r

(* The invariant of the module.                                            *)
FrictionInv ==
  ReportedIsKept /\ NumbersTellApart /\ LinksNameEntries /\ EmptyLogIsBeingWritten
=============================================================================
