--------------------------- MODULE ProcessProofs ---------------------------
(***************************************************************************)
(* Proofs about the processes that may be killed at any step: the agent of *)
(* a turn, the daemon with the commands that start and stop it, the        *)
(* shutdown that sorts the memories of an entity, and the propagation of a *)
(* new name that a planner gave its chunk.                                 *)
(*                                                                         *)
(* Each invariant is made inductive by saying, for every place a process   *)
(* can be at, what of its work the files already show: a kill leaves the   *)
(* files and takes the process, so the part about files alone must be what *)
(* the properties follow from.                                             *)
(***************************************************************************)
EXTENDS MCProcesses, FiniteSetTheorems, WellFoundedInduction, TLAPS

-----------------------------------------------------------------------------
(* A turn of an agent. *)

Turns == [pc : Names \cup {"idle", "stream", "clean", "result"}, review : BOOLEAN,
          heard : Heard, originals : [Names -> Contents], wrote : BOOLEAN]
Tellings == [session : BOOLEAN, said : Seq(Decisions), asked : BOOLEAN, failed : BOOLEAN,
             late : BOOLEAN]

TurnTypes ==
  /\ backend \in {"claude", "cursor"} /\ backend \in Backends /\ settings \in [Names -> Contents]
  /\ own \in [Names -> Contents] /\ spoiled \in BOOLEAN
  /\ turn \in Turns /\ told \in Tellings /\ turns \in 0..MaxTurns

\* Until they are restored the project's files are either in place or among the originals.
FilesKnown ==
  ~spoiled =>
    /\ turn.pc \in {"idle", "result", "hooks"} => settings = own
    /\ turn.pc = "mcp" => turn.originals["hooks"] = own["hooks"] /\ settings["mcp"] = own["mcp"]
    /\ turn.pc \in {"stream", "clean"} =>
         IF backend = "claude" THEN settings = own
         ELSE /\ turn.originals["hooks"] = own["hooks"]
              /\ IF turn.wrote THEN turn.originals["mcp"] = own["mcp"]
                 ELSE settings["mcp"] = own["mcp"]

\* What was heard of the agent while it speaks, and afterwards.
Caught(heard) ==
  IF told.said = <<>> THEN heard.decision = <<>>
  ELSE ToSet(heard.decision) \cap ToSet(told.said) # {}
HeardSoFar ==
  LET h == turn.heard
      lost == backend = "cursor" /\ told.late
  IN  /\ turn.pc \in Names => h = Silence /\ told = Nothing /\ ~turn.wrote /\ backend = "cursor"
      /\ turn.pc = "stream" =>
           /\ ~told.late /\ (h.result \/ ~(h.completed \/ h.error \/ told.failed))
           /\ h.result => h.error = told.failed /\ h.completed = ~told.failed
      /\ turn.pc \in {"stream", "clean"} =>
           /\ h.question <=> told.asked /\ backend = "claude"
           /\ lost \/ (h.session = told.session /\ Caught(h))
           /\ lost => h.decision = <<>>
      /\ turn.pc = "clean" =>
           /\ told.failed \/ told.late => h.error
           /\ ~h.error => (h.completed => h.result)
      /\ turn.pc = "result" => AgentIsHeard

TurnIInv == TurnTypes /\ FilesKnown /\ HeardSoFar


\* The parts of a turn.
LEMMA TurnParts ==
  ASSUME TurnTypes
  PROVE  /\ turn.heard \in Heard /\ turn.originals \in [Names -> Contents]
         /\ turn.wrote \in BOOLEAN /\ turn.review \in BOOLEAN
         /\ told.said \in Seq(Decisions)
BY DEF TurnTypes, Turns, Tellings

\* A turn begins.
LEMMA StartTurnIInv ==
  ASSUME TurnIInv, StartTurn
  PROVE  TurnIInv'
<1>1. PICK review \in BOOLEAN :
        turn' = [Idle EXCEPT !.review = review,
                             !.pc = IF backend = "claude" THEN "stream" ELSE "hooks"]
  BY DEF StartTurn
<1>2. /\ turn'.pc = (IF backend = "claude" THEN "stream" ELSE "hooks") /\ turn'.heard = Silence
      /\ turn'.wrote = FALSE /\ turn' \in Turns
  BY <1>1 DEF Idle, Turns, Silence, Heard, Names, Contents
<1>3. told' = Nothing /\ Nothing \in Tellings /\ turns' \in 0 .. MaxTurns
  BY TurnBounds DEF StartTurn, Nothing, Tellings, TurnIInv, TurnTypes
<1>4. UNCHANGED <<backend, settings, own, spoiled>> /\ turn.pc \in {"idle", "result"}
  BY DEF StartTurn
<1>5. TurnTypes'
  BY <1>2, <1>3, <1>4 DEF TurnIInv, TurnTypes
<1>6. FilesKnown'
  BY <1>2, <1>4 DEF TurnIInv, FilesKnown
<1>7. HeardSoFar'
  BY <1>2, <1>3, <1>4 DEF TurnIInv, TurnTypes, HeardSoFar, Nothing, Silence, Caught, Names
<1> QED  BY <1>5, <1>6, <1>7 DEF TurnIInv

\* The files of a Cursor turn are written, or cannot be.
LEMMA WriteFilesIInv ==
  ASSUME TurnIInv, WriteHooks \/ WriteMcp \/ WriteFails
  PROVE  TurnIInv'
<1>t. /\ TurnTypes /\ FilesKnown /\ HeardSoFar /\ turn \in Turns /\ turn.pc \in Names
      /\ turn.heard = Silence /\ told = Nothing /\ ~turn.wrote /\ backend = "cursor"
      /\ UNCHANGED <<backend, own, told, turns>>
      /\ settings \in [Names -> Contents] /\ turn.originals \in [Names -> Contents]
  BY DEF TurnIInv, TurnTypes, Turns, HeardSoFar, WriteHooks, WriteMcp, WriteFails, Names
<1>1. CASE WriteHooks
  <2> DEFINE originals == [turn.originals EXCEPT !["hooks"] = settings["hooks"]]
             next == IF turn.review THEN "mcp" ELSE "stream"
  <2>1. /\ turn.pc = "hooks" /\ turn' = [turn EXCEPT !.originals = originals, !.pc = next]
        /\ settings' = [settings EXCEPT !["hooks"] = "ours"] /\ spoiled' = spoiled
    BY <1>1 DEF WriteHooks
  <2>2. /\ originals \in [Names -> Contents] /\ originals["hooks"] = settings["hooks"]
        /\ settings' \in [Names -> Contents] /\ settings'["mcp"] = settings["mcp"]
    BY <1>t, <2>1 DEF Names, Contents
  <2>3. next \in {"mcp", "stream"}
    OBVIOUS
  <2> HIDE DEF originals, next
  <2>4. /\ turn' \in Turns /\ turn'.pc = next /\ turn'.originals = originals /\ turn'.heard = turn.heard
        /\ turn'.wrote = turn.wrote
    BY <1>t, <2>1, <2>2, <2>3 DEF Turns, Names
  <2>5. TurnTypes'
    BY <1>t, <2>1, <2>2, <2>4 DEF TurnTypes
  <2>6. FilesKnown'
    BY <1>t, <2>1, <2>2, <2>3, <2>4 DEF FilesKnown
  <2>7. HeardSoFar'
    BY <1>t, <2>3, <2>4 DEF HeardSoFar, Silence, Nothing, Caught, Names
  <2> QED  BY <2>5, <2>6, <2>7 DEF TurnIInv
<1>2. CASE WriteMcp
  <2> DEFINE originals == [turn.originals EXCEPT !["mcp"] = settings["mcp"]]
  <2>1. /\ turn.pc = "mcp"
        /\ turn' = [turn EXCEPT !.originals = originals, !.wrote = TRUE, !.pc = "stream"]
        /\ settings' = [settings EXCEPT !["mcp"] = "ours"] /\ spoiled' = spoiled
    BY <1>2 DEF WriteMcp
  <2>2. /\ originals \in [Names -> Contents] /\ originals["mcp"] = settings["mcp"]
        /\ originals["hooks"] = turn.originals["hooks"] /\ settings' \in [Names -> Contents]
    BY <1>t, <2>1 DEF Names, Contents
  <2> HIDE DEF originals
  <2>3. /\ turn' \in Turns /\ turn'.pc = "stream" /\ turn'.originals = originals
        /\ turn'.heard = turn.heard /\ turn'.wrote
    BY <1>t, <2>1, <2>2 DEF Turns, Names
  <2>4. TurnTypes'
    BY <1>t, <2>1, <2>2, <2>3 DEF TurnTypes
  <2>5. FilesKnown'
    BY <1>t, <2>1, <2>2, <2>3 DEF FilesKnown
  <2>6. HeardSoFar'
    BY <1>t, <2>3 DEF HeardSoFar, Silence, Nothing, Caught, Names
  <2> QED  BY <2>4, <2>5, <2>6 DEF TurnIInv
<1>3. CASE WriteFails
  <2> DEFINE heard == [turn.heard EXCEPT !.error = TRUE]
  <2>1. /\ turn' = [turn EXCEPT !.heard = heard, !.pc = "clean"] /\ spoiled' = TRUE
        /\ settings' \in {settings, [settings EXCEPT ![turn.pc] = "ours"]}
    BY <1>3 DEF WriteFails
  <2>2. settings' \in [Names -> Contents]
    BY <1>t, <2>1 DEF Contents
  <2>0. Silence \in Heard /\ Silence.session = FALSE /\ Silence.question = FALSE /\ Silence.decision = <<>>
    BY DEF Silence, Heard
  <2>3. /\ heard \in Heard /\ heard.error /\ heard.session = FALSE /\ heard.question = FALSE
        /\ heard.decision = <<>>
    BY <1>t, <2>0 DEF Heard
  <2> HIDE DEF heard
  <2>4. turn' \in Turns /\ turn'.pc = "clean" /\ turn'.heard = heard
    BY <1>t, <2>1, <2>3 DEF Turns
  <2>5. TurnTypes'
    BY <1>t, <2>1, <2>2, <2>4 DEF TurnTypes
  <2>6. FilesKnown'
    BY <2>1 DEF FilesKnown
  <2>7. HeardSoFar'
    BY <1>t, <2>3, <2>4 DEF HeardSoFar, Nothing, Caught, Names
  <2> QED  BY <2>5, <2>6, <2>7 DEF TurnIInv
<1> QED  BY <1>1, <1>2, <1>3

\* What the agent says is heard: the turn stays in its stream, and the files as they are.
LEMMA HearIInv ==
  ASSUME TurnIInv, Listening, NEW heard \in Heard, Hear(heard), told' \in Tellings,
         UNCHANGED <<backend, settings, own, spoiled, turns>>, ~told'.late,
         heard.result \/ ~(heard.completed \/ heard.error \/ told'.failed),
         heard.result => heard.error = told'.failed /\ heard.completed = ~told'.failed,
         heard.question <=> told'.asked /\ backend = "claude",
         heard.session = told'.session, Caught(heard)'
  PROVE  TurnIInv'
<1>1. /\ turn' \in Turns /\ turn'.pc = "stream" /\ turn.pc = "stream" /\ turn'.heard = heard
      /\ turn'.wrote = turn.wrote /\ turn'.originals = turn.originals
  BY DEF TurnIInv, TurnTypes, Turns, Listening, Hear
<1>2. TurnTypes'
  BY <1>1 DEF TurnIInv, TurnTypes
<1>3. FilesKnown'
  BY <1>1 DEF TurnIInv, FilesKnown
<1>4. HeardSoFar'
  BY <1>1 DEF HeardSoFar, Caught, Names
<1> QED  BY <1>2, <1>3, <1>4 DEF TurnIInv

\* Decisions: the first is kept, or the last.
LEMMA CaughtStays ==
  ASSUME TurnIInv, Listening, NEW d \in Decisions, NEW caught \in CaughtDecisions(d),
         told'.said = Append(told.said, d), NEW heard \in Heard, heard.decision = caught
  PROVE  Caught(heard)' /\ caught \in {<<>>} \cup {<<e>> : e \in Decisions}
<1>1. told.said \in Seq(Decisions) /\ turn.heard \in Heard /\ Caught(turn.heard)
  BY TurnParts DEF TurnIInv, HeardSoFar, Listening
<1>2. /\ Append(told.said, d) # <<>>
      /\ ToSet(Append(told.said, d)) = ToSet(told.said) \cup {d}
  BY <1>1 DEF ToSet
<1>3. ToSet(<<d>>) = {d}
  BY DEF ToSet
<1>4. caught = <<d>> \/ (caught = turn.heard.decision /\ turn.heard.decision # <<>>)
  BY DEF CaughtDecisions
<1>5. CASE caught = <<d>>
  BY <1>2, <1>3, <1>5 DEF Caught
<1>6. CASE caught = turn.heard.decision /\ turn.heard.decision # <<>>
  <2>1. ToSet(caught) \cap ToSet(told.said) # {}
    BY <1>1, <1>6 DEF Caught
  <2> QED  BY <1>1, <1>2, <1>6, <2>1 DEF Caught, Heard
<1> QED  BY <1>4, <1>5, <1>6

LEMMA StreamIInv ==
  ASSUME TurnIInv, ReportSession \/ SubmitDecision \/ AskUser \/ ReportResult
  PROVE  TurnIInv'
<1> DEFINE h == turn.heard
<1>t. /\ TurnTypes /\ told \in Tellings /\ h \in Heard /\ Listening /\ turn.pc = "stream" /\ ~told.late
      /\ ~h.result /\ ~h.completed /\ ~h.error /\ ~told.failed
      /\ h.question <=> told.asked /\ backend = "claude"
      /\ h.session = told.session /\ Caught(h)
      /\ UNCHANGED <<backend, settings, own, spoiled, turns>>
  BY TurnParts DEF TurnIInv, TurnTypes, HeardSoFar, Listening, ReportSession, SubmitDecision, AskUser,
                   ReportResult
<1>1. CASE ReportSession
  <2>0. PICK g \in Heard : g = [h EXCEPT !.session = TRUE]
    BY <1>t DEF Heard
  <2>1. Hear(g) /\ told' = [told EXCEPT !.session = TRUE]
    BY <1>1, <2>0 DEF ReportSession
  <2>2. /\ g \in Heard /\ g.session /\ g.result = h.result /\ g.completed = h.completed
        /\ g.error = h.error /\ g.question = h.question /\ g.decision = h.decision
    BY <1>t, <2>0 DEF Heard
  <2>3. /\ told' \in Tellings /\ told'.session /\ told'.said = told.said /\ told'.asked = told.asked
        /\ told'.failed = told.failed /\ told'.late = told.late
    BY <1>t, <2>1 DEF Tellings
  <2>4. Caught(g)'
    BY <1>t, <2>2, <2>3 DEF Caught
  <2> QED  BY <1>t, <2>1, <2>2, <2>3, <2>4, HearIInv
<1>2. CASE SubmitDecision
  <2>1. PICK d \in Decisions : \E caught \in CaughtDecisions(d) :
          /\ told' = [told EXCEPT !.said = Append(told.said, d)]
          /\ Hear([h EXCEPT !.decision = caught])
    BY <1>2 DEF SubmitDecision
  <2>2. PICK caught \in CaughtDecisions(d) : Hear([h EXCEPT !.decision = caught])
    BY <2>1
  <2>3. caught \in {<<>>} \cup {<<e>> : e \in Decisions}
    BY <1>t DEF CaughtDecisions, Heard
  <2>0. PICK g \in Heard : g = [h EXCEPT !.decision = caught]
    BY <1>t, <2>3 DEF Heard
  <2>4. /\ g \in Heard /\ g.session = h.session /\ g.result = h.result /\ g.completed = h.completed
        /\ g.error = h.error /\ g.question = h.question /\ g.decision = caught
    BY <1>t, <2>0 DEF Heard
  <2>5. /\ told' \in Tellings /\ told'.session = told.session /\ told'.said = Append(told.said, d)
        /\ told'.asked = told.asked /\ told'.failed = told.failed /\ told'.late = told.late
    <3>1. told.said \in Seq(Decisions) /\ Append(told.said, d) \in Seq(Decisions)
      BY <1>t, TurnParts
    <3> QED  BY <1>t, <2>1, <3>1 DEF Tellings
  <2>6. Hear(g)
    BY <2>0, <2>2
  <2>7. Caught(g)'
    BY <1>t, <2>4, <2>5, CaughtStays
  <2> QED  BY <1>t, <2>4, <2>5, <2>6, <2>7, HearIInv
<1>3. CASE AskUser
  <2>0. PICK g \in Heard : g = [h EXCEPT !.question = h.question \/ backend = "claude"]
    BY <1>t DEF Heard
  <2>1. Hear(g) /\ told' = [told EXCEPT !.asked = TRUE]
    BY <1>3, <2>0 DEF AskUser
  <2>2. /\ g \in Heard /\ g.session = h.session /\ g.result = h.result /\ g.completed = h.completed
        /\ g.error = h.error /\ g.question = (h.question \/ backend = "claude") /\ g.decision = h.decision
    BY <1>t, <2>0 DEF Heard
  <2>3. /\ told' \in Tellings /\ told'.session = told.session /\ told'.said = told.said /\ told'.asked
        /\ told'.failed = told.failed /\ told'.late = told.late
    BY <1>t, <2>1 DEF Tellings
  <2>4. Caught(g)'
    BY <1>t, <2>2, <2>3 DEF Caught
  <2> QED  BY <1>t, <2>1, <2>2, <2>3, <2>4, HearIInv
<1>4. CASE ReportResult
  <2>1. PICK failed \in BOOLEAN, session \in {h.session, TRUE} :
          /\ told' = [told EXCEPT !.failed = failed, !.session = session]
          /\ Hear([h EXCEPT !.result = TRUE, !.error = failed, !.completed = ~failed,
                            !.session = session])
    BY <1>4 DEF ReportResult
  <2>a. session \in BOOLEAN
    BY <1>t DEF Heard
  <2>0. PICK g \in Heard : g = [h EXCEPT !.result = TRUE, !.error = failed, !.completed = ~failed,
                                        !.session = session]
    BY <1>t, <2>a DEF Heard
  <2>2. /\ g \in Heard /\ g.session = session /\ g.result /\ g.completed = ~failed
        /\ g.error = failed /\ g.question = h.question /\ g.decision = h.decision
    BY <1>t, <2>0 DEF Heard
  <2>3. /\ told' \in Tellings /\ told'.session = session /\ told'.said = told.said
        /\ told'.asked = told.asked /\ told'.failed = failed /\ told'.late = told.late
    BY <1>t, <2>a, <2>1 DEF Tellings
  <2>5. Hear(g)
    BY <2>0, <2>1
  <2>4. Caught(g)'
    BY <1>t, <2>2, <2>3 DEF Caught
  <2> QED  BY <1>t, <2>2, <2>3, <2>4, <2>5, HearIInv
<1> QED  BY <1>1, <1>2, <1>3, <1>4

\* The stream ends, or breaks off.
LEMMA EndIInv ==
  ASSUME TurnIInv, EndStream \/ BreakOff
  PROVE  TurnIInv'
<1> DEFINE h == turn.heard
<1>t. /\ TurnTypes /\ told \in Tellings /\ h \in Heard /\ turn \in Turns /\ turn.pc = "stream" /\ ~told.late
      /\ h.result \/ ~(h.completed \/ h.error \/ told.failed)
      /\ h.result => h.error = told.failed /\ h.completed = ~told.failed
      /\ h.question <=> told.asked /\ backend = "claude"
      /\ h.session = told.session /\ Caught(h)
      /\ UNCHANGED <<backend, settings, own, spoiled, turns>>
  BY TurnParts DEF TurnIInv, TurnTypes, HeardSoFar, EndStream, BreakOff
<1>s. ASSUME NEW g \in Heard, turn' = [turn EXCEPT !.pc = "clean", !.heard = g], told' \in Tellings, HeardSoFar'
      PROVE  TurnIInv'
  <2>1. /\ turn' \in Turns /\ turn'.pc = "clean" /\ turn'.wrote = turn.wrote
        /\ turn'.originals = turn.originals
    BY <1>s, <1>t DEF Turns
  <2>2. TurnTypes'
    BY <1>s, <1>t, <2>1 DEF TurnTypes
  <2>3. FilesKnown'
    BY <1>t, <2>1 DEF TurnIInv, FilesKnown
  <2> QED  BY <1>s, <2>2, <2>3 DEF TurnIInv
<1>1. CASE EndStream
  <2> DEFINE error == h.error \/ (backend = "cursor" /\ ~h.result)
             g == [h EXCEPT !.error = error]
  <2>1. turn' = [turn EXCEPT !.pc = "clean", !.heard = g] /\ told' = told
    BY <1>1 DEF EndStream
  <2>2. /\ g \in Heard /\ g.session = h.session /\ g.result = h.result /\ g.completed = h.completed
        /\ g.error = error /\ g.question = h.question /\ g.decision = h.decision
    BY <1>t DEF Heard
  <2> HIDE DEF g
  <2>3. turn'.pc = "clean" /\ turn'.heard = g
    BY <1>t, <2>1 DEF Turns
  <2>4. HeardSoFar'
    BY <1>t, <2>1, <2>2, <2>3 DEF HeardSoFar, Caught, Names
  <2> QED  BY <1>s, <1>t, <2>1, <2>2, <2>4
<1>2. CASE BreakOff
  <2> DEFINE base == IF backend = "claude" THEN h ELSE Silence
             g == [base EXCEPT !.error = TRUE]
  <2>1. turn' = [turn EXCEPT !.pc = "clean", !.heard = g] /\ told' = [told EXCEPT !.late = TRUE]
    BY <1>2 DEF BreakOff
  <2>2. Silence \in Heard /\ Silence.question = FALSE /\ Silence.decision = <<>>
    BY DEF Silence, Heard
  <2>3. /\ g \in Heard /\ g.session = base.session /\ g.error
        /\ g.question = base.question /\ g.decision = base.decision
    BY <1>t, <2>2 DEF Heard
  <2>4. /\ told' \in Tellings /\ told'.session = told.session /\ told'.said = told.said
        /\ told'.asked = told.asked /\ told'.late
    BY <1>t, <2>1 DEF Tellings
  <2> HIDE DEF g
  <2>5. turn'.pc = "clean" /\ turn'.heard = g
    BY <1>t, <2>1 DEF Turns
  <2>6. CASE backend = "claude"
    <3>1. HeardSoFar'
      BY <1>t, <2>3, <2>4, <2>5, <2>6 DEF HeardSoFar, Caught, Names
    <3> QED  BY <1>s, <2>1, <2>3, <2>4, <3>1
  <2>7. CASE backend = "cursor"
    <3>1. HeardSoFar'
      BY <1>t, <2>2, <2>3, <2>4, <2>5, <2>7 DEF HeardSoFar, Caught, Names
    <3> QED  BY <1>s, <2>1, <2>3, <2>4, <3>1
  <2> QED  BY <1>t, <2>6, <2>7 DEF TurnTypes
<1> QED  BY <1>1, <1>2

\* The files are restored and the result is given to the scheduler.
LEMMA CleanUpIInv ==
  ASSUME TurnIInv, CleanUp
  PROVE  TurnIInv'
<1> DEFINE h == turn.heard
           decision == IF h.question THEN <<>> ELSE h.decision
           g == [h EXCEPT !.decision = decision]
<1>t. /\ TurnTypes /\ FilesKnown /\ HeardSoFar /\ h \in Heard /\ turn \in Turns /\ told \in Tellings
      /\ turn.pc = "clean"
      /\ settings' = Restored /\ UNCHANGED <<backend, own, spoiled, told, turns>>
      /\ turn.originals \in [Names -> Contents] /\ settings \in [Names -> Contents]
      /\ turn' = [turn EXCEPT !.pc = "result", !.heard = g]
  BY TurnParts DEF TurnIInv, TurnTypes, CleanUp
<1>1. /\ g \in Heard /\ g.session = h.session /\ g.result = h.result /\ g.completed = h.completed
      /\ g.error = h.error /\ g.question = h.question /\ g.decision = decision
  BY <1>t DEF Heard
<1> HIDE DEF g
<1>2. turn' \in Turns /\ turn'.pc = "result" /\ turn'.heard = g
  BY <1>1, <1>t DEF Turns
<1>3. settings' \in [Names -> Contents]
  BY <1>t DEF Restored
<1>4. TurnTypes'
  BY <1>2, <1>3, <1>t DEF TurnTypes
<1>5. FilesKnown'
  <2> SUFFICES ASSUME ~spoiled PROVE settings' = own
    BY <1>2, <1>t DEF FilesKnown
  <2>1. CASE backend = "claude"
    BY <1>t, <2>1 DEF FilesKnown, Restored
  <2>2. CASE backend # "claude"
    <3>1. backend = "cursor"
      BY <1>t, <2>2 DEF TurnTypes
    <3>2. settings'["hooks"] = own["hooks"] /\ settings'["mcp"] = own["mcp"]
      BY <1>t, <2>2, <3>1 DEF FilesKnown, Restored, Names
    <3>3. own \in [Names -> Contents]
      BY <1>t DEF TurnTypes
    <3> QED  BY <1>3, <3>2, <3>3 DEF Names
  <2> QED  BY <2>1, <2>2
<1>6. AgentIsHeard'
  <2>1. /\ told.failed \/ told.late => h.error
        /\ ~h.error => (h.completed => h.result)
        /\ h.question <=> told.asked /\ backend = "claude"
    BY <1>t DEF HeardSoFar
  <2> DEFINE lost == backend = "cursor" /\ told.late
  <2>2. lost \/ (h.session = told.session /\ Caught(h))
    BY <1>t DEF HeardSoFar
  <2>3. lost => h.decision = <<>>
    BY <1>t DEF HeardSoFar
  <2>4. (told.asked /\ backend = "claude") <=> Outcome(g) = "suspended"
    BY <1>1, <2>1 DEF Outcome
  <2>5. told.failed /\ ~told.asked => Outcome(g) = "error"
    BY <1>1, <2>1 DEF Outcome
  <2>6. Outcome(g) = "completed" => ~told.failed /\ ~told.late /\ g.result
    BY <1>1, <2>1 DEF Outcome
  <2>7. IF told.said = <<>> \/ lost \/ g.question THEN g.decision = <<>>
        ELSE ToSet(g.decision) \cap ToSet(told.said) # {}
    BY <1>1, <2>2, <2>3 DEF Caught
  <2> QED  BY <1>1, <1>2, <1>t, <2>2, <2>4, <2>5, <2>6, <2>7 DEF AgentIsHeard
<1>7. HeardSoFar'
  BY <1>2, <1>6 DEF HeardSoFar, Names
<1> QED  BY <1>4, <1>5, <1>7 DEF TurnIInv

\* Every step of the model keeps what is known of files and agent.
LEMMA TurnNextIInv ==
  ASSUME TurnIInv, [TurnNext]_turnVars
  PROVE  TurnIInv'
<1>1. CASE KillDaemon
  <2>1. turn' = Idle /\ told' = Nothing /\ spoiled' = TRUE /\ UNCHANGED <<backend, settings, own, turns>>
    BY <1>1 DEF KillDaemon
  <2>2. Idle \in Turns /\ Idle.pc = "idle" /\ Nothing \in Tellings
    BY DEF Idle, Turns, Silence, Heard, Names, Contents, Nothing, Tellings
  <2> QED  BY <2>1, <2>2 DEF TurnIInv, TurnTypes, FilesKnown, HeardSoFar, Names
<1>2. CASE UNCHANGED turnVars
  BY <1>2 DEF turnVars, TurnIInv, TurnTypes, FilesKnown, HeardSoFar, Caught, AgentIsHeard
<1> QED
  BY <1>1, <1>2, StartTurnIInv, WriteFilesIInv, StreamIInv, EndIInv, CleanUpIInv DEF TurnNext

\* The project's own files are as they were before any turn, and the scheduler is told what
\* the agent did, however a turn ended.
THEOREM TurnCorrect == TurnSpec => []TurnInv
<1>1. TurnInit => TurnIInv
  <2> SUFFICES ASSUME TurnInit PROVE TurnIInv
    OBVIOUS
  <2>1. Idle \in Turns /\ Idle.pc = "idle" /\ Nothing \in Tellings
    BY DEF Idle, Turns, Silence, Heard, Names, Contents, Nothing, Tellings
  <2>2. settings \in [Names -> Contents] /\ backend \in {"claude", "cursor"}
    BY TurnBounds DEF TurnInit, Contents
  <2>3. TurnTypes
    <3>1. 0 \in 0 .. MaxTurns
      BY TurnBounds
    <3>2. own \in [Names -> Contents] /\ spoiled \in BOOLEAN /\ turn \in Turns /\ told \in Tellings
      BY <2>1, <2>2 DEF TurnInit
    <3> QED  BY <2>2, <3>1, <3>2 DEF TurnInit, TurnTypes
  <2>4. FilesKnown
    BY <2>1 DEF TurnInit, FilesKnown
  <2>5. HeardSoFar
    BY <2>1 DEF TurnInit, HeardSoFar, Names
  <2> QED  BY <2>3, <2>4, <2>5 DEF TurnIInv
<1>2. TurnIInv /\ [TurnNext]_turnVars => TurnIInv'
  BY TurnNextIInv
<1>3. TurnIInv => TurnInv
  <2> SUFFICES ASSUME TurnIInv PROVE TurnInv
    OBVIOUS
  <2>1. TurnTypeOK
    BY DEF TurnIInv, TurnTypes, TurnTypeOK, Turns
  <2>2. ProjectFilesKept
    BY DEF TurnIInv, FilesKnown, ProjectFilesKept
  <2>3. AgentIsHeard
    BY DEF TurnIInv, HeardSoFar, AgentIsHeard
  <2> QED  BY <2>1, <2>2, <2>3 DEF TurnInv
<1> QED  BY <1>1, <1>2, <1>3, PTL DEF TurnSpec

-----------------------------------------------------------------------------
(* The daemon and the commands that start and stop it. *)

\* Where no commands overlap: one is at work, and one daemon lives.
OneAtWork == \A c, e \in Commands : pc[c] # "idle" /\ pc[e] # "idle" => c = e
OneAlive == \A d, e \in Daemons : Alive(d) /\ Alive(e) => d = e

\* How far a command is tells how far a daemon is, and what is there of its files.
CommandFits ==
  \A c \in Commands :
    /\ pc[c] \in {"check", "read"} => \A d \in Daemons : Alive(d) => daemon[d] = "serving"
    /\ pc[c] \in {"clean", "fork", "tidy"} => \A d \in Daemons : ~Alive(d)
    /\ pc[c] = "term" => \A d \in Daemons : Alive(d) => daemon[d] = "serving" /\ d = target[c]
    /\ pc[c] = "poll" => \A d \in Daemons : Alive(d) => daemon[d] \in Leaving /\ d = target[c]
    /\ pc[c] = "fork" => sock = 0 /\ port = 0
FilesFit ==
  \A d \in Daemons : Alive(d) =>
    /\ port \in {0, d} /\ sock \in {0, d}
    /\ daemon[d] \in {"born", "opened", "claimed"} => port = 0
    /\ daemon[d] \in {"born", "opened", "claimed", "announced"} => sock = 0
    /\ daemon[d] = "opened" => path # 0 /\ fd[d] = path
    /\ daemon[d] \in {"claimed", "announced", "serving"} =>
         path # 0 /\ fd[d] = path /\ content[path] = d
    /\ daemon[d] \in {"announced", "serving"} => port = d
    /\ daemon[d] = "serving" => sock = d
InTurn == OneAtWork /\ OneAlive /\ CommandFits /\ FilesFit

\* However they overlap: a daemon holds the lock of the file it claimed.
Locks ==
  /\ \A d \in Claimed : fd[d] \in Daemons /\ lock[fd[d]] = d
  /\ \A d \in Daemons : daemon[d] = "opened" => fd[d] # 0
NotForked == \A d \in Daemons : d > forked => daemon[d] = "none"

\* A PID that was written has been a daemon's that claimed its file.
HasClaimed(d) == d # 0 => daemon[d] \notin {"none", "born", "opened"}
PidsKnown ==
  (\A i \in Daemons : HasClaimed(content[i])) /\ (\A c \in Commands : HasClaimed(target[c]))

ServiceIInv == DaemonTypeOK /\ Locks /\ NotForked /\ (overlapped \/ InTurn)

\* A command moves on; the others are idle while it is at work.
LEMMA GoOn ==
  ASSUME DaemonTypeOK, NEW c \in Commands, NEW s \in CommandStates, Go(c, s)
  PROVE  /\ pc' \in [Commands -> CommandStates] /\ pc'[c] = s
         /\ \A e \in Commands \ {c} : pc'[e] = pc[e]
         /\ OneAtWork /\ pc[c] # "idle" =>
              OneAtWork' /\ \A e \in Commands \ {c} : pc'[e] = "idle"
BY DEF DaemonTypeOK, Go, OneAtWork

\* A process ends: its lock is free, and no other is.
LEMMA KilledLocks ==
  ASSUME DaemonTypeOK, Locks, NotForked, NEW d \in Daemons, d <= forked, Killed(d), forked' = forked
  PROVE  /\ daemon' \in [Daemons -> DaemonStates] /\ fd' \in [Daemons -> OrNone]
         /\ lock' \in [Daemons -> OrNone] /\ Locks' /\ NotForked'
         /\ daemon'[d] = "dead" /\ \A e \in Daemons \ {d} : daemon'[e] = daemon[e] /\ fd'[e] = fd[e]
<1>1. /\ daemon' \in [Daemons -> DaemonStates] /\ fd' \in [Daemons -> OrNone]
      /\ lock' \in [Daemons -> OrNone]
  BY DaemonBound DEF Killed, DaemonTypeOK, DaemonStates, Daemons, OrNone
<1>2. /\ daemon'[d] = "dead"
      /\ \A e \in Daemons \ {d} : daemon'[e] = daemon[e] /\ fd'[e] = fd[e]
      /\ \A i \in Daemons : lock'[i] = IF lock[i] = d THEN 0 ELSE lock[i]
  BY DEF Killed, DaemonTypeOK
<1>3. \A e \in Claimed' : e # d /\ e \in Claimed
  BY <1>2 DEF Claimed, Alive
<1>4. Locks'
  <2>1. \A e \in Claimed' : fd'[e] \in Daemons /\ lock'[fd'[e]] = e
    BY <1>2, <1>3 DEF Locks, Claimed
  <2>2. \A e \in Daemons : daemon'[e] = "opened" => fd'[e] # 0
    BY <1>2 DEF Locks
  <2> QED  BY <2>1, <2>2 DEF Locks
<1>5. NotForked'
  BY <1>2 DEF NotForked, Daemons, DaemonTypeOK, OrNone
<1> QED  BY <1>1, <1>2, <1>4, <1>5

\* What the files say of the one daemon that lives and serves.
LEMMA WhoServes ==
  ASSUME DaemonTypeOK, InTurn, NEW d \in Daemons, daemon[d] = "serving"
  PROVE  ReadPid = d /\ DaemonRunning
BY DaemonBound DEF InTurn, FilesFit, Alive, ReadPid, DaemonRunning, Daemons

\* A command begins; where nothing else is at work it finds a daemon that serves, or none.
LEMMA BeginIInv ==
  ASSUME ServiceIInv, NEW c \in Commands, Start(c) \/ Stop(c)
  PROVE  ServiceIInv'
<1>1. PICK s \in {"check", "read"} : Begin(c, s)
  BY DEF Start, Stop
<1>t. /\ DaemonTypeOK /\ pc[c] = "idle" /\ Go(c, s) /\ s \in CommandStates
      /\ overlapped' = (overlapped \/ ~Settled)
      /\ UNCHANGED <<path, content, lock, fd, sock, port, daemon, forked, target>>
  BY <1>1 DEF ServiceIInv, Begin, stateFiles, CommandStates
<1>2. DaemonTypeOK'
  BY <1>t, GoOn DEF DaemonTypeOK
<1>3. Locks' /\ NotForked'
  BY <1>t DEF ServiceIInv, Locks, NotForked, Claimed, Alive
<1>4. ASSUME ~overlapped'
      PROVE  InTurn'
  <2>1. InTurn /\ Settled
    BY <1>4, <1>t DEF ServiceIInv, DaemonTypeOK
  <2>2. pc'[c] = s /\ \A e \in Commands \ {c} : pc'[e] = "idle"
    BY <1>t, <2>1, GoOn DEF Settled
  <2>3. OneAtWork'
    BY <2>2 DEF OneAtWork
  <2>4. OneAlive' /\ FilesFit'
    BY <1>t, <2>1 DEF InTurn, OneAlive, FilesFit, Alive
  <2>5. CommandFits'
    BY <1>t, <2>1, <2>2 DEF CommandFits, Settled, Alive
  <2> QED  BY <2>3, <2>4, <2>5 DEF InTurn
<1> QED  BY <1>2, <1>3, <1>4 DEF ServiceIInv

\* A command looks at the files and the processes, and changes none.
LEMMA LookIInv ==
  ASSUME ServiceIInv, NEW c \in Commands,
         CheckRunning(c) \/ AwaitPort(c) \/ ReportStart(c) \/ ReadStopTarget(c) \/ AwaitExit(c)
  PROVE  ServiceIInv'
<1>t. /\ DaemonTypeOK /\ pc[c] # "idle" /\ \E s \in CommandStates : Go(c, s)
      /\ UNCHANGED <<path, content, lock, fd, sock, port, daemon, forked, overlapped>>
  BY DEF ServiceIInv, CheckRunning, AwaitPort, ReportStart, ReadStopTarget, AwaitExit, stateFiles,
         CommandStates
<1>1. target' \in [Commands -> OrNone] /\ \A e \in Commands \ {c} : target'[e] = target[e]
  <2>1. ReadPid \in OrNone
    BY <1>t, DaemonBound DEF ReadPid, DaemonTypeOK, OrNone, Daemons
  <2> QED
    BY <1>t, <2>1 DEF DaemonTypeOK, CheckRunning, AwaitPort, ReportStart, ReadStopTarget, AwaitExit
<1>2. DaemonTypeOK'
  BY <1>t, <1>1, GoOn DEF DaemonTypeOK
<1>3. Locks' /\ NotForked'
  BY <1>t DEF ServiceIInv, Locks, NotForked, Claimed, Alive
<1>4. ASSUME ~overlapped'
      PROVE  InTurn'
  <2>1. InTurn
    BY <1>4, <1>t DEF ServiceIInv
  <2>2. OneAtWork' /\ \A e \in Commands \ {c} : pc'[e] = "idle"
    BY <1>t, <2>1, GoOn DEF InTurn
  <2>3. OneAlive' /\ FilesFit'
    BY <1>t, <2>1 DEF InTurn, OneAlive, FilesFit, Alive
  <2>4. ASSUME NEW d \in Daemons, daemon[d] = "serving"
        PROVE  ReadPid = d /\ DaemonRunning
    BY <1>t, <2>1, <2>4, WhoServes
  <2>5. /\ pc'[c] \in {"check", "read", "fork", "poll"} => FALSE
        /\ pc'[c] \in {"clean", "tidy"} => \A d \in Daemons : ~Alive(d)
        /\ pc'[c] = "term" => \A d \in Daemons : Alive(d) => daemon[d] = "serving" /\ d = target'[c]
    <3>1. CASE CheckRunning(c)
      <4>1. pc[c] = "check" /\ pc'[c] = IF DaemonRunning THEN "idle" ELSE "clean"
        BY <1>t, <3>1 DEF CheckRunning, Go, DaemonTypeOK
      <4> QED  BY <2>1, <2>4, <4>1 DEF InTurn, CommandFits
    <3>2. CASE AwaitPort(c) \/ ReportStart(c)
      BY <1>t, <3>2 DEF AwaitPort, ReportStart, Go, DaemonTypeOK
    <3>3. CASE ReadStopTarget(c)
      <4>1. /\ pc[c] = "read" /\ target'[c] = ReadPid
            /\ pc'[c] = IF ReadPid = 0 THEN "idle" ELSE IF DaemonRunning THEN "term" ELSE "tidy"
        BY <1>t, <3>3 DEF ReadStopTarget, Go, DaemonTypeOK
      <4> QED  BY <2>1, <2>4, <4>1 DEF InTurn, CommandFits
    <3>4. CASE AwaitExit(c)
      <4>1. pc[c] = "poll" /\ ~Alive(target[c]) /\ pc'[c] = "tidy"
        BY <1>t, <3>4 DEF AwaitExit, Go, DaemonTypeOK
      <4> QED  BY <2>1, <4>1 DEF InTurn, CommandFits
    <3> QED  BY <3>1, <3>2, <3>3, <3>4
  <2>6. CommandFits'
    BY <1>t, <2>2, <2>5 DEF CommandFits, Alive
  <2> QED  BY <2>2, <2>3, <2>6 DEF InTurn
<1> QED  BY <1>2, <1>3, <1>4 DEF ServiceIInv

\* A command changes files, with no daemon alive, or forks one.
LEMMA ActIInv ==
  ASSUME ServiceIInv, NEW c \in Commands, RemoveStale(c) \/ Fork(c) \/ CleanupStateFiles(c)
  PROVE  ServiceIInv'
<1>t. /\ DaemonTypeOK /\ pc[c] # "idle" /\ \E s \in CommandStates : Go(c, s)
      /\ UNCHANGED <<content, lock, fd, overlapped>>
      /\ path' \in {0, path} /\ sock' \in {0, sock} /\ port' \in {0, port}
  BY DEF ServiceIInv, RemoveStale, Fork, CleanupStateFiles, stateFiles, CommandStates
<1>0. 0 \in OrNone
  BY DaemonBound DEF OrNone
<1>1. CASE RemoveStale(c) \/ CleanupStateFiles(c)
  <2>t. UNCHANGED <<daemon, forked>> /\ target' \in [Commands -> OrNone]
    BY <1>0, <1>1, <1>t DEF RemoveStale, CleanupStateFiles, DaemonTypeOK
  <2>1. DaemonTypeOK'
    BY <1>0, <1>t, <2>t, GoOn DEF DaemonTypeOK
  <2>2. Locks' /\ NotForked'
    BY <1>t, <2>t DEF ServiceIInv, Locks, NotForked, Claimed, Alive
  <2>3. ASSUME ~overlapped'
        PROVE  InTurn'
    <3>1. InTurn
      BY <2>3, <1>t DEF ServiceIInv
    <3>2. OneAtWork' /\ \A e \in Commands \ {c} : pc'[e] = "idle"
      BY <1>t, <3>1, GoOn DEF InTurn
    <3>3. /\ pc[c] \in {"clean", "tidy"} /\ pc'[c] \in {"fork", "idle"}
          /\ pc'[c] = "fork" => sock' = 0 /\ port' = 0
      BY <1>1, <1>t DEF RemoveStale, CleanupStateFiles, Go, DaemonTypeOK
    <3>4. \A d \in Daemons : ~Alive(d)'
      BY <2>t, <3>1, <3>3 DEF InTurn, CommandFits, Alive
    <3>5. CommandFits'
      BY <3>2, <3>3, <3>4 DEF CommandFits
    <3> QED  BY <3>2, <3>4, <3>5 DEF InTurn, OneAlive, FilesFit
  <2> QED  BY <2>1, <2>2, <2>3 DEF ServiceIInv
<1>2. CASE Fork(c)
  <2> DEFINE n == forked + 1
  <2>t. /\ pc[c] = "fork" /\ n \in Daemons /\ forked' = n /\ pc'[c] = "wait"
        /\ daemon' = [daemon EXCEPT ![n] = "born"]
        /\ UNCHANGED <<path, content, lock, fd, sock, port, target, overlapped>>
    BY <1>2, <1>t, DaemonBound DEF Fork, Go, DaemonTypeOK, stateFiles, Daemons, OrNone
  <2>1. /\ daemon' \in [Daemons -> DaemonStates] /\ daemon'[n] = "born"
        /\ \A e \in Daemons \ {n} : daemon'[e] = daemon[e]
    BY <1>t, <2>t DEF DaemonTypeOK, DaemonStates, Starting
  <2>2. DaemonTypeOK'
    BY <1>t, <2>t, <2>1, GoOn DEF DaemonTypeOK, Daemons, OrNone
  <2>3. NotForked'
    BY <1>t, <2>t, <2>1 DEF ServiceIInv, NotForked, DaemonTypeOK, Daemons, OrNone
  <2>4. Locks'
    BY <1>t, <2>t, <2>1 DEF ServiceIInv, Locks, Claimed, Alive
  <2>5. ASSUME ~overlapped'
        PROVE  InTurn'
    <3>1. InTurn
      BY <2>5, <2>t DEF ServiceIInv
    <3>2. OneAtWork' /\ \A e \in Commands \ {c} : pc'[e] = "idle"
      BY <1>t, <3>1, GoOn DEF InTurn
    <3>3. sock' = 0 /\ port' = 0 /\ \A d \in Daemons : Alive(d)' => d = n
      BY <2>t, <2>1, <3>1 DEF InTurn, CommandFits, Alive
    <3>4. CommandFits'
      BY <2>t, <3>2 DEF CommandFits
    <3>5. OneAlive'
      BY <3>3 DEF OneAlive
    <3>6. FilesFit'
      BY <2>1, <3>3 DEF FilesFit
    <3> QED  BY <3>2, <3>4, <3>5, <3>6 DEF InTurn
  <2> QED  BY <2>2, <2>3, <2>4, <2>5 DEF ServiceIInv
<1> QED  BY <1>1, <1>2

\* The one daemon that lived is dead.
LEMMA NoneLeft ==
  ASSUME InTurn, NEW d \in Daemons, Alive(d), daemon'[d] = "dead",
         \A e \in Daemons \ {d} : daemon'[e] = daemon[e]
  PROVE  \A e \in Daemons : ~Alive(e)'
BY DEF InTurn, OneAlive, Alive

\* A daemon ends with no command at it: a crash, a refused claim, its last exit handler.
LEMMA DeathIInv ==
  ASSUME ServiceIInv, NEW d \in Daemons, Alive(d), Killed(d), path' \in {0, path},
         UNCHANGED <<content, sock, port, forked, commands>>
  PROVE  ServiceIInv'
<1>t. /\ DaemonTypeOK /\ Locks /\ NotForked /\ d <= forked
      /\ UNCHANGED <<pc, target, overlapped, sock, port>>
  BY DEF ServiceIInv, commands, NotForked, Alive, Daemons, DaemonTypeOK, OrNone
<1>1. /\ daemon' \in [Daemons -> DaemonStates] /\ fd' \in [Daemons -> OrNone]
      /\ lock' \in [Daemons -> OrNone] /\ Locks' /\ NotForked'
      /\ daemon'[d] = "dead" /\ \A e \in Daemons \ {d} : daemon'[e] = daemon[e]
  BY <1>t, KilledLocks
<1>2. DaemonTypeOK'
  BY <1>t, <1>1, DaemonBound DEF DaemonTypeOK, OrNone
<1>3. ASSUME ~overlapped'
      PROVE  InTurn'
  <2>1. InTurn
    BY <1>3, <1>t DEF ServiceIInv
  <2>2. \A e \in Daemons : ~Alive(e)'
    BY <1>1, <2>1, NoneLeft
  <2>3. OneAtWork' /\ CommandFits'
    BY <1>t, <2>1, <2>2 DEF InTurn, OneAtWork, CommandFits
  <2> QED  BY <2>2, <2>3 DEF InTurn, OneAlive, FilesFit
<1> QED  BY <1>1, <1>2, <1>3 DEF ServiceIInv

\* A stop signals its target, once and again.
LEMMA SignalIInv ==
  ASSUME ServiceIInv, PidsKnown, NEW c \in Commands, Terminate(c) \/ KillTarget(c)
  PROVE  ServiceIInv'
<1> DEFINE d == target[c]
<1>t. /\ DaemonTypeOK /\ Locks /\ NotForked /\ pc[c] \in {"term", "poll"}
      /\ UNCHANGED <<path, content, sock, port, forked, target, overlapped>>
      /\ d \in OrNone
  BY DEF ServiceIInv, Terminate, KillTarget, DaemonTypeOK
<1>0. Alive(d) => d \in Daemons /\ d <= forked
  BY <1>t DEF Alive, NotForked, OrNone, Daemons, DaemonTypeOK
<1>1. CASE Terminate(c) /\ ~Alive(d)
  <2>t. pc[c] = "term" /\ Go(c, "tidy") /\ UNCHANGED <<daemon, lock, fd>>
    BY <1>1 DEF Terminate
  <2>1. pc' \in [Commands -> CommandStates] /\ pc'[c] = "tidy"
    BY <1>t, <2>t, GoOn DEF CommandStates
  <2>2. DaemonTypeOK' /\ Locks' /\ NotForked'
    BY <1>t, <2>t, <2>1 DEF DaemonTypeOK, Locks, NotForked, Claimed, Alive
  <2>3. ASSUME ~overlapped'
        PROVE  InTurn'
    <3>1. InTurn
      BY <2>3, <1>t DEF ServiceIInv
    <3>2. OneAtWork' /\ \A e \in Commands \ {c} : pc'[e] = "idle"
      BY <1>t, <2>t, <3>1, GoOn DEF InTurn, CommandStates
    <3>3. \A e \in Daemons : ~Alive(e) /\ ~Alive(e)'
      BY <1>1, <2>t, <3>1 DEF InTurn, CommandFits, Alive
    <3>4. CommandFits'
      BY <2>1, <3>2, <3>3 DEF CommandFits
    <3> QED  BY <3>2, <3>3, <3>4 DEF InTurn, OneAlive, FilesFit
  <2> QED  BY <2>2, <2>3 DEF ServiceIInv
<1>2. CASE Terminate(c) /\ Alive(d) /\ ~Killed(d)
  <2>t. /\ pc[c] = "term" /\ Go(c, "poll") /\ UNCHANGED <<lock, fd>> /\ d \in Daemons
        /\ \/ daemon[d] \in Leaving /\ daemon' = daemon
           \/ daemon' = [daemon EXCEPT ![d] = "leaving"]
    BY <1>0, <1>2 DEF Terminate
  <2>1. pc' \in [Commands -> CommandStates] /\ pc'[c] = "poll"
    BY <1>t, <2>t, GoOn DEF CommandStates
  <2>2. /\ daemon' \in [Daemons -> DaemonStates] /\ daemon'[d] \in Leaving
        /\ \A e \in Daemons \ {d} : daemon'[e] = daemon[e]
    BY <1>t, <2>t DEF DaemonTypeOK, DaemonStates, Leaving
  <2>3. DaemonTypeOK'
    BY <1>t, <2>t, <2>1, <2>2 DEF DaemonTypeOK
  <2>4. NotForked'
    BY <1>0, <1>2, <1>t, <2>2 DEF NotForked, Daemons, DaemonTypeOK, OrNone
  <2>5. Locks'
    <3>1. d \in Claimed
      BY <1>2, <2>t DEF PidsKnown, HasClaimed, Claimed, Alive
    <3> QED  BY <1>t, <2>t, <2>2, <3>1 DEF Locks, Claimed, Alive, Leaving
  <2>6. ASSUME ~overlapped'
        PROVE  InTurn'
    <3>1. InTurn
      BY <2>6, <1>t DEF ServiceIInv
    <3>2. OneAtWork' /\ \A e \in Commands \ {c} : pc'[e] = "idle"
      BY <1>t, <2>t, <3>1, GoOn DEF InTurn, CommandStates
    <3>3. \A e \in Daemons : Alive(e)' => e = d
      BY <1>2, <2>t, <2>2, <3>1 DEF InTurn, OneAlive, Alive
    <3>4. CommandFits'
      BY <1>t, <2>1, <2>2, <3>2, <3>3 DEF CommandFits
    <3>5. FilesFit'
      <4>1. port \in {0, d} /\ sock \in {0, d}
        BY <1>2, <2>t, <3>1 DEF InTurn, FilesFit
      <4> QED  BY <1>t, <2>2, <3>3, <4>1 DEF FilesFit, Leaving
    <3> QED  BY <3>2, <3>3, <3>4, <3>5 DEF InTurn, OneAlive
  <2> QED  BY <2>3, <2>4, <2>5, <2>6 DEF ServiceIInv
<1>3. CASE Alive(d) /\ Killed(d)
  <2>t. /\ \E s \in {"poll", "tidy"} : Go(c, s)
        /\ d \in Daemons /\ d <= forked
    BY <1>0, <1>3 DEF Terminate, KillTarget
  <2>1. /\ daemon' \in [Daemons -> DaemonStates] /\ fd' \in [Daemons -> OrNone]
        /\ lock' \in [Daemons -> OrNone] /\ Locks' /\ NotForked'
        /\ daemon'[d] = "dead" /\ \A e \in Daemons \ {d} : daemon'[e] = daemon[e]
    BY <1>3, <1>t, <2>t, KilledLocks
  <2>2. pc' \in [Commands -> CommandStates] /\ pc'[c] \in {"poll", "tidy"}
    BY <1>t, <2>t, GoOn DEF CommandStates
  <2>3. DaemonTypeOK'
    BY <1>t, <2>1, <2>2 DEF DaemonTypeOK
  <2>4. ASSUME ~overlapped'
        PROVE  InTurn'
    <3>1. InTurn
      BY <2>4, <1>t DEF ServiceIInv
    <3>2. OneAtWork' /\ \A e \in Commands \ {c} : pc'[e] = "idle"
      BY <1>t, <2>t, <3>1, GoOn DEF InTurn, CommandStates
    <3>3. \A e \in Daemons : ~Alive(e)'
      BY <1>3, <2>t, <2>1, <3>1, NoneLeft
    <3>4. CommandFits'
      BY <2>2, <3>2, <3>3 DEF CommandFits
    <3> QED  BY <3>2, <3>3, <3>4 DEF InTurn, OneAlive, FilesFit
  <2> QED  BY <2>1, <2>3, <2>4 DEF ServiceIInv
<1> QED
  <2>1. KillTarget(c) => Alive(d) /\ Killed(d)
    BY DEF KillTarget
  <2> QED  BY <1>1, <1>2, <1>3, <2>1

\* A daemon that starts or leaves goes on: no command waits for it to serve.
LEMMA BecomeFits ==
  ASSUME DaemonTypeOK, NEW d \in Daemons, NEW s \in DaemonStates \ {"none", "dead"}, Become(d, s),
         daemon[d] \in Starting \cup Leaving, daemon[d] \in Leaving => s \in Leaving,
         UNCHANGED <<pc, target>>
  PROVE  /\ daemon' \in [Daemons -> DaemonStates] /\ daemon'[d] = s
         /\ \A e \in Daemons \ {d} : daemon'[e] = daemon[e]
         /\ NotForked /\ forked' = forked => NotForked'
         /\ InTurn => /\ OneAtWork' /\ OneAlive' /\ CommandFits'
                      /\ \A e \in Daemons : Alive(e)' => e = d
<1>1. /\ daemon' \in [Daemons -> DaemonStates] /\ daemon'[d] = s
      /\ \A e \in Daemons \ {d} : daemon'[e] = daemon[e]
  BY DEF DaemonTypeOK, Become
<1>2. Alive(d) /\ daemon[d] # "serving"
  BY DEF Alive, Starting, Leaving, Daemons
<1>3. NotForked /\ forked' = forked => NotForked'
  BY <1>1, <1>2 DEF NotForked, Alive
<1>4. ASSUME InTurn
      PROVE  /\ OneAtWork' /\ OneAlive' /\ CommandFits'
             /\ \A e \in Daemons : Alive(e)' => e = d
  <2>1. \A e \in Daemons : Alive(e)' => e = d
    BY <1>1, <1>2, <1>4 DEF InTurn, OneAlive, Alive
  <2>2. \A c \in Commands :
          /\ pc[c] \notin {"check", "read", "clean", "fork", "tidy", "term"}
          /\ pc[c] = "poll" => daemon[d] \in Leaving /\ d = target[c]
    BY <1>2, <1>4 DEF InTurn, CommandFits
  <2>3. CommandFits'
    BY <1>1, <2>1, <2>2 DEF CommandFits
  <2> QED  BY <1>4, <2>1, <2>3 DEF InTurn, OneAtWork, OneAlive
<1> QED  BY <1>1, <1>3, <1>4

\* A daemon starts: the PID file, the port, the socket.
LEMMA StartingIInv ==
  ASSUME ServiceIInv, NEW d \in Daemons, OpenPidFile(d) \/ WritePidFile(d) \/ WritePort(d) \/ Serve(d)
  PROVE  ServiceIInv'
<1>t. /\ DaemonTypeOK /\ Locks /\ NotForked /\ forked' = forked
      /\ UNCHANGED <<pc, target, overlapped>> /\ Alive(d) /\ daemon[d] \in Starting /\ d \in OrNone
      /\ d # 0
  BY DEF ServiceIInv, OpenPidFile, WritePidFile, WritePort, Serve, commands, Alive, Starting, Daemons,
         OrNone
<1>1. CASE OpenPidFile(d)
  <2>t. /\ daemon[d] = "born" /\ Become(d, "opened") /\ UNCHANGED <<content, lock, sock, port>>
        /\ path' = (IF path = 0 THEN d ELSE path) /\ fd' = [fd EXCEPT ![d] = path']
    BY <1>1 DEF OpenPidFile
  <2>1. /\ path' \in OrNone \ {0} /\ fd' \in [Daemons -> OrNone] /\ fd'[d] = path'
        /\ \A e \in Daemons \ {d} : fd'[e] = fd[e]
    BY <1>t, <2>t DEF DaemonTypeOK
  <2>2. /\ daemon' \in [Daemons -> DaemonStates] /\ daemon'[d] = "opened"
        /\ \A e \in Daemons \ {d} : daemon'[e] = daemon[e] /\ NotForked'
    BY <1>t, <2>t, BecomeFits DEF DaemonStates, Starting, Leaving
  <2>3. DaemonTypeOK'
    BY <1>t, <2>t, <2>1, <2>2 DEF DaemonTypeOK
  <2>4. Locks'
    BY <1>t, <2>t, <2>1, <2>2 DEF Locks, Claimed, Alive
  <2>5. NotForked'
    BY <1>t, <2>t, BecomeFits DEF DaemonStates, Starting, Leaving
  <2>6. ASSUME InTurn
        PROVE  InTurn'
    <3>1. /\ OneAtWork' /\ OneAlive' /\ CommandFits'
          /\ \A e \in Daemons : Alive(e)' => e = d
      BY <1>t, <2>t, <2>6, BecomeFits DEF DaemonStates, Starting, Leaving
    <3>2. port = 0 /\ sock = 0
      BY <1>t, <2>t, <2>6 DEF InTurn, FilesFit
    <3>3. FilesFit'
      BY <2>t, <2>1, <2>2, <3>1, <3>2 DEF FilesFit
    <3> QED  BY <3>1, <3>3 DEF InTurn
  <2> QED  BY <1>t, <2>3, <2>4, <2>5, <2>6 DEF ServiceIInv
<1>2. CASE WritePidFile(d) /\ Claimable(d)
  <2> DEFINE i == fd[d]
  <2>t. /\ daemon[d] = "opened" /\ Become(d, "claimed") /\ UNCHANGED <<path, fd, sock, port>>
        /\ lock' = [lock EXCEPT ![i] = d] /\ content' = [content EXCEPT ![i] = d] /\ lock[i] = 0
    BY <1>2 DEF WritePidFile, Claimable
  <2>0. i \in Daemons
    BY <1>t, <2>t DEF Locks, DaemonTypeOK, OrNone, Daemons
  <2>1. /\ lock' \in [Daemons -> OrNone] /\ content' \in [Daemons -> OrNone]
        /\ lock'[i] = d /\ content'[i] = d /\ \A j \in Daemons \ {i} : lock'[j] = lock[j]
    BY <1>t, <2>t, <2>0 DEF DaemonTypeOK
  <2>2. /\ daemon' \in [Daemons -> DaemonStates] /\ daemon'[d] = "claimed"
        /\ \A e \in Daemons \ {d} : daemon'[e] = daemon[e]
    BY <1>t, <2>t, BecomeFits DEF DaemonStates, Starting, Leaving
  <2>3. DaemonTypeOK'
    BY <1>t, <2>t, <2>1, <2>2 DEF DaemonTypeOK
  <2>4. Locks'
    <3>1. \A e \in Claimed' : e # d => fd[e] \in Daemons /\ lock[fd[e]] = e /\ fd[e] # i
      BY <1>t, <2>t, <2>2 DEF Locks, Claimed, Alive
    <3>2. \A e \in Claimed' : fd'[e] \in Daemons /\ lock'[fd'[e]] = e
      BY <2>t, <2>0, <2>1, <3>1
    <3> QED  BY <1>t, <2>t, <2>2, <3>2 DEF Locks
  <2>5. NotForked'
    BY <1>t, <2>t, BecomeFits DEF DaemonStates, Starting, Leaving
  <2>6. ASSUME InTurn
        PROVE  InTurn'
    <3>1. /\ OneAtWork' /\ OneAlive' /\ CommandFits'
          /\ \A e \in Daemons : Alive(e)' => e = d
      BY <1>t, <2>t, <2>6, BecomeFits DEF DaemonStates, Starting, Leaving
    <3>2. port = 0 /\ sock = 0 /\ path # 0 /\ fd[d] = path
      BY <1>t, <2>t, <2>6 DEF InTurn, FilesFit
    <3>3. FilesFit'
      BY <2>t, <2>1, <2>2, <3>1, <3>2 DEF FilesFit
    <3> QED  BY <3>1, <3>3 DEF InTurn
  <2> QED  BY <1>t, <2>3, <2>4, <2>5, <2>6 DEF ServiceIInv
<1>3. CASE WritePidFile(d) /\ ~Claimable(d)
  BY <1>t, <1>3, DeathIInv DEF WritePidFile
<1>4. CASE WritePort(d) \/ Serve(d)
  <2>t. /\ daemon[d] \in {"claimed", "announced"} /\ UNCHANGED <<path, content, lock, fd>>
        /\ port' \in OrNone /\ sock' \in OrNone
        /\ \E s \in {"announced", "serving"} : Become(d, s)
    BY <1>4, <1>t DEF WritePort, Serve, DaemonTypeOK
  <2>1. /\ daemon' \in [Daemons -> DaemonStates] /\ daemon'[d] \in {"announced", "serving"}
        /\ \A e \in Daemons \ {d} : daemon'[e] = daemon[e]
        /\ NotForked'
    BY <1>t, <2>t, BecomeFits DEF DaemonStates, Starting, Leaving
  <2>2. DaemonTypeOK'
    BY <1>t, <2>t, <2>1 DEF DaemonTypeOK
  <2>3. Locks'
    BY <1>t, <2>t, <2>1 DEF Locks, Claimed, Alive
  <2>4. ASSUME InTurn
        PROVE  InTurn'
    <3>1. /\ OneAtWork' /\ OneAlive' /\ CommandFits'
          /\ \A e \in Daemons : Alive(e)' => e = d
      BY <1>t, <2>t, <2>4, BecomeFits DEF DaemonStates, Starting, Leaving
    <3>2. /\ path # 0 /\ fd[d] = path /\ content[path] = d
          /\ daemon[d] = "announced" => port = d
          /\ sock = 0
      BY <1>t, <2>t, <2>4 DEF InTurn, FilesFit
    <3>3. /\ port' = d
          /\ daemon'[d] = "serving" => sock' = d
          /\ daemon'[d] = "announced" => sock' = 0
      BY <1>4, <1>t, <3>2 DEF WritePort, Serve, Become, DaemonTypeOK
    <3>4. fd'[d] = path' /\ content'[path'] = d /\ path' # 0 /\ port' \in {0, d} /\ sock' \in {0, d}
      BY <2>t, <2>1, <3>2, <3>3
    <3>5. FilesFit'
      BY <2>1, <3>1, <3>3, <3>4 DEF FilesFit
    <3> QED  BY <3>1, <3>5 DEF InTurn
  <2> QED  BY <1>t, <2>1, <2>2, <2>3, <2>4 DEF ServiceIInv
<1> QED  BY <1>1, <1>2, <1>3, <1>4

\* A daemon leaves, with its exit handlers.
LEMMA LeavingIInv ==
  ASSUME ServiceIInv, NEW d \in Daemons, StartupError(d) \/ RemovePort(d) \/ RemoveSocket(d)
  PROVE  ServiceIInv'
<1>t. /\ DaemonTypeOK /\ Locks /\ NotForked /\ forked' = forked /\ Alive(d)
      /\ UNCHANGED <<path, content, lock, fd, pc, target, overlapped>>
      /\ daemon[d] \in {"claimed", "announced"} \cup Leaving
      /\ port' \in {0, port} /\ sock' \in {0, sock}
      /\ \E s \in Leaving : Become(d, s)
  BY DEF ServiceIInv, StartupError, RemovePort, RemoveSocket, commands, stateFiles, Alive, Leaving,
         Daemons
<1>1. /\ daemon' \in [Daemons -> DaemonStates] /\ daemon'[d] \in Leaving
      /\ \A e \in Daemons \ {d} : daemon'[e] = daemon[e]
      /\ NotForked'
  BY <1>t, BecomeFits DEF DaemonStates, Starting, Leaving
<1>2. DaemonTypeOK'
  BY <1>t, <1>1, DaemonBound DEF DaemonTypeOK, OrNone
<1>3. Locks'
  BY <1>t, <1>1 DEF Locks, Claimed, Alive, Leaving
<1>4. ASSUME InTurn
      PROVE  InTurn'
  <2>1. /\ OneAtWork' /\ OneAlive' /\ CommandFits'
        /\ \A e \in Daemons : Alive(e)' => e = d
    BY <1>t, <1>4, BecomeFits DEF DaemonStates, Starting, Leaving
  <2>2. port' \in {0, d} /\ sock' \in {0, d}
    BY <1>t, <1>4 DEF InTurn, FilesFit
  <2>3. FilesFit'
    BY <1>1, <2>1, <2>2 DEF FilesFit, Leaving
  <2> QED  BY <2>1, <2>3 DEF InTurn
<1> QED  BY <1>t, <1>1, <1>2, <1>3, <1>4 DEF ServiceIInv

\* No daemon goes back, and only a daemon that claims writes its PID.
LEMMA PidsStayKnown ==
  ASSUME ServiceIInv, PidsKnown, [Next]_vars
  PROVE  PidsKnown'
<1>t. /\ DaemonTypeOK /\ Locks /\ NotForked /\ content \in [Daemons -> OrNone]
      /\ target \in [Commands -> OrNone] /\ daemon \in [Daemons -> DaemonStates]
      /\ fd \in [Daemons -> OrNone] /\ \A d \in OrNone : d # 0 => d \in Daemons
  BY DEF ServiceIInv, DaemonTypeOK, OrNone, Daemons
<1>1. ASSUME \A d \in Daemons : HasClaimed(d) => HasClaimed(d)',
             \A i \in Daemons : content'[i] = content[i] \/ HasClaimed(content[i])',
             \A c \in Commands : target'[c] = target[c] \/ HasClaimed(target[c])'
      PROVE  PidsKnown'
  BY <1>1, <1>t DEF PidsKnown, HasClaimed
<1>2. ASSUME NEW c \in Commands, Start(c) \/ Stop(c) \/ CommandStep(c), ~Fork(c)
      PROVE  PidsKnown'
  <2>1. content' = content
    BY <1>2 DEF Start, Stop, Begin, CommandStep, CheckRunning, RemoveStale, AwaitPort, ReportStart,
                ReadStopTarget, Terminate, AwaitExit, KillTarget, CleanupStateFiles, stateFiles
  <2>2. \A d \in Daemons : daemon'[d] \in {daemon[d], "dead", "leaving"}
    BY <1>2, <1>t DEF Start, Stop, Begin, CommandStep, CheckRunning, RemoveStale, AwaitPort, ReportStart,
                ReadStopTarget, Terminate, AwaitExit, KillTarget, CleanupStateFiles, Killed
  <2>3. HasClaimed(ReadPid)
    BY <1>t DEF PidsKnown, HasClaimed, ReadPid, DaemonTypeOK
  <2>4. ReadStopTarget(c) => UNCHANGED daemon
    BY DEF ReadStopTarget
  <2>5. \A e \in Commands : target'[e] = target[e] \/ HasClaimed(target[e])'
    <3>1. CASE ReadStopTarget(c)
      <4>1. \A e \in Commands : target'[e] = target[e] \/ target'[e] = ReadPid
        BY <1>t, <3>1 DEF ReadStopTarget
      <4> QED  BY <2>3, <2>4, <3>1, <4>1 DEF HasClaimed
    <3>2. CASE CleanupStateFiles(c)
      BY <1>t, <3>2 DEF CleanupStateFiles, HasClaimed
    <3>3. CASE ~ReadStopTarget(c) /\ ~CleanupStateFiles(c)
      BY <1>2, <3>3 DEF Start, Stop, Begin, CommandStep, CheckRunning, RemoveStale, AwaitPort,
                        ReportStart, Terminate, AwaitExit, KillTarget
    <3> QED  BY <3>1, <3>2, <3>3
  <2> QED  BY <1>1, <2>1, <2>2, <2>5 DEF HasClaimed
<1>3. ASSUME NEW c \in Commands, Fork(c)
      PROVE  PidsKnown'
  <2>1. /\ UNCHANGED <<content, target>> /\ daemon' = [daemon EXCEPT ![forked + 1] = "born"]
        /\ forked \in Nat
    BY <1>3, <1>t, DaemonBound DEF Fork, stateFiles, DaemonTypeOK, OrNone
  <2>2. \A d \in Daemons : HasClaimed(d) => d # forked + 1
    BY <1>t, <2>1 DEF NotForked, HasClaimed, Daemons
  <2> QED  BY <1>1, <1>t, <2>1, <2>2 DEF HasClaimed
<1>4. ASSUME NEW d \in Daemons, DaemonStep(d) \/ Crash(d)
      PROVE  PidsKnown'
  <2>1. target' = target
    BY <1>4 DEF DaemonStep, Crash, OpenPidFile, WritePidFile, WritePort, Serve, StartupError, RemovePort,
                RemoveSocket, RemovePidFile, commands
  <2>2. \A e \in Daemons : e # d => daemon'[e] = daemon[e]
    BY <1>4, <1>t DEF DaemonStep, Crash, OpenPidFile, WritePidFile, WritePort, Serve, StartupError,
                      RemovePort, RemoveSocket, RemovePidFile, Become, Killed
  <2>3. daemon'[d] \in {"opened", "claimed", "announced", "serving", "dead"} \cup Leaving
    BY <1>4, <1>t DEF DaemonStep, Crash, OpenPidFile, WritePidFile, WritePort, Serve, StartupError,
                      RemovePort, RemoveSocket, RemovePidFile, Become, Killed, Leaving
  <2>4. daemon'[d] = "opened" => daemon[d] = "born"
    BY <1>4, <1>t DEF DaemonStep, Crash, OpenPidFile, WritePidFile, WritePort, Serve, StartupError,
                      RemovePort, RemoveSocket, RemovePidFile, Become, Killed
  <2>5. \A i \in Daemons : content'[i] = content[i] \/ (content'[i] = d /\ daemon'[d] = "claimed")
    BY <1>4, <1>t DEF DaemonStep, Crash, OpenPidFile, WritePidFile, WritePort, Serve, StartupError,
                      RemovePort, RemoveSocket, RemovePidFile, Become, stateFiles
  <2> QED  BY <1>1, <2>1, <2>2, <2>3, <2>4, <2>5 DEF HasClaimed, Leaving
<1>5. CASE UNCHANGED vars
  BY <1>5 DEF vars, PidsKnown, HasClaimed
<1> QED  BY <1>2, <1>3, <1>4, <1>5 DEF Next

\* Every step keeps the locks, and where no commands overlap the files.
LEMMA ServiceNextIInv ==
  ASSUME ServiceIInv, PidsKnown, [Next]_vars
  PROVE  ServiceIInv'
<1>1. ASSUME NEW c \in Commands, CommandStep(c)
      PROVE  ServiceIInv'
  BY <1>1, LookIInv, ActIInv, SignalIInv DEF CommandStep
<1>2. ASSUME NEW d \in Daemons, RemovePidFile(d) \/ Crash(d)
      PROVE  ServiceIInv'
  <2>1. Alive(d) /\ Killed(d) /\ path' \in {0, path}
        /\ UNCHANGED <<content, sock, port, forked, commands>>
    BY <1>2 DEF RemovePidFile, Crash, Alive, Daemons
  <2> QED  BY <2>1, DeathIInv
<1>3. ASSUME NEW d \in Daemons, DaemonStep(d)
      PROVE  ServiceIInv'
  BY <1>2, <1>3, StartingIInv, LeavingIInv DEF DaemonStep
<1>4. CASE UNCHANGED vars
  BY <1>4 DEF vars, ServiceIInv, DaemonTypeOK, Locks, NotForked, InTurn, OneAtWork, OneAlive,
              CommandFits, FilesFit, Claimed, Alive
<1> QED  BY <1>1, <1>2, <1>3, <1>4, BeginIInv DEF Next

\* One daemon at a time where no commands overlap, found by all who look for it; and never
\* two of one PID file.
THEOREM DaemonCorrect == Spec => []DaemonInv
<1>1. Init => ServiceIInv /\ PidsKnown
  <2> SUFFICES ASSUME Init PROVE ServiceIInv /\ PidsKnown
    OBVIOUS
  <2>1. DaemonTypeOK
    <3>1. 0 \in OrNone
      BY DaemonBound DEF OrNone
    <3> QED  BY <3>1 DEF Init, DaemonTypeOK, DaemonStates, CommandStates
  <2>2. \A d \in Daemons : ~Alive(d)
    BY DEF Init, Alive
  <2> QED
    BY <2>1, <2>2 DEF Init, ServiceIInv, Locks, NotForked, InTurn, OneAtWork, OneAlive, CommandFits,
                      FilesFit, Claimed, PidsKnown, HasClaimed
<1>2. ServiceIInv /\ PidsKnown /\ [Next]_vars => (ServiceIInv /\ PidsKnown)'
  BY ServiceNextIInv, PidsStayKnown
<1>3. ServiceIInv => DaemonInv
  <2> SUFFICES ASSUME ServiceIInv PROVE DaemonInv
    OBVIOUS
  <2>t. DaemonTypeOK /\ Locks
    BY DEF ServiceIInv
  <2>1. OneDaemonInTurn
    <3>1. CASE InTurn
      <4>1. \A d, e \in Claimed : d = e
        BY <3>1 DEF InTurn, OneAlive, Claimed
      <4>2. CASE Claimed = {}
        BY <4>2, FS_EmptySet DEF OneDaemonInTurn, OneDaemon
      <4>3. CASE Claimed # {}
        <5>1. PICK d \in Claimed : TRUE
          BY <4>3
        <5>2. Claimed = {d}
          BY <4>1, <5>1
        <5> QED  BY <5>2, FS_Singleton DEF OneDaemonInTurn, OneDaemon
      <4> QED  BY <4>2, <4>3
    <3> QED  BY <3>1 DEF ServiceIInv, OneDaemonInTurn
  <2>2. ServingIsFound
    <3> SUFFICES ASSUME NEW d \in Daemons, daemon[d] = "serving", ~overlapped
                 PROVE  Status = d /\ Url = d /\ Reached = d
      BY DEF ServingIsFound
    <3>1. InTurn /\ Alive(d) /\ d # 0
      BY DEF ServiceIInv, Alive, Daemons
    <3>2. ReadPid = d /\ DaemonRunning
      BY <2>t, <3>1, WhoServes
    <3>3. port = d /\ sock = d
      BY <3>1 DEF InTurn, FilesFit
    <3> QED  BY <3>1, <3>2, <3>3 DEF Status, Url, Reached
  <2>3. ReportedIsServed
    <3> SUFFICES ASSUME DaemonRunning, port # 0, ~overlapped
                 PROVE  ReadPid = port
      BY DEF ReportedIsServed
    <3>1. Alive(ReadPid) /\ ReadPid \in Daemons
      BY <2>t DEF DaemonRunning, ReadPid, Alive, DaemonTypeOK, OrNone, Daemons
    <3> QED  BY <3>1 DEF ServiceIInv, InTurn, FilesFit
  <2>4. OnePerPidFile
    BY <2>t DEF OnePerPidFile, Locks
  <2> QED  BY <2>t, <2>1, <2>2, <2>3, <2>4 DEF DaemonInv
<1> QED  BY <1>1, <1>2, <1>3, PTL DEF Spec

-----------------------------------------------------------------------------
(* The memories of an entity. *)

Memories == [tier : Tiers, title : Titles, nth : Nat \ {0}, seen : 0 .. MaxDay]
FileNames == [tier : Tiers, title : Titles, nth : Nat \ {0}]
Answerable == [key : Upper, tier : Tiers, title : Titles, seen : 0 .. MaxDay]
Cycles ==
  [pc : {"off", "done", "crashed", "asked", "merging", "writing", "decaying", "demoting", "unlinking"},
   read : SUBSET Titles, journals : SUBSET FileNames, todo : Seq(Answerable),
   key : Upper \union {"none"}, old : SUBSET FileNames, keep : SUBSET Titles,
   filed : SUBSET Titles, demote : SUBSET FileNames,
   events : SUBSET [title : Titles, from : Tiers,
                    action : {"expired", "salience_reduced", "demoted"}]]

\* The files of an entity: finitely many, no two with one name.
FileSet(fs) == fs \subseteq Memories /\ IsFiniteSet(fs) /\ \A f, g \in fs : Path(f) = Path(g) => f = g
FileNamesOf(fs) == {Path(f) : f \in fs}

MemoryTypes ==
  /\ FileSet(files) /\ snapshot \subseteq [tier : Upper, title : Titles]
  /\ day \in 0 .. MaxDay /\ cycles \in 0 .. MaxCycles /\ crashes \in 0 .. MaxCrashes
  /\ cycle \in Cycles /\ IsFiniteSet(cycle.old)

\* What the names of the files say.
UpperTitles(names) == {p.title : p \in {q \in names : q.tier \in Upper}}
JournalTitles(names) == {p.title : p \in {q \in names : q.tier = "journal"}}
CoreNames(names) == {p \in names : p.tier = "core"}
ExpiredFrom(events, tier) ==
  {e.title : e \in {x \in events : x.from = tier /\ x.action = "expired"}}
SnapshotTitles == {s.title : s \in snapshot}

Merging == {"merging", "writing", "decaying"}
Ending == {"demoting", "unlinking", "done"}

\* What was read of the upper tiers is there, but for the one memory that is being written
\* again, what the answer files as a journal and what expired; and in the snapshot, from the
\* first deletion on.
ReadFits(names) ==
  /\ cycle.pc = "off" => cycle.read = {}
  /\ cycle.pc = "asked" => cycle.read \subseteq UpperTitles(names)
  /\ cycle.pc \in {"merging", "decaying"} => cycle.read \subseteq UpperTitles(names) \union cycle.filed
  /\ cycle.pc = "writing" =>
       /\ cycle.todo # <<>>
       /\ cycle.read \subseteq UpperTitles(names) \union cycle.filed \union {Head(cycle.todo).title}
  /\ cycle.pc \in Ending =>
       cycle.read \subseteq UpperTitles(names) \union ExpiredFrom(cycle.events, "consolidated")
                           \union cycle.filed
  /\ cycle.pc \in Merging \union (Ending \ {"done"}) => cycle.read \subseteq SnapshotTitles
  /\ cycle.pc \in {"done", "crashed"} => cycle.read \subseteq UpperTitles(names) \union SnapshotTitles

\* The journals that are to be kept and those the answer files are there, but for what
\* expired; what it files has another name than the journals that were read.
KeepFits(names) ==
  /\ cycle.pc = "asked" => cycle.keep = {} /\ cycle.old = {} /\ cycle.filed = {}
  /\ cycle.pc \in {"asked", "merging", "writing"} =>
       cycle.journals \subseteq names /\ \A p \in cycle.journals : p.tier = "journal"
  /\ cycle.pc \in {"merging", "writing"} =>
       /\ \A o \in cycle.old : o.tier \in Upper
       /\ cycle.filed \subseteq JournalTitles(names \ cycle.journals)
  /\ cycle.pc \in Merging => cycle.keep \subseteq JournalTitles(names)
  /\ cycle.pc = "decaying" => cycle.filed \subseteq JournalTitles(names)
  /\ cycle.pc \in Ending =>
       cycle.keep \union cycle.filed
         \subseteq JournalTitles(names) \union ExpiredFrom(cycle.events, "journal")

\* What is not to be demoted of the core is within the budget; what is being demoted has
\* its copy.
CoreFits(names) ==
  /\ cycle.pc \in Ending => Cardinality(CoreNames(names) \ cycle.demote) <= CoreBudget
  /\ cycle.pc = "done" => cycle.demote = {}
  /\ cycle.pc \in Ending => \A p \in cycle.demote : p.tier = "core"
  /\ cycle.pc = "unlinking" =>
       \E p \in cycle.demote : /\ cycle.old = {p}
                               /\ \E q \in names : q.tier = "consolidated" /\ q.title = p.title

MemIInv ==
  /\ MemoryTypes
  /\ ReadFits(FileNamesOf(files)) /\ KeepFits(FileNamesOf(files)) /\ CoreFits(FileNamesOf(files))

\* The values a function takes on a finite set are finitely many.
LEMMA FiniteImage ==
  ASSUME NEW S, IsFiniteSet(S), NEW g, g = [x \in S |-> g[x]]
  PROVE  /\ IsFiniteSet({g[x] : x \in S})
         /\ Cardinality({g[x] : x \in S}) <= Cardinality(S)
<1> DEFINE R == {g[x] : x \in S}
<1>1. g \in [S -> R] /\ \A r \in R : \E x \in S : g[x] = r
  OBVIOUS
<1> HIDE DEF R
<1>2. g \in Surjection(S, R)
  BY <1>1 DEF Surjection
<1>3. IsFiniteSet(R) /\ Cardinality(R) <= Cardinality(S)
  BY <1>2, FS_Surjection
<1> QED  BY <1>3 DEF R

\* A finite set of numbers has a greatest.
LEMMA MaxIs ==
  ASSUME NEW S \in SUBSET Nat, IsFiniteSet(S), S # {}
  PROVE  Max(S) \in S /\ \A y \in S : Max(S) >= y
<1> DEFINE Over(x) == {y \in S : y > x}
           T == {Over(x) : x \in S}
<1>1. T \subseteq FiniteSubsetsOf(S) /\ T # {}
  <2>1. \A x \in S : Over(x) \subseteq S /\ IsFiniteSet(Over(x))
    BY FS_Subset
  <2>2. \A x \in S : Over(x) \in FiniteSubsetsOf(S)
    BY <2>1 DEF FiniteSubsetsOf
  <2> HIDE DEF Over
  <2> QED  BY <2>2
<1>2. PICK A \in T : \A B \in T : ~ <<B, A>> \in StrictSubsetOrdering(S)
  <2>1. IsWellFoundedOn(StrictSubsetOrdering(S), FiniteSubsetsOf(S))
    BY FS_StrictSubsetOrderingWellFounded
  <2> HIDE DEF T
  <2> QED  BY <1>1, <2>1, WFMin
<1>3. PICK x \in S : A = Over(x)
  BY <1>2
<1>4. ASSUME NEW y \in S, y > x PROVE FALSE
  <2>1. Over(y) \subseteq Over(x) /\ y \in Over(x) /\ y \notin Over(y)
    <3>1. \A z \in S : z > y => z > x
      BY <1>4
    <3>2. ~ y > y
      OBVIOUS
    <3> QED  BY <1>4, <3>1, <3>2 DEF Over
  <2>2. <<Over(y), Over(x)>> \in StrictSubsetOrdering(S)
    <3>1. Over(x) \in SUBSET S /\ Over(y) \in SUBSET S /\ Over(x) # Over(y)
      BY <2>1
    <3> HIDE DEF Over
    <3> QED  BY <2>1, <3>1 DEF StrictSubsetOrdering
  <2> QED  BY <1>2, <1>3, <2>2
<1>5. \A y \in S : x >= y
  BY <1>4
<1> QED  BY <1>5 DEF Max

\* A file more, and files fewer.
LEMMA AddFile ==
  ASSUME NEW fs, FileSet(fs), NEW f \in Memories, Path(f) \notin FileNamesOf(fs)
  PROVE  FileSet(fs \union {f}) /\ FileNamesOf(fs \union {f}) = FileNamesOf(fs) \union {Path(f)}
<1>1. IsFiniteSet(fs \union {f})
  BY FS_AddElement DEF FileSet
<1>2. \A g \in fs : Path(g) # Path(f)
  BY DEF FileNamesOf
<1> QED  BY <1>1, <1>2 DEF FileSet, FileNamesOf

LEMMA FewerFiles ==
  ASSUME NEW fs, FileSet(fs), NEW gs \in SUBSET fs
  PROVE  FileSet(gs) /\ FileNamesOf(gs) \subseteq FileNamesOf(fs)
BY FS_Subset DEF FileSet, FileNamesOf

LEMMA RemoveNames ==
  ASSUME NEW fs, FileSet(fs), NEW X
  PROVE  /\ FileSet({f \in fs : Path(f) \notin X})
         /\ FileNamesOf({f \in fs : Path(f) \notin X}) = FileNamesOf(fs) \ X
<1>1. FileSet({f \in fs : Path(f) \notin X})
  BY FewerFiles
<1> QED  BY <1>1 DEF FileNamesOf

\* The name of a memory.
LEMMA PathIs ==
  ASSUME NEW f \in Memories
  PROVE  Path(f) \in FileNames /\ Path(f).tier = f.tier /\ Path(f).title = f.title
BY DEF Path, Memories, FileNames

LEMMA NamesAre ==
  ASSUME NEW fs, FileSet(fs)
  PROVE  /\ FileNamesOf(fs) \subseteq FileNames /\ IsFiniteSet(FileNamesOf(fs))
         /\ TitlesOf(UpperFiles(fs)) = UpperTitles(FileNamesOf(fs))
<1>1. FileNamesOf(fs) \subseteq FileNames
  BY PathIs DEF FileNamesOf, FileSet
<1>2. IsFiniteSet(FileNamesOf(fs))
  <2> DEFINE name == [f \in fs |-> Path(f)]
  <2>1. IsFiniteSet({name[f] : f \in fs})
    <3>1. name = [f \in fs |-> name[f]] /\ IsFiniteSet(fs)
      BY DEF FileSet
    <3> HIDE DEF name
    <3> QED  BY <3>1, FiniteImage
  <2> QED  BY <2>1 DEF FileNamesOf
<1>3. TitlesOf(UpperFiles(fs)) = UpperTitles(FileNamesOf(fs))
  BY PathIs DEF TitlesOf, UpperFiles, UpperTitles, FileNamesOf, FileSet
<1> QED  BY <1>1, <1>2, <1>3

\* A memory is written to a name that no file has.
LEMMA WriteMemoryIs ==
  ASSUME cycle.old \subseteq FileNames, IsFiniteSet(cycle.old),
         NEW fs, FileSet(fs), NEW tier \in Tiers, NEW title \in Titles, NEW seen
  PROVE  \E n \in Nat \ {0} :
           /\ WriteMemory(fs, tier, title, seen)
                = fs \union {[tier |-> tier, title |-> title, nth |-> n, seen |-> seen]}
           /\ [tier |-> tier, title |-> title, nth |-> n] \notin FileNamesOf(fs)
<1> DEFINE known == FileNamesOf(fs) \union cycle.old
           alike == {p \in known : p.tier = tier /\ p.title = title}
           same == {p.nth : p \in alike}
           n == 1 + Max({0} \union same)
<1>1. IsFiniteSet(known) /\ known \subseteq FileNames
  <2>1. FileNamesOf(fs) \subseteq FileNames /\ IsFiniteSet(FileNamesOf(fs))
    BY NamesAre
  <2> QED  BY <2>1, FS_Union
<1>2. same \subseteq Nat
  <2>1. \A p \in FileNames : p.nth \in Nat
    BY DEF FileNames
  <2> HIDE DEF known
  <2> QED  BY <1>1, <2>1
<1>3. IsFiniteSet({0} \union same)
  <2>1. IsFiniteSet(alike)
    <3> HIDE DEF known
    <3> QED  BY <1>1, FS_Subset
  <2> HIDE DEF alike
  <2>2. IsFiniteSet(same)
    <3> DEFINE nths == [p \in alike |-> p.nth]
    <3>1. IsFiniteSet({nths[p] : p \in alike})
      <4>1. nths = [p \in alike |-> nths[p]]
        OBVIOUS
      <4> HIDE DEF nths
      <4> QED  BY <2>1, <4>1, FiniteImage
    <3> QED  BY <3>1
  <2>3. IsFiniteSet({0})
    BY FS_Singleton
  <2> QED  BY <2>2, <2>3, FS_Union
<1>4. Max({0} \union same) \in Nat /\ \A y \in {0} \union same : Max({0} \union same) >= y
  <2> HIDE DEF same
  <2>1. {0} \union same \in SUBSET Nat /\ {0} \union same # {}
    BY <1>2
  <2> QED  BY <1>3, <2>1, MaxIs
<1>5. n \in Nat \ {0} /\ n \notin same
  <2> HIDE DEF same
  <2> QED  BY <1>2, <1>4
<1>6. [tier |-> tier, title |-> title, nth |-> n] \notin FileNamesOf(fs)
  <2> SUFFICES ASSUME [tier |-> tier, title |-> title, nth |-> n] \in known PROVE FALSE
    OBVIOUS
  <2> DEFINE p == [tier |-> tier, title |-> title, nth |-> n]
  <2>1. p \in known /\ p.tier = tier /\ p.title = title /\ p.nth = n
    OBVIOUS
  <2> HIDE DEF p, n, known
  <2>2. n \in same
    BY <2>1
  <2> QED  BY <1>5, <2>2
<1>7. WriteMemory(fs, tier, title, seen)
        = fs \union {[tier |-> tier, title |-> title, nth |-> n, seen |-> seen]}
  BY DEF WriteMemory, FileNamesOf
<1> HIDE DEF n
<1> QED  BY <1>5, <1>6, <1>7

\* As many files as names.
LEMMA AsManyNames ==
  ASSUME NEW fs, FileSet(fs)
  PROVE  Cardinality(FileNamesOf(fs)) = Cardinality(fs)
<1> DEFINE name == [f \in fs |-> Path(f)]
<1>1. name \in Bijection(fs, FileNamesOf(fs))
  <2>1. name \in [fs -> FileNamesOf(fs)]
    BY DEF FileNamesOf
  <2>2. \A f, g \in fs : name[f] = name[g] => f = g
    BY DEF FileSet
  <2>3. \A p \in FileNamesOf(fs) : \E f \in fs : name[f] = p
    BY DEF FileNamesOf
  <2> HIDE DEF name
  <2> QED  BY <2>1, <2>2, <2>3 DEF Bijection, Injection, Surjection, IsInjective
<1>2. ExistsBijection(fs, FileNamesOf(fs))
  BY <1>1 DEF ExistsBijection
<1> QED  BY <1>2, FS_Bijection DEF FileSet

\* The greater of nothing and a number.
LEMMA MaxOfTwo ==
  ASSUME NEW x \in Int
  PROVE  Max({0, x}) \in Nat /\ Max({0, x}) >= x
<1>1. \E m \in {0, x} : \A y \in {0, x} : m >= y
  <2>1. CASE x >= 0
    BY <2>1
  <2>2. CASE ~ x >= 0
    BY <2>2
  <2> QED  BY <2>1, <2>2
<1>2. Max({0, x}) \in {0, x} /\ \A y \in {0, x} : Max({0, x}) >= y
  BY <1>1 DEF Max
<1> QED  BY <1>2

\* What a name more adds to the titles, and what names fewer leave of them.
LEMMA UpperOfMore ==
  ASSUME NEW names, NEW p
  PROVE  /\ p.tier \in Upper => UpperTitles(names \union {p}) = UpperTitles(names) \union {p.title}
         /\ p.tier \notin Upper => UpperTitles(names \union {p}) = UpperTitles(names)
         /\ JournalTitles(names) \subseteq JournalTitles(names \union {p})
         /\ p.tier # "core" => CoreNames(names \union {p}) = CoreNames(names)
BY DEF UpperTitles, JournalTitles, CoreNames

LEMMA TitlesOfMore ==
  ASSUME NEW names, NEW more, names \subseteq more
  PROVE  UpperTitles(names) \subseteq UpperTitles(more) /\ JournalTitles(names) \subseteq JournalTitles(more)
BY DEF UpperTitles, JournalTitles

\* What the model answers is a sequence of entries.
LEMMA AnswersAre ==
  ASSUME day \in 0 .. MaxDay, NEW a \in Answers
  PROVE  a \in Seq(Answerable)
<1>1. PICK n \in 0 .. MaxAnswer : a \in [1 .. n -> AnswerEntries]
  BY DEF Answers
<1>2. AnswerEntries \subseteq Answerable
  BY MemoryBounds DEF AnswerEntries, Answerable
<1>3. n \in Nat /\ a \in [1 .. n -> Answerable]
  BY <1>1, <1>2
<1> QED  BY <1>3

\* Between two cycles there is nothing to write, to keep or to demote.
LEMMA NoCycleIs ==
  /\ NoCycle \in Cycles /\ NoCycle.pc = "off"
  /\ NoCycle.read = {} /\ NoCycle.journals = {} /\ NoCycle.keep = {} /\ NoCycle.old = {}
  /\ NoCycle.demote = {} /\ NoCycle.events = {} /\ NoCycle.filed = {} /\ IsFiniteSet(NoCycle.old)
BY FS_EmptySet DEF NoCycle, Cycles

\* The question fails, and the session's journals stay.
LEMMA AskFailsIInv ==
  ASSUME MemIInv, AskFails PROVE MemIInv'
<1>1. cycle' = NoCycle /\ UNCHANGED <<files, snapshot, day, cycles, crashes>>
  BY DEF AskFails
<1>2. MemoryTypes'
  BY <1>1, NoCycleIs DEF MemIInv, MemoryTypes, FileSet, Path
<1>3. ReadFits(FileNamesOf(files))' /\ KeepFits(FileNamesOf(files))' /\ CoreFits(FileNamesOf(files))'
  BY <1>1 DEF ReadFits, KeepFits, CoreFits, NoCycle, Merging, Ending
<1> QED  BY <1>2, <1>3 DEF MemIInv

\* The model's answer: the snapshot is taken before it is merged.
LEMMA AnsweredIInv ==
  ASSUME MemIInv, Answered PROVE MemIInv'
<1>1. PICK a \in Answers, keep \in SUBSET {j.title : j \in cycle.journals} :
        cycle' = [cycle EXCEPT !.pc = "merging", !.todo = a, !.keep = keep]
  BY DEF Answered
<1>2. cycle.pc = "asked" /\ UNCHANGED <<files, day, cycles, crashes>>
      /\ snapshot' = {[tier |-> f.tier, title |-> f.title] : f \in UpperFiles(files)}
  BY DEF Answered, SnapshotTiers
<1>3. cycle \in Cycles /\ FileSet(files) /\ day \in 0 .. MaxDay
  BY DEF MemIInv, MemoryTypes
<1>4. a \in Seq(Answerable)
  BY <1>3, AnswersAre
<1> DEFINE names == FileNamesOf(files)
<1>5. names \subseteq FileNames
  BY <1>3, NamesAre
<1>6. keep \subseteq JournalTitles(names) /\ keep \subseteq Titles
  <2>1. cycle.journals \subseteq names /\ \A p \in cycle.journals : p.tier = "journal"
    BY <1>2 DEF MemIInv, KeepFits
  <2> HIDE DEF names
  <2> QED  BY <1>1, <1>5, <2>1 DEF JournalTitles, FileNames
<1>7. /\ cycle'.pc = "merging" /\ cycle'.todo = a /\ cycle'.keep = keep
      /\ cycle'.read = cycle.read /\ cycle'.old = cycle.old /\ cycle'.journals = cycle.journals
      /\ cycle'.demote = cycle.demote /\ cycle'.events = cycle.events /\ cycle' \in Cycles
      /\ cycle'.filed = cycle.filed
  BY <1>1, <1>3, <1>4, <1>6 DEF Cycles
<1>8. snapshot' \subseteq [tier : Upper, title : Titles]
  BY <1>2, <1>3 DEF UpperFiles, FileSet, Memories
<1>9. MemoryTypes'
  BY <1>2, <1>7, <1>8 DEF MemIInv, MemoryTypes, FileSet, Path
<1>10. SnapshotTitles' = UpperTitles(names)
  <2>1. SnapshotTitles' = {f.title : f \in UpperFiles(files)}
    <3> DEFINE up == UpperFiles(files)
               shot == {[tier |-> f.tier, title |-> f.title] : f \in up}
    <3>1. SnapshotTitles' = {s.title : s \in shot}
      BY <1>2 DEF SnapshotTitles
    <3> HIDE DEF up
    <3>2. \A f \in up : \E s \in shot : s.title = f.title
      <4> SUFFICES ASSUME NEW f \in up PROVE \E s \in shot : s.title = f.title
        OBVIOUS
      <4>1. [tier |-> f.tier, title |-> f.title] \in shot
        OBVIOUS
      <4> HIDE DEF shot
      <4> QED  BY <4>1
    <3>3. \A s \in shot : \E f \in up : s.title = f.title
      OBVIOUS
    <3> HIDE DEF shot
    <3> QED  BY <3>1, <3>2, <3>3 DEF up
  <2>2. {f.title : f \in UpperFiles(files)} = UpperTitles(names)
    BY <1>3, NamesAre DEF TitlesOf
  <2> QED  BY <2>1, <2>2
<1>11. cycle.read \subseteq UpperTitles(names) /\ names' = names
  BY <1>2 DEF MemIInv, ReadFits
<1>12. ReadFits(names)'
  <2> HIDE DEF names
  <2> QED  BY <1>7, <1>10, <1>11 DEF ReadFits, Merging, Ending
<1>13. KeepFits(names)'
  <2>1. /\ cycle.old = {} /\ cycle.filed = {} /\ cycle.journals \subseteq names
        /\ \A p \in cycle.journals : p.tier = "journal"
    BY <1>2 DEF MemIInv, KeepFits
  <2> HIDE DEF names
  <2> QED  BY <1>6, <1>7, <1>11, <2>1 DEF KeepFits, Merging, Ending
<1>14. CoreFits(names)'
  BY <1>7 DEF CoreFits, Ending
<1> QED  BY <1>9, <1>12, <1>13, <1>14 DEF MemIInv

\* A tier is read before its first entry is merged.
LEMMA LoadTierIInv ==
  ASSUME MemIInv, LoadTier PROVE MemIInv'
<1> DEFINE e == Head(cycle.todo)
           old == ByTitle(TierFiles(e.key))
<1>1. /\ cycle.pc = "merging" /\ cycle.todo # <<>> /\ UNCHANGED <<files, snapshot, day, cycles, crashes>>
      /\ cycle' = [cycle EXCEPT !.key = e.key, !.old = old]
  BY DEF LoadTier
<1>2. cycle \in Cycles /\ FileSet(files)
  BY DEF MemIInv, MemoryTypes
<1>3. e \in Answerable
  BY <1>1, <1>2 DEF Cycles
<1>4. old \subseteq FileNames /\ \A o \in old : o.tier \in Upper
  <2>1. \A f \in files : Path(f) \in FileNames /\ Path(f).tier = f.tier
    BY <1>2, PathIs DEF FileSet
  <2>2. e.key \in Upper
    BY <1>3 DEF Answerable
  <2> HIDE DEF e
  <2> QED  BY <2>1, <2>2 DEF ByTitle, TierFiles
<1>5. /\ cycle' \in Cycles /\ cycle'.pc = "merging" /\ cycle'.old = old /\ cycle'.read = cycle.read
      /\ cycle'.keep = cycle.keep /\ cycle'.journals = cycle.journals /\ cycle'.filed = cycle.filed
  <2>1. e.key \in Upper
    BY <1>3 DEF Answerable
  <2> HIDE DEF e, old
  <2> QED  BY <1>1, <1>2, <1>4, <2>1 DEF Cycles
<1>6. MemoryTypes'
  <2>1. IsFiniteSet(old)
    <3>1. old \subseteq FileNamesOf(files)
      BY DEF ByTitle, TierFiles, FileNamesOf
    <3>2. IsFiniteSet(FileNamesOf(files))
      BY <1>2, NamesAre
    <3> QED  BY <3>1, <3>2, FS_Subset
  <2> HIDE DEF old
  <2> QED  BY <1>1, <1>5, <2>1 DEF MemIInv, MemoryTypes, FileSet, Path
<1> DEFINE names == FileNamesOf(files)
<1>7. names' = names /\ SnapshotTitles' = SnapshotTitles
  BY <1>1 DEF SnapshotTitles
<1>8. ReadFits(names) /\ KeepFits(names)
  BY DEF MemIInv
<1> HIDE DEF names, old
<1>9. ReadFits(names)'
  BY <1>1, <1>5, <1>7, <1>8 DEF ReadFits, Merging, Ending
<1>10. KeepFits(names)'
  BY <1>1, <1>4, <1>5, <1>7, <1>8 DEF KeepFits, Merging, Ending
<1>11. CoreFits(names)'
  BY <1>5 DEF CoreFits, Ending
<1> QED  BY <1>6, <1>9, <1>10, <1>11 DEF MemIInv, names

\* An entry's old file goes: its title is the one that is being written again.
LEMMA UnlinkOldIInv ==
  ASSUME MemIInv, UnlinkOld PROVE MemIInv'
<1> DEFINE e == Head(cycle.todo)
           old == {o \in cycle.old : o.title = e.title}
           names == FileNamesOf(files)
<1>1. PICK b \in {"writing", "crashed"} : cycle' = [cycle EXCEPT !.pc = b]
  BY DEF UnlinkOld
<1>2. /\ cycle.pc = "merging" /\ cycle.todo # <<>> /\ UNCHANGED <<snapshot, day, cycles, crashes>>
      /\ files' = {f \in files : Path(f) \notin old}
  BY DEF UnlinkOld
<1>3. cycle \in Cycles /\ FileSet(files)
  BY DEF MemIInv, MemoryTypes
<1>4. /\ cycle' \in Cycles /\ cycle'.pc = b /\ cycle'.old = cycle.old /\ cycle'.read = cycle.read
      /\ cycle'.keep = cycle.keep /\ cycle'.journals = cycle.journals /\ cycle'.todo = cycle.todo
      /\ cycle'.filed = cycle.filed
  BY <1>1, <1>3 DEF Cycles
<1>5. FileSet(files') /\ FileNamesOf(files') = names \ old
  <2> HIDE DEF old
  <2> QED  BY <1>2, <1>3, RemoveNames
<1>6. MemoryTypes'
  BY <1>2, <1>4, <1>5 DEF MemIInv, MemoryTypes, FileSet, Path
<1>7. names' = names \ old /\ SnapshotTitles' = SnapshotTitles
  BY <1>2, <1>5 DEF SnapshotTitles
<1>8. ReadFits(names) /\ KeepFits(names)
  BY DEF MemIInv
<1> HIDE DEF names
<1>9. \A o \in old : o.tier \in Upper /\ o.title = e.title
  BY <1>2, <1>8 DEF KeepFits
<1> HIDE DEF old, e
<1>10. UpperTitles(names) \subseteq UpperTitles(names \ old) \union {e.title}
  BY <1>9 DEF UpperTitles
<1>11. /\ JournalTitles(names \ old) = JournalTitles(names)
       /\ JournalTitles((names \ old) \ cycle.journals) = JournalTitles(names \ cycle.journals)
  BY <1>9 DEF JournalTitles, Upper
<1>15. cycle.journals \subseteq names \ old
  <2>1. cycle.journals \subseteq names /\ \A p \in cycle.journals : p.tier = "journal"
    BY <1>2, <1>8 DEF KeepFits
  <2> QED  BY <1>9, <2>1 DEF Upper
<1>12. ReadFits(names)'
  <2>1. /\ cycle.read \subseteq UpperTitles(names) \union cycle.filed
        /\ cycle.read \subseteq SnapshotTitles
    BY <1>2, <1>8 DEF ReadFits, Merging
  <2>2. cycle.read \subseteq UpperTitles(names \ old) \union cycle.filed \union {e.title}
    BY <1>10, <2>1
  <2> QED  BY <1>2, <1>4, <1>7, <2>1, <2>2 DEF ReadFits, Merging, Ending, e
<1>13. KeepFits(names)'
  BY <1>2, <1>4, <1>7, <1>8, <1>11, <1>15 DEF KeepFits, Merging, Ending
<1>14. CoreFits(names)'
  BY <1>4 DEF CoreFits, Ending
<1> QED  BY <1>6, <1>12, <1>13, <1>14 DEF MemIInv, names

\* The entry is written: its title is in an upper tier again, or filed as a journal.
LEMMA WriteEntryIInv ==
  ASSUME MemIInv, WriteEntry PROVE MemIInv'
<1> DEFINE e == Head(cycle.todo)
           names == FileNamesOf(files)
<1>1. /\ cycle.pc = "writing" /\ UNCHANGED <<snapshot, day, cycles, crashes>>
      /\ files' = WriteMemory(files, e.tier, e.title, e.seen)
      /\ cycle' = [cycle EXCEPT !.pc = "merging", !.todo = Tail(@),
                      !.filed = IF e.tier = "journal" THEN @ \union {e.title} ELSE @]
  BY DEF WriteEntry
<1>2. cycle \in Cycles /\ FileSet(files) /\ cycle.todo # <<>>
  BY <1>1 DEF MemIInv, MemoryTypes, ReadFits
<1>3. e \in Answerable /\ Tail(cycle.todo) \in Seq(Answerable)
  BY <1>2 DEF Cycles
<1>4. e.title \in Titles /\ e.seen \in 0 .. MaxDay /\ e.tier \in Tiers
  BY <1>3 DEF Answerable
<1> DEFINE filed == IF e.tier = "journal" THEN cycle.filed \union {e.title} ELSE cycle.filed
<1>5. /\ cycle' \in Cycles /\ cycle'.pc = "merging" /\ cycle'.old = cycle.old /\ cycle'.read = cycle.read
      /\ cycle'.keep = cycle.keep /\ cycle'.journals = cycle.journals /\ cycle'.filed = filed
  <2>1. filed \subseteq Titles
    BY <1>2, <1>4 DEF Cycles
  <2>2. cycle' = [cycle EXCEPT !.pc = "merging", !.todo = Tail(cycle.todo), !.filed = filed]
    BY <1>1
  <2> HIDE DEF e, filed
  <2> QED  BY <1>2, <1>3, <2>1, <2>2 DEF Cycles
<1>6. PICK n \in Nat \ {0} :
        /\ files' = files \union {[tier |-> e.tier, title |-> e.title, nth |-> n, seen |-> e.seen]}
        /\ [tier |-> e.tier, title |-> e.title, nth |-> n] \notin names
  <2>1. cycle.old \subseteq FileNames /\ IsFiniteSet(cycle.old)
    BY DEF MemIInv, MemoryTypes, Cycles
  <2> HIDE DEF e
  <2> QED  BY <1>1, <1>2, <1>4, <2>1, WriteMemoryIs
<1> DEFINE f == [tier |-> e.tier, title |-> e.title, nth |-> n, seen |-> e.seen]
           p == [tier |-> e.tier, title |-> e.title, nth |-> n]
<1>7. f \in Memories /\ Path(f) = p
  <2> HIDE DEF e
  <2> QED  BY <1>4 DEF Memories, Path
<1>8. FileSet(files') /\ FileNamesOf(files') = names \union {p}
  <2> HIDE DEF f, p
  <2> QED  BY <1>2, <1>6, <1>7, AddFile DEF f, p
<1>9. MemoryTypes'
  BY <1>1, <1>5, <1>8 DEF MemIInv, MemoryTypes, FileSet, Path
<1>10. names' = names \union {p} /\ SnapshotTitles' = SnapshotTitles
  BY <1>1, <1>8 DEF SnapshotTitles
<1>11. ReadFits(names) /\ KeepFits(names)
  BY DEF MemIInv
<1>12. p.tier = e.tier /\ p.title = e.title /\ p \notin names
  BY <1>6
<1> HIDE DEF names, p
<1>13. /\ UpperTitles(names) \union filed \union {e.title} = UpperTitles(names \union {p}) \union filed
       /\ cycle.filed \subseteq filed
       /\ JournalTitles(names) \subseteq JournalTitles(names \union {p})
  <2>1. CASE e.tier = "journal"
    BY <1>12, <2>1, UpperOfMore DEF Upper
  <2>2. CASE e.tier # "journal"
    <3>1. e.tier \in Upper
      BY <1>4, <2>2 DEF Tiers, Upper
    <3>2. /\ UpperTitles(names \union {p}) = UpperTitles(names) \union {e.title}
          /\ JournalTitles(names) \subseteq JournalTitles(names \union {p})
      BY <1>12, <3>1, UpperOfMore
    <3>3. filed = cycle.filed
      BY <2>2
    <3> HIDE DEF filed, e
    <3> QED  BY <3>2, <3>3
  <2> QED  BY <2>1, <2>2
<1>14. /\ cycle.journals \subseteq names /\ cycle.filed \subseteq JournalTitles(names \ cycle.journals)
       /\ \A q \in cycle.journals : q.tier = "journal"
  BY <1>1, <1>11 DEF KeepFits
<1>17. filed \subseteq JournalTitles((names \union {p}) \ cycle.journals)
  <2>1. p \notin cycle.journals
    BY <1>12, <1>14
  <2>2. JournalTitles(names \ cycle.journals) \subseteq JournalTitles((names \union {p}) \ cycle.journals)
    BY DEF JournalTitles
  <2>3. e.tier = "journal" => e.title \in JournalTitles((names \union {p}) \ cycle.journals)
    BY <1>12, <2>1 DEF JournalTitles
  <2> QED  BY <1>14, <2>2, <2>3
<1>18. ReadFits(names)'
  <2>1. /\ cycle.read \subseteq UpperTitles(names) \union cycle.filed \union {e.title}
        /\ cycle.read \subseteq SnapshotTitles
    BY <1>1, <1>11 DEF ReadFits, Merging
  <2> HIDE DEF filed, e
  <2>2. cycle.read \subseteq UpperTitles(names \union {p}) \union filed
    BY <1>13, <2>1
  <2> QED  BY <1>5, <1>10, <2>1, <2>2 DEF ReadFits, Merging, Ending
<1>15. KeepFits(names)'
  <2>1. /\ cycle.keep \subseteq JournalTitles(names) /\ \A o \in cycle.old : o.tier \in Upper
    BY <1>1, <1>11 DEF KeepFits, Merging
  <2>2. cycle.journals \subseteq names \union {p} /\ cycle.keep \subseteq JournalTitles(names \union {p})
    BY <1>13, <1>14, <2>1
  <2> HIDE DEF filed, e
  <2> QED  BY <1>5, <1>10, <1>14, <1>17, <2>1, <2>2 DEF KeepFits, Merging, Ending
<1>16. CoreFits(names)'
  BY <1>5 DEF CoreFits, Ending
<1> QED  BY <1>9, <1>15, <1>16, <1>18 DEF MemIInv, names

\* The journals go: none of them is in an upper tier, and what is to be kept stays.
LEMMA RemoveJournalsIInv ==
  ASSUME MemIInv, RemoveJournals PROVE MemIInv'
<1> DEFINE names == FileNamesOf(files)
           left == {f \in files : Path(f) \notin cycle.journals \/ f.title \in cycle.keep}
           rest == FileNamesOf(left)
<1>1. /\ cycle.pc = "merging" /\ UNCHANGED <<snapshot, day, cycles, crashes>>
      /\ files' = left /\ cycle' = [cycle EXCEPT !.pc = "decaying"]
  BY DEF RemoveJournals
<1>2. cycle \in Cycles /\ FileSet(files)
  BY DEF MemIInv, MemoryTypes
<1>3. /\ cycle' \in Cycles /\ cycle'.pc = "decaying" /\ cycle'.read = cycle.read
      /\ cycle'.keep = cycle.keep /\ cycle'.filed = cycle.filed /\ cycle'.old = cycle.old
  BY <1>1, <1>2 DEF Cycles
<1>4. FileSet(left) /\ rest \subseteq names
  BY <1>2, FewerFiles
<1>5. MemoryTypes'
  BY <1>1, <1>3, <1>4 DEF MemIInv, MemoryTypes, FileSet, Path
<1>6. names' = rest /\ SnapshotTitles' = SnapshotTitles
  BY <1>1 DEF SnapshotTitles, FileNamesOf, Path
<1>7. ReadFits(names) /\ KeepFits(names)
  BY DEF MemIInv
<1>8. \A p \in names : p \notin cycle.journals \/ p.title \in cycle.keep => p \in rest
  <2> SUFFICES ASSUME NEW f \in files, Path(f) \notin cycle.journals \/ Path(f).title \in cycle.keep
               PROVE  Path(f) \in rest
    BY DEF FileNamesOf
  <2>1. Path(f).title = f.title
    BY DEF Path
  <2> QED  BY <2>1 DEF FileNamesOf
<1> HIDE DEF names, left, rest
<1>9. UpperTitles(names) \subseteq UpperTitles(rest)
  <2>1. \A p \in cycle.journals : p.tier \notin Upper
    BY <1>1, <1>7 DEF KeepFits, Upper
  <2> QED  BY <1>8, <2>1 DEF UpperTitles
<1>10. cycle.keep \subseteq JournalTitles(rest)
  <2>1. cycle.keep \subseteq JournalTitles(names)
    BY <1>1, <1>7 DEF KeepFits, Merging
  <2> QED  BY <1>8, <2>1 DEF JournalTitles
<1>14. cycle.filed \subseteq JournalTitles(rest)
  <2>1. cycle.filed \subseteq JournalTitles(names \ cycle.journals)
    BY <1>1, <1>7 DEF KeepFits
  <2> QED  BY <1>8, <2>1 DEF JournalTitles
<1>11. ReadFits(names)'
  BY <1>1, <1>3, <1>6, <1>7, <1>9 DEF ReadFits, Merging, Ending
<1>12. KeepFits(names)'
  BY <1>3, <1>6, <1>10, <1>14 DEF KeepFits, Merging, Ending
<1>13. CoreFits(names)'
  BY <1>3 DEF CoreFits, Ending
<1> QED  BY <1>5, <1>11, <1>12, <1>13 DEF MemIInv, names

\* What decay leaves of the core, without what it demotes, is within the budget.
LEMMA BudgetKept ==
  ASSUME FileSet(files), NEW d \in Demoted(files)
  PROVE  /\ d \subseteq TierFiles("core")
         /\ Cardinality({Path(f) : f \in TierFiles("core") \ d}) <= CoreBudget
<1> DEFINE core == {f \in files : f.tier = "core"} \ Stale(files)
           excess == Max({0, Cardinality(core) - CoreBudget})
<1>1. PICK b \in SUBSET core : d = Stale(files) \union b /\ Cardinality(b) = excess
  BY DEF Demoted
<1>2. IsFiniteSet(core) /\ core \subseteq files
  BY FS_Subset DEF FileSet
<1>3. TierFiles("core") \ d = core \ b
  BY <1>1 DEF TierFiles, Stale
<1>4. d \subseteq TierFiles("core")
  BY <1>1 DEF TierFiles, Stale
<1> HIDE DEF core
<1>5. IsFiniteSet(core \ b) /\ Cardinality(core \ b) = Cardinality(core) - Cardinality(b)
  <2>1. core \cap b = b
    BY <1>1
  <2> QED  BY <1>2, <2>1, FS_Difference
<1>6. Cardinality(core \ b) <= CoreBudget
  <2>1. Cardinality(core) \in Nat /\ CoreBudget \in Nat
    BY <1>2, FS_CardinalityType, MemoryBounds
  <2>2. excess \in Nat /\ excess >= Cardinality(core) - CoreBudget
    <3>1. Cardinality(core) - CoreBudget \in Int
      BY <2>1
    <3> QED  BY <3>1, MaxOfTwo
  <2> HIDE DEF excess
  <2> QED  BY <1>1, <1>5, <2>1, <2>2
<1>7. /\ Cardinality({Path(f) : f \in core \ b}) <= Cardinality(core \ b)
      /\ Cardinality({Path(f) : f \in core \ b}) \in Nat /\ Cardinality(core \ b) \in Nat
  <2> DEFINE name == [f \in core \ b |-> Path(f)]
  <2>1. name = [f \in core \ b |-> name[f]]
    OBVIOUS
  <2>2. {name[f] : f \in core \ b} = {Path(f) : f \in core \ b}
    OBVIOUS
  <2> HIDE DEF name
  <2>3. IsFiniteSet({name[f] : f \in core \ b}) /\ Cardinality({name[f] : f \in core \ b}) <= Cardinality(core \ b)
    BY <1>5, <2>1, FiniteImage
  <2>4. /\ IsFiniteSet({Path(f) : f \in core \ b})
        /\ Cardinality({Path(f) : f \in core \ b}) <= Cardinality(core \ b)
    BY <2>2, <2>3
  <2> QED  BY <1>5, <2>4, FS_CardinalityType
<1>8. Cardinality({Path(f) : f \in core \ b}) <= CoreBudget
  <2>1. CoreBudget \in Nat
    BY MemoryBounds
  <2> QED  BY <1>6, <1>7, <2>1
<1> QED  BY <1>3, <1>4, <1>8

\* Decay: what expired was logged, and the core is within its budget but for what will be
\* demoted.
LEMMA DecayIInv ==
  ASSUME MemIInv, Decay PROVE MemIInv'
<1> DEFINE names == FileNamesOf(files)
           left == files \ Expired(files)
           rest == FileNamesOf(left)
<1>1. PICK d \in Demoted(files) :
        cycle' = [cycle EXCEPT !.pc = "demoting", !.events = DecayEvents(files, d),
                               !.demote = {Path(f) : f \in d}]
  BY DEF Decay
<1>2. cycle.pc = "decaying" /\ files' = left /\ UNCHANGED <<snapshot, day, cycles, crashes>>
  BY DEF Decay
<1>3. cycle \in Cycles /\ FileSet(files)
  BY DEF MemIInv, MemoryTypes
<1>4. /\ d \subseteq TierFiles("core")
      /\ Cardinality({Path(f) : f \in TierFiles("core") \ d}) <= CoreBudget
  BY <1>3, BudgetKept
<1> DEFINE demote == {Path(f) : f \in d}
           events == DecayEvents(files, d)
<1>5. \A f \in files : Path(f) \in FileNames /\ Path(f).tier = f.tier /\ Path(f).title = f.title
                       /\ f.title \in Titles
  BY <1>3, PathIs DEF FileSet, Memories
<1>6. demote \subseteq FileNames /\ \A p \in demote : p.tier = "core"
  BY <1>4, <1>5 DEF TierFiles
<1>7. events \subseteq [title : Titles, from : Tiers,
                       action : {"expired", "salience_reduced", "demoted"}]
  <2>1. Expired(files) \subseteq files /\ Fading(files) \subseteq files /\ d \subseteq files
    BY <1>4 DEF Expired, Fading, TierFiles
  <2>2. \A x \in events : \E f \in files : \E a \in {"expired", "salience_reduced", "demoted"} :
           x = [title |-> f.title, from |-> f.tier, action |-> a]
    BY <2>1 DEF DecayEvents
  <2>3. \A f \in files : f.title \in Titles /\ f.tier \in Tiers
    BY <1>3 DEF FileSet, Memories
  <2> HIDE DEF events
  <2> QED  BY <2>2, <2>3
<1>8. /\ cycle' \in Cycles /\ cycle'.pc = "demoting" /\ cycle'.read = cycle.read
      /\ cycle'.keep = cycle.keep /\ cycle'.demote = demote /\ cycle'.events = events
      /\ cycle'.filed = cycle.filed /\ cycle'.old = cycle.old
  <2> HIDE DEF demote, events
  <2>1. cycle' = [cycle EXCEPT !.pc = "demoting", !.events = events, !.demote = demote]
    BY <1>1 DEF demote, events
  <2> QED  BY <1>3, <1>6, <1>7, <2>1 DEF Cycles
<1>9. FileSet(left) /\ rest \subseteq names
  BY <1>3, FewerFiles
<1>10. MemoryTypes'
  BY <1>2, <1>8, <1>9 DEF MemIInv, MemoryTypes, FileSet, Path
<1>11. names' = rest /\ SnapshotTitles' = SnapshotTitles
  BY <1>2 DEF SnapshotTitles, FileNamesOf, Path
<1>12. \A f \in Expired(files) : f.title \in ExpiredFrom(events, f.tier)
  <2>1. \A f \in Expired(files) : [title |-> f.title, from |-> f.tier, action |-> "expired"] \in events
    BY DEF DecayEvents
  <2> HIDE DEF events
  <2>2. \A t, r : [title |-> t, from |-> r, action |-> "expired"] \in events => t \in ExpiredFrom(events, r)
    <3> SUFFICES ASSUME NEW t, NEW r, [title |-> t, from |-> r, action |-> "expired"] \in events
                 PROVE  t \in ExpiredFrom(events, r)
      OBVIOUS
    <3> DEFINE x == [title |-> t, from |-> r, action |-> "expired"]
    <3>1. x \in events /\ x.from = r /\ x.action = "expired" /\ x.title = t
      OBVIOUS
    <3> HIDE DEF x
    <3> QED  BY <3>1 DEF ExpiredFrom
  <2> QED  BY <2>1, <2>2
<1> HIDE DEF events
<1>13. \A p \in names : p \in rest \/ (p.tier # "core" /\ p.title \in ExpiredFrom(events, p.tier))
  <2> SUFFICES ASSUME NEW f \in files
               PROVE  Path(f) \in rest
                        \/ (Path(f).tier # "core" /\ Path(f).title \in ExpiredFrom(events, Path(f).tier))
    BY DEF FileNamesOf
  <2>1. CASE f \in Expired(files)
    <3>1. f.tier # "core"
      BY <2>1 DEF Expired
    <3> QED  BY <1>5, <1>12, <2>1, <3>1
  <2>2. CASE f \notin Expired(files)
    BY <2>2 DEF FileNamesOf
  <2> QED  BY <2>1, <2>2
<1>14. CoreNames(rest) \ demote \subseteq {Path(f) : f \in TierFiles("core") \ d}
  <2> SUFFICES ASSUME NEW f \in left, Path(f).tier = "core", Path(f) \notin demote
               PROVE  Path(f) \in {Path(g) : g \in TierFiles("core") \ d}
    BY DEF CoreNames, FileNamesOf
  <2>1. f \in TierFiles("core") /\ f \notin d
    BY <1>5 DEF TierFiles
  <2> QED  BY <2>1
<1>15. Cardinality(CoreNames(rest) \ demote) <= CoreBudget
  <2> DEFINE R == {Path(f) : f \in TierFiles("core") \ d}
             L == CoreNames(rest) \ demote
  <2>1. IsFiniteSet(R)
    <3>1. IsFiniteSet(names)
      BY <1>3, NamesAre
    <3>2. R \subseteq names
      BY DEF TierFiles, FileNamesOf
    <3> QED  BY <3>1, <3>2, FS_Subset
  <2>2. L \subseteq R /\ Cardinality(R) <= CoreBudget
    BY <1>4, <1>14
  <2> HIDE DEF L, R
  <2>3. IsFiniteSet(L) /\ Cardinality(L) <= Cardinality(R)
    BY <2>1, <2>2, FS_Subset
  <2>4. Cardinality(L) \in Nat /\ Cardinality(R) \in Nat /\ CoreBudget \in Nat
    BY <2>1, <2>3, FS_CardinalityType, MemoryBounds
  <2>5. Cardinality(L) <= CoreBudget
    BY <2>2, <2>3, <2>4
  <2> QED  BY <2>5 DEF L
<1>16. ReadFits(names) /\ KeepFits(names)
  BY DEF MemIInv
<1> HIDE DEF names, left, rest, demote
<1>17. ReadFits(names)'
  <2>1. cycle.read \subseteq UpperTitles(names) \union cycle.filed /\ cycle.read \subseteq SnapshotTitles
    BY <1>2, <1>16 DEF ReadFits, Merging
  <2>2. UpperTitles(names) \subseteq UpperTitles(rest) \union ExpiredFrom(events, "consolidated")
    BY <1>13 DEF UpperTitles, Upper
  <2> QED  BY <1>8, <1>11, <2>1, <2>2 DEF ReadFits, Merging, Ending
<1>18. KeepFits(names)'
  <2>1. cycle.keep \union cycle.filed \subseteq JournalTitles(names)
    BY <1>2, <1>16 DEF KeepFits, Merging
  <2>2. JournalTitles(names) \subseteq JournalTitles(rest) \union ExpiredFrom(events, "journal")
    BY <1>13 DEF JournalTitles
  <2> QED  BY <1>8, <1>11, <2>1, <2>2 DEF KeepFits, Merging, Ending
<1>19. CoreFits(names)'
  BY <1>6, <1>8, <1>11, <1>15 DEF CoreFits
<1> QED  BY <1>10, <1>17, <1>18, <1>19 DEF MemIInv, names

\* The copy of a memory that is demoted.
LEMMA DemoteCopyIInv ==
  ASSUME MemIInv, DemoteCopy PROVE MemIInv'
<1> DEFINE names == FileNamesOf(files)
<1>1. PICK f \in files :
        /\ Path(f) \in cycle.demote
        /\ files' = WriteMemory(files, "consolidated", f.title, f.seen)
        /\ cycle' = [cycle EXCEPT !.pc = "unlinking", !.old = {Path(f)}]
  BY DEF DemoteCopy
<1>2. cycle.pc = "demoting" /\ UNCHANGED <<snapshot, day, cycles, crashes>>
  BY DEF DemoteCopy
<1>3. cycle \in Cycles /\ FileSet(files)
  BY DEF MemIInv, MemoryTypes
<1>4. /\ Path(f) \in FileNames /\ f.title \in Titles /\ f.seen \in 0 .. MaxDay
      /\ Path(f).title = f.title
  BY <1>3, PathIs DEF FileSet, Memories
<1>5. PICK n \in Nat \ {0} :
        /\ files' = files \union {[tier |-> "consolidated", title |-> f.title, nth |-> n, seen |-> f.seen]}
        /\ [tier |-> "consolidated", title |-> f.title, nth |-> n] \notin names
  <2>1. "consolidated" \in Tiers
    BY DEF Tiers
  <2>2. cycle.old \subseteq FileNames /\ IsFiniteSet(cycle.old)
    BY DEF MemIInv, MemoryTypes, Cycles
  <2> QED  BY <1>1, <1>3, <1>4, <2>1, <2>2, WriteMemoryIs
<1> DEFINE c == [tier |-> "consolidated", title |-> f.title, nth |-> n, seen |-> f.seen]
           p == [tier |-> "consolidated", title |-> f.title, nth |-> n]
<1>6. c \in Memories /\ Path(c) = p
  BY <1>4 DEF Memories, Path, Tiers
<1>7. FileSet(files') /\ FileNamesOf(files') = names \union {p}
  <2> HIDE DEF c, p
  <2> QED  BY <1>3, <1>5, <1>6, AddFile DEF c, p
<1>8. /\ cycle' \in Cycles /\ cycle'.pc = "unlinking" /\ cycle'.old = {Path(f)}
      /\ cycle'.read = cycle.read /\ cycle'.keep = cycle.keep /\ cycle'.demote = cycle.demote
      /\ cycle'.events = cycle.events /\ cycle'.filed = cycle.filed
  BY <1>1, <1>3, <1>4 DEF Cycles
<1>9. MemoryTypes'
  <2>1. IsFiniteSet(cycle'.old)
    <3>1. IsFiniteSet({Path(f)})
      BY FS_Singleton
    <3> QED  BY <1>8, <3>1
  <2> QED  BY <1>2, <1>7, <1>8, <2>1 DEF MemIInv, MemoryTypes, FileSet, Path
<1>10. names' = names \union {p} /\ SnapshotTitles' = SnapshotTitles
  BY <1>2, <1>7 DEF SnapshotTitles
<1>11. ReadFits(names) /\ KeepFits(names) /\ CoreFits(names)
  BY DEF MemIInv
<1>12. p.tier = "consolidated" /\ p.title = f.title
  OBVIOUS
<1> HIDE DEF names, p
<1>13. /\ UpperTitles(names) \subseteq UpperTitles(names \union {p})
       /\ JournalTitles(names) \subseteq JournalTitles(names \union {p})
  BY TitlesOfMore
<1>14. CoreNames(names \union {p}) = CoreNames(names)
  BY <1>12, UpperOfMore
<1>15. ReadFits(names)'
  BY <1>2, <1>8, <1>10, <1>11, <1>13 DEF ReadFits, Merging, Ending
<1>16. KeepFits(names)'
  BY <1>2, <1>8, <1>10, <1>11, <1>13 DEF KeepFits, Merging, Ending
<1>17. CoreFits(names)'
  <2>1. \E q \in names' : q.tier = "consolidated" /\ q.title = Path(f).title
    BY <1>4, <1>10, <1>12
  <2>2. \E x \in cycle'.demote :
          cycle'.old = {x} /\ \E q \in names' : q.tier = "consolidated" /\ q.title = x.title
    BY <1>1, <1>8, <2>1
  <2> QED  BY <1>2, <1>8, <1>10, <1>11, <1>14, <2>2 DEF CoreFits, Ending
<1> QED  BY <1>9, <1>15, <1>16, <1>17 DEF MemIInv, names

\* The core file of a demoted memory goes: its copy has the title.
LEMMA DemoteUnlinkIInv ==
  ASSUME MemIInv, DemoteUnlink PROVE MemIInv'
<1> DEFINE names == FileNamesOf(files)
           left == {f \in files : Path(f) \notin cycle.old}
<1>1. /\ cycle.pc = "unlinking" /\ files' = left /\ UNCHANGED <<snapshot, day, cycles, crashes>>
      /\ cycle' = [cycle EXCEPT !.pc = "demoting", !.demote = @ \ cycle.old]
  BY DEF DemoteUnlink
<1>2. cycle \in Cycles /\ FileSet(files)
  BY DEF MemIInv, MemoryTypes
<1>3. /\ cycle' \in Cycles /\ cycle'.pc = "demoting" /\ cycle'.demote = cycle.demote \ cycle.old
      /\ cycle'.read = cycle.read /\ cycle'.keep = cycle.keep /\ cycle'.events = cycle.events
      /\ cycle'.filed = cycle.filed /\ cycle'.old = cycle.old
  BY <1>1, <1>2 DEF Cycles
<1>4. FileSet(left) /\ FileNamesOf(left) = names \ cycle.old
  BY <1>2, RemoveNames
<1>5. MemoryTypes'
  BY <1>1, <1>3, <1>4 DEF MemIInv, MemoryTypes, FileSet, Path
<1>6. names' = names \ cycle.old /\ SnapshotTitles' = SnapshotTitles
  BY <1>1, <1>4 DEF SnapshotTitles, FileNamesOf, Path
<1>7. ReadFits(names) /\ KeepFits(names) /\ CoreFits(names)
  BY DEF MemIInv
<1> HIDE DEF names, left
<1>8. PICK p \in cycle.demote :
        cycle.old = {p} /\ \E q \in names : q.tier = "consolidated" /\ q.title = p.title
  BY <1>1, <1>7 DEF CoreFits
<1>9. p.tier = "core"
  BY <1>1, <1>7 DEF CoreFits, Ending
<1>10. UpperTitles(names \ {p}) = UpperTitles(names)
  <2>1. PICK q \in names : q.tier = "consolidated" /\ q.title = p.title
    BY <1>8
  <2>2. q \in names \ {p} /\ q.tier \in Upper
    BY <1>9, <2>1 DEF Upper
  <2> QED  BY <2>1, <2>2 DEF UpperTitles
<1>11. JournalTitles(names \ {p}) = JournalTitles(names)
  BY <1>9 DEF JournalTitles
<1>12. CoreNames(names \ {p}) \ (cycle.demote \ {p}) = CoreNames(names) \ cycle.demote
  BY <1>8 DEF CoreNames
<1>13. ReadFits(names)'
  BY <1>1, <1>3, <1>6, <1>7, <1>8, <1>10 DEF ReadFits, Merging, Ending
<1>14. KeepFits(names)'
  BY <1>1, <1>3, <1>6, <1>7, <1>8, <1>11 DEF KeepFits, Merging, Ending
<1>15. CoreFits(names)'
  <2>1. Cardinality(CoreNames(names) \ cycle.demote) <= CoreBudget /\ \A x \in cycle.demote : x.tier = "core"
    BY <1>1, <1>7 DEF CoreFits, Ending
  <2>2. CoreNames(names') \ cycle'.demote = CoreNames(names) \ cycle.demote
    BY <1>3, <1>6, <1>8, <1>12
  <2> QED  BY <1>3, <2>1, <2>2 DEF CoreFits
<1> QED  BY <1>5, <1>13, <1>14, <1>15 DEF MemIInv, names

\* The end of a shutdown, a kill, the next day.
LEMMA EndCycleIInv ==
  ASSUME MemIInv, EndCycle PROVE MemIInv'
<1> DEFINE names == FileNamesOf(files)
<1>1. /\ cycle.pc = "demoting" /\ cycle.demote = {}
      /\ UNCHANGED <<files, snapshot, day, cycles, crashes>>
      /\ cycle' = [NoCycle EXCEPT !.pc = "done", !.read = cycle.read, !.keep = cycle.keep,
                                  !.filed = cycle.filed, !.events = cycle.events]
  BY DEF EndCycle
<1>2. cycle \in Cycles
  BY DEF MemIInv, MemoryTypes
<1>3. /\ cycle' \in Cycles /\ cycle'.pc = "done" /\ cycle'.demote = {} /\ cycle'.read = cycle.read
      /\ cycle'.keep = cycle.keep /\ cycle'.events = cycle.events /\ cycle'.filed = cycle.filed
      /\ cycle'.old = NoCycle.old
  BY <1>1, <1>2, NoCycleIs DEF Cycles
<1>4. MemoryTypes'
  BY <1>1, <1>3, NoCycleIs DEF MemIInv, MemoryTypes, FileSet, Path
<1>5. names' = names /\ SnapshotTitles' = SnapshotTitles
  BY <1>1 DEF SnapshotTitles
<1>6. ReadFits(names) /\ KeepFits(names) /\ CoreFits(names)
  BY DEF MemIInv
<1> HIDE DEF names
<1>7. ReadFits(names)'
  BY <1>1, <1>3, <1>5, <1>6 DEF ReadFits, Merging, Ending
<1>8. KeepFits(names)'
  BY <1>1, <1>3, <1>5, <1>6 DEF KeepFits, Merging, Ending
<1>9. CoreFits(names)'
  BY <1>1, <1>3, <1>5, <1>6 DEF CoreFits, Ending
<1> QED  BY <1>4, <1>7, <1>8, <1>9 DEF MemIInv, names

LEMMA CycleKilledIInv ==
  ASSUME MemIInv, CycleKilled PROVE MemIInv'
<1> DEFINE names == FileNamesOf(files)
<1>1. /\ Running /\ crashes < MaxCrashes /\ crashes' = crashes + 1
      /\ UNCHANGED <<files, snapshot, day, cycles>>
      /\ cycle' = [NoCycle EXCEPT !.pc = "crashed", !.read = cycle.read]
  BY DEF CycleKilled
<1>2. cycle \in Cycles /\ crashes \in 0 .. MaxCrashes
  BY DEF MemIInv, MemoryTypes
<1>3. /\ cycle' \in Cycles /\ cycle'.pc = "crashed" /\ cycle'.read = cycle.read
      /\ cycle'.old = NoCycle.old
  BY <1>1, <1>2, NoCycleIs DEF Cycles
<1>4. crashes' \in 0 .. MaxCrashes
  BY <1>1, <1>2, MemoryBounds
<1>5. MemoryTypes'
  BY <1>1, <1>3, <1>4, NoCycleIs DEF MemIInv, MemoryTypes, FileSet, Path
<1>6. names' = names /\ SnapshotTitles' = SnapshotTitles
  BY <1>1 DEF SnapshotTitles
<1>7. ReadFits(names)
  BY DEF MemIInv
<1> HIDE DEF names
<1>8. cycle.pc \in {"asked"} \union Merging \union (Ending \ {"done"})
  BY <1>1, <1>2 DEF Running, Cycles, Merging, Ending
<1>9. cycle.read \subseteq UpperTitles(names) \union SnapshotTitles
  BY <1>7, <1>8 DEF ReadFits
<1>10. ReadFits(names)'
  BY <1>3, <1>6, <1>9 DEF ReadFits, Merging, Ending
<1>11. KeepFits(names)' /\ CoreFits(names)'
  BY <1>3 DEF KeepFits, CoreFits, Merging, Ending
<1> QED  BY <1>5, <1>10, <1>11 DEF MemIInv, names

LEMMA NextDayIInv ==
  ASSUME MemIInv, NextDay PROVE MemIInv'
<1>1. day < MaxDay /\ day' = day + 1 /\ UNCHANGED <<files, snapshot, cycle, cycles, crashes>>
  BY DEF NextDay
<1>2. day' \in 0 .. MaxDay
  BY <1>1, MemoryBounds DEF MemIInv, MemoryTypes
<1>3. MemoryTypes'
  BY <1>1, <1>2 DEF MemIInv, MemoryTypes, FileSet, Path
<1>4. ReadFits(FileNamesOf(files))' /\ KeepFits(FileNamesOf(files))' /\ CoreFits(FileNamesOf(files))'
  BY <1>1 DEF MemIInv, ReadFits, KeepFits, CoreFits, SnapshotTitles
<1> QED  BY <1>3, <1>4 DEF MemIInv

\* Whatever the cycle does meanwhile, a touch changes no name.
LEMMA TouchIInv ==
  ASSUME MemIInv, NEW t \in Titles, TouchMemory(t) PROVE MemIInv'
<1>1. PICK f \in files :
        /\ files' = (files \ {f}) \union {[f EXCEPT !.seen = day]}
        /\ UNCHANGED <<snapshot, day, cycle, cycles, crashes>>
  BY DEF TouchMemory
<1>2. FileSet(files) /\ day \in 0 .. MaxDay
  BY DEF MemIInv, MemoryTypes
<1> DEFINE g == [f EXCEPT !.seen = day]
<1>3. g \in Memories /\ Path(g) = Path(f)
  BY <1>2 DEF FileSet, Memories, Path
<1>4. FileSet(files \ {f})
  BY <1>2, FewerFiles
<1>5. Path(f) \notin FileNamesOf(files \ {f})
  BY <1>2 DEF FileSet, FileNamesOf
<1>6. FileSet(files') /\ FileNamesOf(files') = FileNamesOf(files \ {f}) \union {Path(f)}
  <2> HIDE DEF g
  <2> QED  BY <1>1, <1>3, <1>4, <1>5, AddFile DEF g
<1>7. FileNamesOf(files') = FileNamesOf(files)
  BY <1>6 DEF FileNamesOf
<1>8. MemoryTypes'
  BY <1>1, <1>6 DEF MemIInv, MemoryTypes, FileSet, Path
<1> DEFINE names == FileNamesOf(files)
<1>9. names' = names /\ SnapshotTitles' = SnapshotTitles
  BY <1>1, <1>7 DEF SnapshotTitles, FileNamesOf, Path
<1>10. ReadFits(names) /\ KeepFits(names) /\ CoreFits(names)
  BY DEF MemIInv
<1> HIDE DEF names
<1>11. ReadFits(names)' /\ KeepFits(names)' /\ CoreFits(names)'
  BY <1>1, <1>9, <1>10 DEF ReadFits, KeepFits, CoreFits
<1> QED  BY <1>8, <1>11 DEF MemIInv, names

\* The session's memories: each a file more in its tier.
LEMMA MemoriesWritten ==
  ASSUME cycle.old \subseteq FileNames, IsFiniteSet(cycle.old), FileSet(files), day \in 0 .. MaxDay,
         NEW new \in SUBSET [tier : Tiers, title : Titles], IsFiniteSet(new),
         NEW fs, fs = files \union UNION {WriteMemory(files, e.tier, e.title, day) : e \in new}
  PROVE  FileSet(fs)
<1> DEFINE J(e, n) == [tier |-> e.tier, title |-> e.title, nth |-> n, seen |-> day]
           Fresh(e, n) == [tier |-> e.tier, title |-> e.title, nth |-> n] \notin FileNamesOf(files)
           Writes(e, n) == WriteMemory(files, e.tier, e.title, day) = files \union {J(e, n)}
<1>1. \A e \in new : \E n \in Nat \ {0} : Writes(e, n) /\ Fresh(e, n)
  <2> TAKE e \in new
  <2>1. e.title \in Titles /\ e.tier \in Tiers
    OBVIOUS
  <2> QED  BY <2>1, WriteMemoryIs
<1> DEFINE nth == [e \in new |-> CHOOSE n \in Nat \ {0} : Writes(e, n) /\ Fresh(e, n)]
<1>2. \A e \in new : nth[e] \in Nat \ {0} /\ Writes(e, nth[e]) /\ Fresh(e, nth[e])
  <2> HIDE DEF Writes, Fresh
  <2> QED  BY <1>1
<1> HIDE DEF nth
<1> DEFINE j == [e \in new |-> J(e, nth[e])]
           js == {j[e] : e \in new}
<1>3. fs = files \union js
  <2>1. \A e \in new : WriteMemory(files, e.tier, e.title, day) = files \union {j[e]}
    BY <1>2
  <2> HIDE DEF j
  <2> QED  BY <2>1
<1>4. IsFiniteSet(js)
  <2>1. j = [e \in new |-> j[e]]
    OBVIOUS
  <2> HIDE DEF j
  <2> QED  BY <2>1, FiniteImage
<1>5. IsFiniteSet(fs)
  <2>1. IsFiniteSet(files)
    BY DEF FileSet
  <2> HIDE DEF js
  <2>2. IsFiniteSet(files \union js)
    BY <1>4, <2>1, FS_Union
  <2> QED  BY <1>3, <2>2
<1>6. \A e \in new : /\ j[e] \in Memories
                     /\ Path(j[e]) = [tier |-> e.tier, title |-> e.title, nth |-> nth[e]]
                     /\ Path(j[e]) \notin FileNamesOf(files)
  <2> TAKE e \in new
  <2>1. j[e] = J(e, nth[e]) /\ nth[e] \in Nat \ {0} /\ e.title \in Titles /\ e.tier \in Tiers
    BY <1>2
  <2>2. j[e] \in Memories
    BY <2>1 DEF Memories
  <2>3. Path(j[e]) = [tier |-> e.tier, title |-> e.title, nth |-> nth[e]]
    BY <2>1 DEF Path
  <2> QED  BY <1>2, <2>2, <2>3
<1>7. \A e \in new : Path(j[e]).title = e.title /\ Path(j[e]).tier = e.tier
  <2> TAKE e \in new
  <2> DEFINE p == Path(j[e])
  <2>1. p = [tier |-> e.tier, title |-> e.title, nth |-> nth[e]]
    BY <1>6
  <2> HIDE DEF p
  <2>2. p.title = e.title /\ p.tier = e.tier
    BY <2>1
  <2> QED  BY <2>2 DEF p
<1>8. \A d, e \in new : d.title = e.title /\ d.tier = e.tier => d = e
  OBVIOUS
<1> HIDE DEF j
<1>9. \A f, g \in fs : Path(f) = Path(g) => f = g
  <2>1. \A f, g \in files : Path(f) = Path(g) => f = g
    BY DEF FileSet
  <2>2. \A f \in files : \A g \in js : Path(f) # Path(g)
    BY <1>6 DEF FileNamesOf
  <2>3. \A f, g \in js : Path(f) = Path(g) => f = g
    BY <1>7, <1>8
  <2> HIDE DEF js
  <2> QED  BY <1>3, <2>1, <2>2, <2>3
<1>10. fs \subseteq Memories
  BY <1>3, <1>6 DEF FileSet
<1> QED  BY <1>5, <1>9, <1>10 DEF FileSet

\* A shutdown begins: what is read is what the upper tiers hold.
LEMMA StartCycleIInv ==
  ASSUME MemIInv, NEW new \in Extracted, StartCycle(new) PROVE MemIInv'
<1> DEFINE names == FileNamesOf(files)
           journals == {f \in files' : f.tier = "journal"}
           read == TitlesOf(UpperFiles(files'))
<1>1. PICK b \in {"done", "asked"} :
        /\ b = "done" => read = {}
        /\ cycle' = [NoCycle EXCEPT !.pc = b, !.read = read, !.journals = ByTitle(journals)]
  BY DEF StartCycle
<1>2. /\ cycles < MaxCycles /\ cycles' = cycles + 1 /\ UNCHANGED <<snapshot, day, crashes>>
      /\ files' = files \union UNION {WriteMemory(files, e.tier, e.title, day) : e \in new}
  BY DEF StartCycle
<1>3. /\ FileSet(files) /\ day \in 0 .. MaxDay /\ IsFiniteSet(new)
      /\ new \in SUBSET [tier : Tiers, title : Titles]
      /\ cycle.old \subseteq FileNames /\ IsFiniteSet(cycle.old)
  BY DEF MemIInv, MemoryTypes, Extracted, Cycles
<1>4. FileSet(files')
  BY <1>2, <1>3, MemoriesWritten
<1>5. names' = FileNamesOf(files')
  BY DEF FileNamesOf, Path
<1>6. read = UpperTitles(names') /\ read \subseteq Titles
  <2>1. read = UpperTitles(FileNamesOf(files'))
    BY <1>4, NamesAre
  <2>2. read \subseteq Titles
    BY <1>4 DEF TitlesOf, UpperFiles, FileSet, Memories
  <2> QED  BY <1>5, <2>1, <2>2
<1>7. ByTitle(journals) \subseteq FileNames /\ ByTitle(journals) \subseteq names'
      /\ \A p \in ByTitle(journals) : p.tier = "journal"
  <2>1. \A f \in files' : Path(f) \in FileNames /\ Path(f).tier = f.tier /\ Path(f) \in FileNamesOf(files')
    BY <1>4, PathIs DEF FileSet, FileNamesOf
  <2> QED  BY <1>5, <2>1 DEF ByTitle
<1> HIDE DEF read
<1>8. /\ cycle' \in Cycles /\ cycle'.pc = b /\ cycle'.read = read /\ cycle'.journals = ByTitle(journals)
      /\ cycle'.keep = {} /\ cycle'.old = {} /\ cycle'.demote = {} /\ cycle'.events = {}
      /\ cycle'.filed = {}
  <2> DEFINE shown == ByTitle(journals)
  <2>1. shown \subseteq FileNames /\ cycle' = [NoCycle EXCEPT !.pc = b, !.read = read, !.journals = shown]
    BY <1>1, <1>7
  <2> HIDE DEF shown
  <2>2. /\ cycle' \in Cycles /\ cycle'.pc = b /\ cycle'.read = read /\ cycle'.journals = shown
        /\ cycle'.keep = {} /\ cycle'.old = {} /\ cycle'.demote = {} /\ cycle'.events = {}
        /\ cycle'.filed = {}
    BY <1>6, <2>1, NoCycleIs DEF Cycles
  <2> QED  BY <2>2 DEF shown
<1>9. MemoryTypes'
  <2>1. cycles' \in 0 .. MaxCycles
    BY <1>2, MemoryBounds DEF MemIInv, MemoryTypes
  <2>2. snapshot' \subseteq [tier : Upper, title : Titles] /\ day' \in 0 .. MaxDay /\ crashes' \in 0 .. MaxCrashes
    BY <1>2 DEF MemIInv, MemoryTypes
  <2>3. IsFiniteSet(cycle'.old)
    BY <1>8, FS_EmptySet
  <2> QED  BY <1>4, <1>8, <2>1, <2>2, <2>3 DEF MemoryTypes, FileSet, Path
<1>10. b = "done" => CoreNames(names') = {}
  <2> SUFFICES ASSUME read = {} PROVE CoreNames(names') = {}
    BY <1>1
  <2> HIDE DEF names
  <2> QED  BY <1>6 DEF UpperTitles, CoreNames, Upper
<1>11. Cardinality({}) = 0 /\ CoreBudget \in Nat
  BY FS_EmptySet, MemoryBounds
<1> HIDE DEF names, journals
<1>12. ReadFits(names)'
  BY <1>1, <1>6, <1>8 DEF ReadFits, Merging, Ending
<1>13. KeepFits(names)'
  BY <1>1, <1>7, <1>8 DEF KeepFits, Merging, Ending
<1>14. CoreFits(names)'
  <2>1. b = "done" => Cardinality(CoreNames(names') \ cycle'.demote) <= CoreBudget
    <3>1. b = "done" => CoreNames(names') \ cycle'.demote = {}
      BY <1>10
    <3> QED  BY <1>11, <3>1
  <2> QED  BY <1>1, <1>8, <2>1 DEF CoreFits, Ending
<1> QED  BY <1>9, <1>12, <1>13, <1>14 DEF MemIInv, names

LEMMA MemNextIInv ==
  ASSUME MemIInv, [MemNext]_memVars PROVE MemIInv'
<1>1. CASE CycleStep
  BY <1>1, AskFailsIInv, AnsweredIInv, LoadTierIInv, UnlinkOldIInv, WriteEntryIInv, RemoveJournalsIInv,
     DecayIInv, DemoteCopyIInv, DemoteUnlinkIInv, EndCycleIInv, CycleKilledIInv DEF CycleStep
<1>2. CASE NextDay
  BY <1>2, NextDayIInv
<1>3. CASE \E new \in Extracted : StartCycle(new)
  BY <1>3, StartCycleIInv
<1>4. CASE \E t \in Titles : TouchMemory(t)
  BY <1>4, TouchIInv
<1>5. CASE UNCHANGED memVars
  <2>1. UNCHANGED <<files, snapshot, day, cycle, cycles, crashes>>
    BY <1>5 DEF memVars
  <2>2. MemoryTypes'
    BY <2>1 DEF MemIInv, MemoryTypes, FileSet, Path
  <2>3. ReadFits(FileNamesOf(files))' /\ KeepFits(FileNamesOf(files))' /\ CoreFits(FileNamesOf(files))'
    BY <2>1 DEF MemIInv, ReadFits, KeepFits, CoreFits, SnapshotTitles
  <2> QED  BY <2>2, <2>3 DEF MemIInv
<1> QED  BY <1>1, <1>2, <1>3, <1>4, <1>5 DEF MemNext

LEMMA MemIInvImplies ==
  ASSUME MemIInv PROVE MemoryInv
<1> DEFINE names == FileNamesOf(files)
<1>1. /\ FileSet(files) /\ cycle \in Cycles /\ ReadFits(names) /\ KeepFits(names) /\ CoreFits(names)
  BY DEF MemIInv, MemoryTypes
<1>2. \A t \in UpperTitles(names) : Recalled(t) # {}
  <2>1. UpperTitles(names) = TitlesOf(UpperFiles(files))
    BY <1>1, NamesAre
  <2> QED  BY <2>1 DEF TitlesOf, Recalled
<1>3. \A tier : \A t \in ExpiredFrom(cycle.events, tier) : ExpiryLogged(t, tier)
  <2> SUFFICES ASSUME NEW e \in cycle.events, e.action = "expired"
               PROVE  [title |-> e.title, from |-> e.from, action |-> "expired"] \in cycle.events
    BY DEF ExpiredFrom, ExpiryLogged
  <2>1. e \in [title : Titles, from : Tiers, action : {"expired", "salience_reduced", "demoted"}]
    BY <1>1 DEF Cycles
  <2>2. e = [title |-> e.title, from |-> e.from, action |-> "expired"]
    BY <2>1
  <2> QED  BY <2>2
<1>4. JournalTitles(names) \subseteq TitlesOf(TierFiles("journal"))
  BY <1>1, PathIs DEF JournalTitles, FileNamesOf, FileSet, TitlesOf, TierFiles
<1>5. MemoryTypeOK
  BY DEF MemoryTypeOK, MemIInv, MemoryTypes, FileSet, Memories, Cycles
<1>6. SurvivesShutdown
  <2> HIDE DEF names
  <2> QED  BY <1>1, <1>2, <1>3, <1>4 DEF SurvivesShutdown, ReadFits, KeepFits, Ending
<1>7. SnapshotRecovers
  <2>1. UpperTitles(names) = TitlesOf(UpperFiles(files))
    BY <1>1, NamesAre
  <2>2. cycle.read \subseteq UpperTitles(names) \union SnapshotTitles
    <3> HIDE DEF names
    <3>1. cycle.pc \in {"off", "done", "crashed", "asked"} \union Merging \union (Ending \ {"done"})
      BY <1>1 DEF Cycles, Merging, Ending
    <3> QED  BY <1>1, <3>1 DEF ReadFits
  <2> QED  BY <2>1, <2>2 DEF SnapshotRecovers, SnapshotTitles
<1>8. UnmergedJournalsStay
  <2> HIDE DEF names
  <2> QED  BY <1>1, <1>3, <1>4 DEF UnmergedJournalsStay, KeepFits, Ending
<1>9. CoreWithinBudget
  <2> SUFFICES ASSUME cycle.pc = "done" PROVE Cardinality(TierFiles("core")) <= CoreBudget
    BY DEF CoreWithinBudget
  <2>1. FileSet(TierFiles("core"))
    <3>1. TierFiles("core") \subseteq files
      BY DEF TierFiles
    <3> QED  BY <1>1, <3>1, FewerFiles
  <2>2. FileNamesOf(TierFiles("core")) = CoreNames(names) \ cycle.demote
    <3>1. cycle.demote = {}
      BY <1>1 DEF CoreFits
    <3>2. FileNamesOf(TierFiles("core")) = CoreNames(names)
      BY <1>1, PathIs DEF TierFiles, FileNamesOf, CoreNames, FileSet
    <3> QED  BY <3>1, <3>2
  <2>3. Cardinality(FileNamesOf(TierFiles("core"))) <= CoreBudget
    BY <1>1, <2>2 DEF CoreFits, Ending
  <2> QED  BY <2>1, <2>3, AsManyNames
<1> QED  BY <1>5, <1>6, <1>7, <1>8, <1>9 DEF MemoryInv

\* No memory is lost by a shutdown that ends, fails or is killed, and the core it leaves is
\* within its budget, for any titles, thresholds and answers (run_consolidation, apply_decay).
THEOREM MemoryCorrect == MemSpec => []MemoryInv
<1>1. MemInit => MemIInv
  <2> SUFFICES ASSUME MemInit PROVE MemIInv
    OBVIOUS
  <2>1. FileSet(files)
    BY FS_EmptySet DEF MemInit, FileSet
  <2>2. MemoryTypes
    <3>1. cycle \in Cycles /\ IsFiniteSet(cycle.old)
      BY NoCycleIs DEF MemInit
    <3> QED  BY <2>1, <3>1, MemoryBounds DEF MemInit, MemoryTypes
  <2>3. ReadFits(FileNamesOf(files)) /\ KeepFits(FileNamesOf(files)) /\ CoreFits(FileNamesOf(files))
    BY DEF MemInit, NoCycle, ReadFits, KeepFits, CoreFits, Merging, Ending
  <2> QED  BY <2>2, <2>3 DEF MemIInv
<1>2. MemIInv /\ [MemNext]_memVars => MemIInv'
  BY MemNextIInv
<1>3. MemIInv => MemoryInv
  BY MemIInvImplies
<1> QED  BY <1>1, <1>2, <1>3, PTL DEF MemSpec

-----------------------------------------------------------------------------
(* A chunk that its planner renames.                                       *)

Statuses == {"READY", "BLOCKED", "RUNNING", "NEEDS_ATTENTION", "DONE"}
Rows == [id : Nat, status : Statuses, planning : BOOLEAN, blockers : SUBSET UnitNames,
         verdicts : SUBSET UnitNames, baseline : SUBSET UnitNames, home : UnitNames \union {NoName}]
Worktrees == [owner : Nat, chunks : SUBSET UnitNames, current : SUBSET UnitNames]
Parting == {"exit", "failed"}
Turning == {"agent", "advance", "key"}
Runs == [id : Nat, chunk : UnitNames, unit : UnitNames, at : Turning \union Propagating \union Parting,
         verdicts : SUBSET UnitNames, new : UnitNames \union {NoName}]

NameTypes ==
  /\ DOMAIN rows \subseteq UnitNames /\ rows = [n \in DOMAIN rows |-> rows[n]]
  /\ \A n \in DOMAIN rows : rows[n] \in Rows
  /\ DOMAIN folders \subseteq UnitNames /\ folders = [n \in DOMAIN folders |-> folders[n]]
  /\ \A n \in DOMAIN folders : folders[n] \in Worktrees
  /\ goals \subseteq UnitNames /\ branches \subseteq UnitNames /\ tasks \subseteq Runs
  /\ past = [unclear |-> past.unclear, torn |-> past.torn, cut |-> past.cut, lost |-> past.lost,
             robbed |-> past.robbed, overtaken |-> past.overtaken, refused |-> past.refused]

\* Each row is one injection's.
RowsApart ==
  /\ count = [injections |-> count.injections, renames |-> count.renames, kills |-> count.kills]
  /\ count.injections \in Nat /\ 0 \notin past.torn
  /\ \A n \in DOMAIN rows : rows[n].id \in 1..count.injections
  /\ \A n, m \in DOMAIN rows : rows[n].id = rows[m].id => n = m

\* A unit is in the hands of one task, and one propagates at a time.
TasksApart ==
  /\ \A t, u \in tasks : t.at \notin Parting /\ u.at \notin Parting /\ t.id = u.id => t = u
  /\ \A t, u \in tasks : t.at \in Propagating /\ u.at \in Propagating => t = u

\* Where the branch and the worktree of a task's unit are.
BranchOf(t) == IF t.at \in {"folder", "row"} THEN t.new ELSE t.unit
TreeOf(t) == IF t.at = "row" THEN t.new ELSE t.unit

Owns(t, n) == WorktreeExists(n) /\ folders[n].owner \in {t.id} \union past.torn

Held(t) ==
  /\ t.unit \in DOMAIN rows /\ rows[t.unit].id = t.id /\ rows[t.unit].status = "RUNNING"
  /\ t.at \in {"agent", "blockers", "verdicts", "analyses", "key", "advance"} => rows[t.unit].home = t.unit
  /\ BranchOf(t) \in branches
  /\ Owns(t, TreeOf(t))

OwnChunk(t) ==
  LET tree == folders[TreeOf(t)] IN
  /\ t.at \in {"agent", "branch"} /\ rows[t.unit].planning => (t.unit \in tree.chunks => t.unit \in tree.current)
  /\ t.at \in {"branch", "folder"} => t.unit \notin tree.current
  /\ t.at \in {"branch", "folder", "row"} => t.new \in tree.current
  /\ t.at \in Propagating => rows[t.unit].planning
  /\ t.at \in (Propagating \union {"key"}) \ {"branch", "folder", "row"} => t.unit \in tree.current /\ t.new \in UnitNames
  /\ t.at = "advance" /\ rows[t.unit].planning => t.id \in past.unclear \/ t.unit \in tree.current

TasksHeld == \A t \in tasks : t.at \notin Parting => Held(t) /\ OwnChunk(t)

\* The unit of a task that failed.
Undone(t) ==
  /\ t.unit \in DOMAIN rows /\ rows[t.unit].id = t.id
  /\ t.unit \in branches /\ Owns(t, t.unit)
FailedUndone == \A t \in tasks : t.at = "failed" /\ t.id \notin past.robbed => Undone(t)

\* The new name is nobody else's before the row has it.
Holds(t) == t.at \notin Parting \/ (t.at = "failed" /\ t.id \notin past.robbed)
NewIsFree ==
  \A t \in tasks :
    /\ t.at \in {"folder", "row"} => \A u \in tasks : Holds(u) => u.unit # t.new
    /\ t.at = "row" => /\ t.unit \notin DOMAIN folders
                       /\ t.new \in DOMAIN rows =>
                            rows[t.new].planning \/ rows[t.new].status = "DONE" \/ rows[t.new].id \in past.unclear

\* A task that nobody took the key from has it.
KeyOf(t) == IF t.at \in {"home", "blockers", "verdicts", "analyses", "key"} THEN t.new ELSE t.unit
KeysHeld ==
  \A t \in tasks : t.id \notin past.robbed =>
    /\ t.unit \in DOMAIN rows /\ rows[t.unit].id = t.id
    /\ KeyOf(t) \in DOMAIN keys /\ keys[KeyOf(t)] = t.id
    /\ \A u \in tasks : u.id = t.id => u = t

\* Worktrees without a task.
Owned(n) ==
  \/ folders[n].owner \in past.torn
  \/ n \in DOMAIN rows /\ rows[n].id = folders[n].owner
  \/ \E t \in tasks : t.at = "row" /\ t.new = n /\ t.id = folders[n].owner

OnBranch(n) ==
  \/ n \in branches /\ \A t \in tasks : t.at = "folder" => t.new # n
  \/ n \notin folders[n].chunks /\ (n \in DOMAIN rows => rows[n].planning)

Ended == past.cut \union past.torn \union past.refused
KeepsPlan(n) ==
  \/ n \in folders[n].current \/ folders[n].current = {} \/ folders[n].owner \in Ended
  \/ n \in DOMAIN rows /\ ~rows[n].planning
  \/ \E t \in tasks : t.at \in {"agent", "branch", "folder", "advance"} /\ t.unit = n

TreeFits(n) ==
  folders[n] # NoTree =>
    /\ folders[n].current \subseteq folders[n].chunks
    /\ Owned(n) /\ OnBranch(n) /\ KeepsPlan(n)
TreesFit == \A n \in DOMAIN folders : TreeFits(n)

HasChunk(n) ==
  ~rows[n].planning /\ rows[n].status # "DONE" /\ rows[n].id \notin past.unclear =>
    WorktreeExists(n) /\ n \in folders[n].current

\* The old names that rows may still have.
Old(places) == {t.new : t \in {u \in tasks : u.at \in places}}
Follows(S, places) == S \subseteq DOMAIN rows \union Old(places)
RefsFollow ==
  past.torn = {} =>
    /\ \A n \in DOMAIN rows :
         /\ Follows(rows[n].blockers, {"home", "blockers"})
         /\ rows[n].id \notin past.overtaken => Follows(rows[n].verdicts, {"home", "blockers", "verdicts"})
    /\ \A t \in tasks : t.at \notin Parting /\ t.id \notin past.overtaken =>
         Follows(t.verdicts, {"home", "blockers", "verdicts"})

NameIInv ==
  /\ NameTypes /\ RowsApart /\ TasksApart /\ TasksHeld /\ FailedUndone /\ NewIsFree /\ KeysHeld
  /\ TreesFit /\ RefsFollow /\ LaterPhaseHasChunk /\ PlansKept

LEMMA RowIs ==
  ASSUME NEW r \in Rows
  PROVE  /\ r = [id |-> r.id, status |-> r.status, planning |-> r.planning, blockers |-> r.blockers,
                 verdicts |-> r.verdicts, baseline |-> r.baseline, home |-> r.home]
         /\ r.id \in Nat /\ r.status \in Statuses /\ r.planning \in BOOLEAN /\ r.blockers \subseteq UnitNames
         /\ r.verdicts \subseteq UnitNames /\ r.baseline \subseteq UnitNames /\ r.home \in UnitNames \union {NoName}
BY DEF Rows

LEMMA RunIs ==
  ASSUME NEW t \in Runs
  PROVE  /\ t = [id |-> t.id, chunk |-> t.chunk, unit |-> t.unit, at |-> t.at, verdicts |-> t.verdicts, new |-> t.new]
         /\ t.id \in Nat /\ t.chunk \in UnitNames /\ t.unit \in UnitNames
         /\ t.at \in Turning \union Propagating \union Parting
         /\ t.verdicts \subseteq UnitNames /\ t.new \in UnitNames \union {NoName}
BY DEF Runs

\* The three parts of the types that steps change.
RowTypes == /\ DOMAIN rows \subseteq UnitNames /\ rows = [n \in DOMAIN rows |-> rows[n]]
            /\ \A n \in DOMAIN rows : rows[n] \in Rows
FolderTypes == /\ DOMAIN folders \subseteq UnitNames /\ folders = [n \in DOMAIN folders |-> folders[n]]
               /\ \A n \in DOMAIN folders : folders[n] \in Worktrees

LEMMA RowSet ==
  ASSUME RowTypes, NEW n \in DOMAIN rows, NEW r, rows' = [rows EXCEPT ![n] = r]
  PROVE  /\ DOMAIN rows' = DOMAIN rows /\ rows'[n] = r
         /\ \A m \in DOMAIN rows : m # n => rows'[m] = rows[m]
         /\ r \in Rows => RowTypes'
BY DEF RowTypes

LEMMA FolderWith ==
  ASSUME FolderTypes, NEW n \in UnitNames, NEW f, folders' = With(folders, n, f)
  PROVE  /\ DOMAIN folders' = DOMAIN folders \union {n} /\ folders'[n] = f
         /\ \A m \in DOMAIN folders : m # n => folders'[m] = folders[m]
         /\ f \in Worktrees => FolderTypes'
<1>1. /\ DOMAIN folders' = DOMAIN folders \union {n} /\ folders'[n] = f
      /\ \A m \in DOMAIN folders : m # n => folders'[m] = folders[m]
      /\ folders' = [m \in DOMAIN folders' |-> folders'[m]]
  BY DEF With, FolderTypes
<1> QED  BY <1>1 DEF FolderTypes

LEMMA FolderMoved ==
  ASSUME FolderTypes, NEW old \in DOMAIN folders, NEW new \in UnitNames, folders' = Moved(folders, old, new)
  PROVE  /\ DOMAIN folders' = (DOMAIN folders \ {old}) \union {new} /\ folders'[new] = folders[old]
         /\ \A m \in DOMAIN folders : m # old /\ m # new => folders'[m] = folders[m]
         /\ FolderTypes'
<1>1. /\ DOMAIN folders' = (DOMAIN folders \ {old}) \union {new} /\ folders'[new] = folders[old]
      /\ \A m \in DOMAIN folders : m # old /\ m # new => folders'[m] = folders[m]
      /\ folders' = [m \in DOMAIN folders' |-> folders'[m]]
  BY DEF Moved, With, Without, Restrict, RowTypes, FolderTypes
<1> QED  BY <1>1 DEF FolderTypes

LEMMA RowMoved ==
  ASSUME RowTypes, NEW old \in DOMAIN rows, NEW new \in UnitNames, rows' = Moved(rows, old, new)
  PROVE  /\ DOMAIN rows' = (DOMAIN rows \ {old}) \union {new} /\ rows'[new] = rows[old]
         /\ \A m \in DOMAIN rows : m # old /\ m # new => rows'[m] = rows[m]
         /\ RowTypes'
<1>1. /\ DOMAIN rows' = (DOMAIN rows \ {old}) \union {new} /\ rows'[new] = rows[old]
      /\ \A m \in DOMAIN rows : m # old /\ m # new => rows'[m] = rows[m]
      /\ rows' = [m \in DOMAIN rows' |-> rows'[m]]
  BY DEF Moved, With, Without, Restrict, RowTypes, FolderTypes
<1> QED  BY <1>1 DEF RowTypes

\* A task goes on: what it is about stays.
GoesOn(t, v) ==
  /\ tasks' = (tasks \ {t}) \union {v} /\ v \in Runs
  /\ v.id = t.id /\ v.chunk = t.chunk /\ v.verdicts = t.verdicts

LEMMA GotoIs ==
  ASSUME tasks \subseteq Runs, NEW t \in tasks, NEW p \in Turning \union Propagating \union Parting, Goto(t, p)
  PROVE  \E v : GoesOn(t, v) /\ v.at = p /\ v.unit = t.unit /\ v.new = t.new
<1>1. /\ t = [id |-> t.id, chunk |-> t.chunk, unit |-> t.unit, at |-> t.at, verdicts |-> t.verdicts, new |-> t.new]
      /\ t.id \in Nat /\ t.chunk \in UnitNames /\ t.unit \in UnitNames
      /\ t.verdicts \subseteq UnitNames /\ t.new \in UnitNames \union {NoName}
  BY RunIs
<1> DEFINE v == [id |-> t.id, chunk |-> t.chunk, unit |-> t.unit, at |-> p, verdicts |-> t.verdicts, new |-> t.new]
<1>2. tasks' = (tasks \ {t}) \union {v}
  BY <1>1 DEF Goto
<1>3. v \in Runs
  BY <1>1 DEF Runs
<1> QED  BY <1>2, <1>3 DEF GoesOn

\* What a step leaves alone, but for some rows, branches and worktrees.
PastGrows ==
  /\ past.unclear \subseteq past'.unclear /\ past.torn \subseteq past'.torn /\ past.cut \subseteq past'.cut
  /\ past.robbed \subseteq past'.robbed /\ past.overtaken \subseteq past'.overtaken
  /\ past.refused \subseteq past'.refused

RowStays(n) ==
  /\ n \in DOMAIN rows' /\ rows'[n].id = rows[n].id /\ rows'[n].planning = rows[n].planning
  /\ rows'[n].home = rows[n].home
  /\ rows[n].status = "RUNNING" => rows'[n].status = "RUNNING"
  /\ rows[n].status = "DONE" => rows'[n].status = "DONE"

Touches(R, B, F) ==
  /\ PastGrows
  /\ DOMAIN rows \subseteq DOMAIN rows' \union R /\ DOMAIN rows' \subseteq DOMAIN rows \union R
  /\ \A n \in DOMAIN rows \ R : RowStays(n)
  /\ branches \ B \subseteq branches' /\ branches' \subseteq branches \union B
  /\ DOMAIN folders' \subseteq DOMAIN folders \union F
  /\ \A n \in DOMAIN folders \ F : n \in DOMAIN folders' /\ folders'[n] = folders[n]

\* What the tasks it is about must show of the names K, and that no other's are touched.
Replaces(G, W, K) ==
  /\ tasks' = (tasks \ G) \union W
  /\ \A g \in G : g.unit \in K /\ (g.at = "row" => g.new \in K)
  /\ \A w \in W :
       /\ w.at \notin Parting => (Held(w) /\ OwnChunk(w))'
       /\ w.at = "failed" /\ w.id \notin past'.robbed => Undone(w)'
       /\ w.at = "folder" => w.new \in K
  /\ \A n \in K : /\ n \in DOMAIN folders' => TreeFits(n)'
                  /\ n \in DOMAIN rows' => HasChunk(n)'

Spares(G, R, B, F) ==
  \A u \in tasks \ G : Holds(u) => u.unit \notin R /\ BranchOf(u) \notin B /\ TreeOf(u) \notin F

LEMMA OthersStay ==
  ASSUME TasksHeld, FailedUndone, NEW R, NEW B, NEW F, NEW G, NEW W, NEW K,
         Touches(R, B, F), Replaces(G, W, K), Spares(G, R, B, F)
  PROVE  TasksHeld' /\ FailedUndone'
<1>1. ASSUME NEW u \in tasks', (u.at \notin Parting)' PROVE Held(u)' /\ OwnChunk(u)'
  <2>1. CASE u \in W
    BY <1>1, <2>1 DEF Replaces
  <2>2. CASE u \in tasks \ G
    <3>1. Held(u) /\ OwnChunk(u) /\ u.unit \notin R /\ BranchOf(u) \notin B /\ TreeOf(u) \notin F
      BY <1>1, <2>2 DEF TasksHeld, Spares, Holds
    <3>2. RowStays(u.unit) /\ rows[u.unit].status = "RUNNING" /\ TreeOf(u) \in DOMAIN folders
      BY <3>1 DEF Touches, Held, Owns, WorktreeExists
    <3>3. folders'[TreeOf(u)] = folders[TreeOf(u)] /\ TreeOf(u) \in DOMAIN folders' /\ PastGrows
      BY <3>1, <3>2 DEF Touches
    <3>4. Held(u)'
      BY <3>1, <3>2, <3>3 DEF Touches, Held, Owns, WorktreeExists, RowStays, PastGrows, BranchOf, TreeOf
    <3>5. OwnChunk(u)'
      BY <3>1, <3>2, <3>3 DEF OwnChunk, RowStays, PastGrows, TreeOf
    <3> QED  BY <3>4, <3>5
  <2> QED  BY <2>1, <2>2 DEF Replaces
<1>2. ASSUME NEW u \in tasks', u.at = "failed", u.id \notin past'.robbed PROVE Undone(u)'
  <2>1. CASE u \in W
    BY <1>2, <2>1 DEF Replaces
  <2>2. CASE u \in tasks \ G
    <3>1. Undone(u) /\ u.unit \notin R /\ u.unit \notin B /\ u.unit \notin F
      BY <1>2, <2>2 DEF FailedUndone, Spares, Holds, Touches, PastGrows, BranchOf, TreeOf
    <3>2. RowStays(u.unit) /\ u.unit \in DOMAIN folders
      BY <3>1 DEF Touches, Undone, Owns, WorktreeExists
    <3>3. folders'[u.unit] = folders[u.unit] /\ u.unit \in DOMAIN folders' /\ PastGrows
      BY <3>1, <3>2 DEF Touches
    <3> QED  BY <3>1, <3>2, <3>3 DEF Touches, Undone, Owns, WorktreeExists, RowStays, PastGrows
  <2> QED  BY <2>1, <2>2 DEF Replaces
<1> QED  BY <1>1, <1>2 DEF TasksHeld, FailedUndone

LEMMA TreesStay ==
  ASSUME TreesFit, LaterPhaseHasChunk, NEW R, NEW B, NEW F, NEW G, NEW W, NEW K,
         Touches(R, B, F), Replaces(G, W, K), R \union B \union F \subseteq K
  PROVE  TreesFit' /\ LaterPhaseHasChunk'
<1>1. ASSUME NEW n \in DOMAIN folders' PROVE TreeFits(n)'
  <2>1. CASE n \in K
    BY <2>1 DEF Replaces
  <2>2. CASE n \notin K
    <3>1. n \in DOMAIN folders /\ folders'[n] = folders[n] /\ TreeFits(n) /\ PastGrows
      BY <2>2 DEF Touches, TreesFit
    <3>2. n \in DOMAIN rows <=> n \in DOMAIN rows'
      BY <2>2 DEF Touches
    <3>3. n \in DOMAIN rows => RowStays(n)
      BY <2>2 DEF Touches
    <3>4. \A g \in tasks : g.unit = n \/ (g.at = "row" /\ g.new = n) => g \in tasks'
      BY <2>2 DEF Replaces
    <3>5. \A g \in tasks' : g.at = "folder" /\ g.new = n => g \in tasks
      BY <2>2 DEF Replaces
    <3>6. n \in branches <=> n \in branches'
      BY <2>2 DEF Touches
    <3> HIDE DEF Touches, Replaces
    <3>7. SUFFICES ASSUME folders[n] # NoTree PROVE (folders[n].current \subseteq folders[n].chunks /\ Owned(n) /\ OnBranch(n) /\ KeepsPlan(n))'
      BY <3>1 DEF TreeFits, NoTree
    <3>8. folders[n].current \subseteq folders[n].chunks /\ Owned(n) /\ OnBranch(n) /\ KeepsPlan(n)
      BY <3>1, <3>7 DEF TreeFits
    <3>9. Owned(n)'
      BY <3>1, <3>2, <3>3, <3>4, <3>8 DEF Owned, RowStays, PastGrows
    <3>10. OnBranch(n)'
      BY <3>1, <3>2, <3>3, <3>5, <3>6, <3>8 DEF OnBranch, RowStays
    <3>11. KeepsPlan(n)'
      BY <3>1, <3>2, <3>3, <3>4, <3>8 DEF KeepsPlan, RowStays, PastGrows, Ended
    <3> QED  BY <3>1, <3>8, <3>9, <3>10, <3>11
  <2> QED  BY <2>1, <2>2
<1>2. ASSUME NEW n \in DOMAIN rows' PROVE HasChunk(n)'
  <2>1. CASE n \in K
    BY <2>1 DEF Replaces
  <2>2. CASE n \notin K
    <3>1. RowStays(n) /\ HasChunk(n) /\ PastGrows
      BY <2>2 DEF Touches, LaterPhaseHasChunk, HasChunk
    <3>2. n \in DOMAIN folders => n \in DOMAIN folders' /\ folders'[n] = folders[n]
      BY <2>2 DEF Touches
    <3> QED  BY <3>1, <3>2 DEF HasChunk, RowStays, WorktreeExists, PastGrows
  <2> QED  BY <2>1, <2>2
<1> QED  BY <1>1, <1>2 DEF TreesFit, LaterPhaseHasChunk, HasChunk

LEMMA Distinct ==
  ASSUME RowsApart, TasksApart, TasksHeld, FailedUndone, NewIsFree, KeysHeld,
         NEW t \in tasks, t.at \notin Parting, NEW u \in tasks, u # t, Holds(u)
  PROVE  /\ u.unit # t.unit /\ TreeOf(u) # t.unit /\ BranchOf(u) # t.unit
         /\ t.at \in {"folder", "row"} => u.unit # t.new
<1>1. Holds(t) /\ Held(t)
  BY DEF Holds, TasksHeld
<1>2. u.unit \in DOMAIN rows /\ rows[u.unit].id = u.id
  BY DEF Holds, TasksHeld, FailedUndone, Held, Undone
<1>3. u.id # t.id
  BY <1>1 DEF Holds, TasksApart, KeysHeld
<1>4. u.unit # t.unit
  BY <1>1, <1>2, <1>3 DEF Held
<1>5. u.at \in {"folder", "row"} => u.new # t.unit
  BY <1>1 DEF NewIsFree
<1>6. t.at \in {"folder", "row"} => u.unit # t.new
  BY DEF NewIsFree
<1> QED  BY <1>4, <1>5, <1>6 DEF TreeOf, BranchOf

LEMMA ReadyIsFree ==
  ASSUME RowsApart, TasksHeld, FailedUndone, KeysHeld, NEW n, Ready(n), NEW u \in tasks
  PROVE  /\ Holds(u) => u.unit # n
         /\ u.id \notin past.robbed => u.id # rows[n].id
<1>1. n \in DOMAIN rows /\ rows[n].status = "READY" /\ n \notin DOMAIN LiveKeys
  BY DEF Ready
<1>2. n \in DOMAIN keys => keys[n] # u.id
  BY <1>1 DEF LiveKeys, Restrict
<1>3. CASE u.at \notin Parting
  <2>1. Held(u)
    BY <1>3 DEF TasksHeld
  <2> QED  BY <1>1, <2>1 DEF Held, RowsApart
<1>4. CASE u.at \in Parting
  <2>1. KeyOf(u) = u.unit
    BY <1>4 DEF KeyOf, Parting
  <2>2. u.id \notin past.robbed => u.unit \in DOMAIN rows /\ rows[u.unit].id = u.id /\ u.unit \in DOMAIN keys /\ keys[u.unit] = u.id
    BY <2>1 DEF KeysHeld
  <2> QED  BY <1>1, <1>2, <1>4, <2>2 DEF Holds, RowsApart
<1> QED  BY <1>3, <1>4

IdsStay == /\ DOMAIN rows' = DOMAIN rows
           /\ \A n \in DOMAIN rows : rows'[n].id = rows[n].id

LEMMA TasksStay ==
  ASSUME TasksApart, KeysHeld, tasks' = tasks, keys' \in {keys, LiveKeys}, PastGrows,
         \A n \in DOMAIN rows : n \in DOMAIN rows' /\ rows'[n].id = rows[n].id
  PROVE  TasksApart' /\ KeysHeld'
<1>1. TasksApart'
  BY DEF TasksApart
<1>2. ASSUME NEW t \in tasks, t.id \notin past.robbed
      PROVE  KeyOf(t) \in DOMAIN keys' /\ keys'[KeyOf(t)] = t.id
  BY <1>2 DEF KeysHeld, LiveKeys, Restrict
<1>3. KeysHeld'
  BY <1>2 DEF KeysHeld, KeyOf, PastGrows
<1> QED  BY <1>1, <1>3

LEMMA TaskGoesOn ==
  ASSUME TasksApart, KeysHeld, NEW t \in tasks, NEW v, GoesOn(t, v), t.at \notin Parting, PastGrows, IdsStay,
         KeyOf(v) = KeyOf(t), v.unit = t.unit, keys' = keys, v.at \in Propagating => t.at \in Propagating \/ ~Busy
  PROVE  TasksApart' /\ KeysHeld'
<1>1. TasksApart'
  BY DEF TasksApart, GoesOn, Busy
<1>2. KeysHeld'
  <2> SUFFICES ASSUME NEW u \in tasks', u.id \notin past'.robbed
               PROVE  /\ u.unit \in DOMAIN rows' /\ rows'[u.unit].id = u.id
                      /\ KeyOf(u) \in DOMAIN keys' /\ keys'[KeyOf(u)] = u.id
                      /\ \A w \in tasks' : w.id = u.id => w = u
    BY DEF KeysHeld, KeyOf
  <2>1. \E w \in tasks : w.id = u.id /\ w.unit = u.unit /\ KeyOf(w) = KeyOf(u) /\ (w = u \/ (w = t /\ u = v))
    BY DEF GoesOn
  <2> QED  BY <2>1 DEF KeysHeld, PastGrows, IdsStay, GoesOn
<1> QED  BY <1>1, <1>2

LEMMA RowsStayApart ==
  ASSUME RowsApart, IdsStay, count' = count, past'.torn = past.torn
  PROVE  RowsApart'
BY DEF RowsApart, IdsStay

\* Nobody is in the middle of a new name.
LEMMA NoNewName ==
  ASSUME \A t \in tasks' : t.at \notin {"folder", "row"}
  PROVE  NewIsFree'
BY DEF NewIsFree

LEMMA NotBusy ==
  ASSUME tasks \subseteq Runs, ~Busy, NEW t \in tasks
  PROVE  t.at \in Turning \union Parting /\ KeyOf(t) = (IF t.at = "key" THEN t.new ELSE t.unit)
         /\ BranchOf(t) = t.unit /\ TreeOf(t) = t.unit
<1>1. t.at \in Turning \union Propagating \union Parting
  BY RunIs
<1> QED  BY <1>1 DEF Busy, Propagating, Turning, Parting, KeyOf, BranchOf, TreeOf

LEMMA TypesAre == NameTypes <=> /\ RowTypes /\ FolderTypes /\ goals \subseteq UnitNames /\ branches \subseteq UnitNames
    /\ tasks \subseteq Runs
    /\ past = [unclear |-> past.unclear, torn |-> past.torn, cut |-> past.cut, lost |-> past.lost,
             robbed |-> past.robbed, overtaken |-> past.overtaken, refused |-> past.refused]
BY DEF NameTypes, RowTypes, FolderTypes

LEMMA NothingLost ==
  ASSUME PlansKept, PastGrows, past'.lost = past.lost
  PROVE  PlansKept'
BY DEF PlansKept, PastGrows

\* Requests that change rows only.
LEMMA RowsOnlyKeeps ==
  ASSUME NameIInv, RowTypes', IdsStay, \A n \in DOMAIN rows : RowStays(n), RefsFollow',
         UNCHANGED <<goals, branches, folders, tasks, keys, count, past>>
  PROVE  NameIInv'
<1>1. /\ NameTypes /\ RowsApart /\ TasksApart /\ TasksHeld /\ FailedUndone /\ NewIsFree /\ KeysHeld
      /\ TreesFit /\ RefsFollow /\ LaterPhaseHasChunk /\ PlansKept
  BY DEF NameIInv
<1>2. PastGrows
  BY DEF PastGrows
<1>3. Touches({}, {}, {}) /\ Replaces({}, {}, {}) /\ Spares({}, {}, {}, {})
  BY <1>2 DEF Touches, Replaces, Spares, IdsStay
<1>4. TasksHeld' /\ FailedUndone' /\ TreesFit' /\ LaterPhaseHasChunk'
  BY <1>1, <1>3, OthersStay, TreesStay
<1>5. TasksApart' /\ KeysHeld' /\ RowsApart' /\ PlansKept'
  BY <1>1, <1>2, TasksStay, RowsStayApart, NothingLost DEF IdsStay
<1>6. NewIsFree'
  BY <1>1, <1>2 DEF NewIsFree, Holds, IdsStay, RowStays
<1>7. NameTypes'
  BY <1>1 DEF NameTypes, RowTypes
<1> QED  BY <1>4, <1>5, <1>6, <1>7 DEF NameIInv

LEMMA RetryUnitKeeps == ASSUME NameIInv, NEW n \in UnitNames, RetryUnit(n) PROVE NameIInv'
<1> DEFINE old == rows[n]
           r == [id |-> old.id, status |-> "READY", planning |-> old.planning, blockers |-> old.blockers,
                 verdicts |-> old.verdicts, baseline |-> old.baseline, home |-> old.home]
<1>1. NameTypes /\ RowTypes /\ RefsFollow
  BY TypesAre DEF NameIInv
<1>2. /\ n \in DOMAIN rows /\ old.status = "NEEDS_ATTENTION"
      /\ UNCHANGED <<goals, branches, folders, tasks, keys, count, past>>
  BY DEF RetryUnit
<1>3. old \in Rows
  BY <1>1, <1>2 DEF RowTypes
<1>4. rows' = [rows EXCEPT ![n] = r]
  <2>1. [old EXCEPT !.status = "READY"] = r
    BY <1>3, RowIs
  <2> QED  BY <2>1 DEF RetryUnit
<1>5. r \in Rows
  BY <1>3, RowIs DEF Rows, Statuses
<1>6. /\ DOMAIN rows' = DOMAIN rows /\ rows'[n] = r /\ RowTypes'
      /\ \A m \in DOMAIN rows : m # n => rows'[m] = rows[m]
  BY <1>1, <1>2, <1>4, <1>5, RowSet
<1>7. IdsStay /\ \A m \in DOMAIN rows : RowStays(m)
  BY <1>2, <1>6 DEF IdsStay, RowStays
<1>8. RefsFollow'
  BY <1>1, <1>2, <1>6 DEF RefsFollow, Follows, Old
<1> QED  BY <1>2, <1>6, <1>7, <1>8, RowsOnlyKeeps

\* A verdict is added to a row.
Judged(k, e) == [id |-> rows[k].id, status |-> rows[k].status, planning |-> rows[k].planning,
                 blockers |-> rows[k].blockers, verdicts |-> rows[k].verdicts \union {e},
                 baseline |-> rows[k].baseline, home |-> rows[k].home]

LEMMA JudgeKeeps == ASSUME NameIInv, NEW n \in UnitNames, NEW m \in UnitNames, Judge(n, m), RenameBounds PROVE NameIInv'
<1>1. NameTypes /\ RowTypes /\ RefsFollow
  BY TypesAre DEF NameIInv
<1>2. /\ n \in DOMAIN rows /\ m \in DOMAIN rows /\ n # m
      /\ UNCHANGED <<goals, branches, folders, tasks, keys, count, past>>
  BY RenameBounds DEF Judge, RenameBounds
<1>3. \A k \in DOMAIN rows, e \in UnitNames : [rows[k] EXCEPT !.verdicts = rows[k].verdicts \union {e}] = Judged(k, e) /\ Judged(k, e) \in Rows
  <2> SUFFICES ASSUME NEW k \in DOMAIN rows, NEW e \in UnitNames
               PROVE  [rows[k] EXCEPT !.verdicts = rows[k].verdicts \union {e}] = Judged(k, e) /\ Judged(k, e) \in Rows
    OBVIOUS
  <2>1. rows[k] \in Rows
    BY <1>1 DEF RowTypes
  <2>2. [rows[k] EXCEPT !.verdicts = rows[k].verdicts \union {e}] = Judged(k, e)
    BY <2>1, RowIs DEF Judged
  <2>3. Judged(k, e) \in Rows
    BY <2>1, RowIs DEF Judged, Rows
  <2> QED  BY <2>2, <2>3
<1>4. rows' = [rows EXCEPT ![n] = Judged(n, m), ![m] = Judged(m, n)]
  BY <1>2, <1>3 DEF Judge
<1>5. /\ DOMAIN rows' = DOMAIN rows /\ rows'[n] = Judged(n, m) /\ rows'[m] = Judged(m, n) /\ RowTypes'
      /\ \A k \in DOMAIN rows : k # m /\ k # n => rows'[k] = rows[k]
  BY <1>1, <1>2, <1>3, <1>4 DEF RowTypes
<1>6. IdsStay /\ \A k \in DOMAIN rows : RowStays(k)
  BY <1>2, <1>5 DEF IdsStay, RowStays, Judged
<1>7. RefsFollow'
  BY <1>1, <1>2, <1>5 DEF RefsFollow, Follows, Old, Judged
<1> QED  BY <1>2, <1>5, <1>6, <1>7, RowsOnlyKeeps

LEMMA InjectKeeps == ASSUME NameIInv, NEW n \in UnitNames, NEW waits \in SUBSET DOMAIN rows, Inject(n, waits) PROVE NameIInv'
<1> DEFINE r == [id |-> count.injections + 1, status |-> IF waits = {} THEN "READY" ELSE "BLOCKED",
                 planning |-> TRUE, blockers |-> waits, verdicts |-> {}, baseline |-> {}, home |-> NoName]
<1>1. /\ NameTypes /\ RowsApart /\ TasksApart /\ TasksHeld /\ FailedUndone /\ NewIsFree /\ KeysHeld
      /\ TreesFit /\ RefsFollow /\ LaterPhaseHasChunk /\ PlansKept /\ RowTypes /\ tasks \subseteq Runs
  BY TypesAre DEF NameIInv
<1>2. /\ n \notin DOMAIN rows /\ ~Busy
      /\ UNCHANGED <<goals, branches, folders, tasks, keys, past>>
  BY DEF Inject
<1>3. /\ count' = [injections |-> count.injections + 1, renames |-> count.renames, kills |-> count.kills]
      /\ count'.injections = count.injections + 1
  BY <1>1 DEF Inject, Bump, RowsApart
<1>4. rows' = With(rows, n, r)
  BY <1>3 DEF Inject
<1>5. r \in Rows
  BY <1>1 DEF Rows, RowTypes, RowsApart, Statuses
<1>6. r.id = count.injections + 1 /\ r.planning /\ r.blockers = waits /\ r.verdicts = {}
  OBVIOUS
<1> HIDE DEF r
<1>7. /\ DOMAIN rows' = DOMAIN rows \union {n} /\ rows'[n] = r
      /\ \A k \in DOMAIN rows : rows'[k] = rows[k]
  BY <1>2, <1>4 DEF With
<1>8. rows' = [k \in DOMAIN rows' |-> rows'[k]]
  BY <1>4 DEF With
<1>9. RowTypes'
  BY <1>1, <1>5, <1>7, <1>8 DEF RowTypes
<1>10. PastGrows /\ \A k \in DOMAIN rows : RowStays(k)
  BY <1>2, <1>7 DEF PastGrows, RowStays
<1>11. Touches({n}, {}, {})
  BY <1>2, <1>7, <1>10 DEF Touches
<1>12. \A t \in tasks : t.at \in Turning \union Parting
  BY <1>1, <1>2, NotBusy
<1>13. Spares({}, {n}, {}, {})
  BY <1>1, <1>2 DEF Spares, Holds, TasksHeld, FailedUndone, Held, Undone
<1>14. ASSUME n \in DOMAIN folders PROVE TreeFits(n)'
  <2>1. TreeFits(n)
    BY <1>1, <1>14 DEF TreesFit
  <2>2. \A t \in tasks : t.at # "row" /\ t.at # "folder"
    BY <1>12 DEF Turning, Parting
  <2> QED  BY <1>2, <1>6, <1>7, <2>1, <2>2 DEF TreeFits, Owned, OnBranch, KeepsPlan, Ended
<1>15. Replaces({}, {}, {n})
  BY <1>2, <1>6, <1>7, <1>14 DEF Replaces, HasChunk
<1>16. TasksHeld' /\ FailedUndone' /\ TreesFit' /\ LaterPhaseHasChunk'
  BY <1>1, <1>11, <1>13, <1>15, OthersStay, TreesStay
<1>17. TasksApart' /\ KeysHeld' /\ PlansKept'
  BY <1>1, <1>2, <1>7, <1>10, TasksStay, NothingLost DEF RowStays
<1>18. RowsApart'
  <2>1. \A k \in DOMAIN rows : rows[k].id \in Nat
    BY <1>1, RowIs DEF RowTypes
  <2> QED  BY <1>1, <1>2, <1>3, <1>6, <1>7, <2>1 DEF RowsApart
<1>19. NewIsFree'
  BY <1>2, <1>12, NoNewName DEF Turning, Parting
<1>20. RefsFollow'
  BY <1>1, <1>2, <1>6, <1>7 DEF RefsFollow, Follows, Old
<1>21. NameTypes'
  BY <1>1, <1>2, <1>9 DEF NameTypes, RowTypes
<1> QED  BY <1>16, <1>17, <1>18, <1>19, <1>20, <1>21 DEF NameIInv

LEMMA ActivationFailsKeeps == ASSUME NameIInv, NEW n \in UnitNames, ActivationFails(n) PROVE NameIInv'
<1> DEFINE old == rows[n]
           r == [id |-> old.id, status |-> "NEEDS_ATTENTION", planning |-> old.planning, blockers |-> old.blockers,
                 verdicts |-> old.verdicts, baseline |-> old.baseline, home |-> old.home]
<1>1. /\ NameTypes /\ RowsApart /\ TasksApart /\ TasksHeld /\ FailedUndone /\ NewIsFree /\ KeysHeld
      /\ TreesFit /\ RefsFollow /\ LaterPhaseHasChunk /\ PlansKept /\ RowTypes /\ FolderTypes /\ tasks \subseteq Runs
  BY TypesAre DEF NameIInv
<1>2. /\ n \in DOMAIN rows /\ ~Busy /\ Ready(n) /\ old.planning /\ n \notin Tree(n).chunks
      /\ old.status = "READY"
      /\ folders' = With(folders, n, NoTree) /\ branches' = BranchesWith(n) /\ keys' = LiveKeys
      /\ past' = IF Tree(n).current = {} THEN past ELSE [past EXCEPT !.lost = @ \union {Tree(n).owner}]
      /\ UNCHANGED <<goals, tasks, count>>
  BY DEF ActivationFails, Ready
<1>3. old \in Rows
  BY <1>1, <1>2 DEF RowTypes
<1>4. rows' = [rows EXCEPT ![n] = r]
  <2>1. [old EXCEPT !.status = "NEEDS_ATTENTION"] = r
    BY <1>3, RowIs
  <2> QED  BY <2>1 DEF ActivationFails
<1>5. r \in Rows
  BY <1>3, RowIs DEF Rows, Statuses
<1>6. r.id = old.id /\ r.planning = old.planning /\ r.home = old.home /\ r.blockers = old.blockers /\ r.verdicts = old.verdicts
  OBVIOUS
<1>7. /\ DOMAIN rows' = DOMAIN rows /\ rows'[n] = r /\ RowTypes'
      /\ \A m \in DOMAIN rows : m # n => rows'[m] = rows[m]
  BY <1>1, <1>2, <1>4, <1>5, RowSet
<1> HIDE DEF r
<1>8. NoTree \in Worktrees
  BY DEF NoTree, Worktrees
<1>9. /\ DOMAIN folders' = DOMAIN folders \union {n} /\ folders'[n] = NoTree /\ FolderTypes'
      /\ \A m \in DOMAIN folders : m # n => folders'[m] = folders[m]
  BY <1>1, <1>2, <1>8, FolderWith
<1>10. /\ PastGrows /\ past'.robbed = past.robbed /\ past'.unclear = past.unclear
       /\ past'.torn = past.torn /\ past'.overtaken = past.overtaken /\ Ended' = Ended
       /\ past'.lost = IF Tree(n).current = {} THEN past.lost ELSE past.lost \union {Tree(n).owner}
       /\ past' = [unclear |-> past'.unclear, torn |-> past'.torn, cut |-> past'.cut, lost |-> past'.lost,
                   robbed |-> past'.robbed, overtaken |-> past'.overtaken, refused |-> past'.refused]
  BY <1>1, <1>2 DEF PastGrows, NameTypes, Ended
<1>11. \A k \in DOMAIN rows : RowStays(k)
  BY <1>2, <1>6, <1>7 DEF RowStays
<1>12. branches \subseteq branches' /\ branches' \subseteq branches \union {n}
  BY <1>2 DEF BranchesWith
<1>13. Touches({}, {n}, {n})
  BY <1>7, <1>9, <1>10, <1>11, <1>12 DEF Touches
<1>14. \A t \in tasks : t.at \in Turning \union Parting /\ BranchOf(t) = t.unit /\ TreeOf(t) = t.unit
  BY <1>1, <1>2, NotBusy
<1>15. Spares({}, {}, {n}, {n})
  BY <1>1, <1>2, <1>14, ReadyIsFree DEF Spares
<1>16. Replaces({}, {}, {n})
  BY <1>2, <1>6, <1>7, <1>9 DEF Replaces, HasChunk, TreeFits
<1>17. TasksHeld' /\ FailedUndone' /\ TreesFit' /\ LaterPhaseHasChunk'
  BY <1>1, <1>13, <1>15, <1>16, OthersStay, TreesStay
<1>18. TasksApart' /\ KeysHeld'
  BY <1>1, <1>2, <1>7, <1>10, <1>11, TasksStay DEF RowStays
<1>19. RowsApart'
  BY <1>1, <1>2, <1>6, <1>7, RowsStayApart DEF IdsStay
<1>20. NewIsFree'
  BY <1>2, <1>14, NoNewName DEF Turning, Parting
<1>21. RefsFollow'
  BY <1>1, <1>2, <1>6, <1>7, <1>10 DEF RefsFollow, Follows, Old
<1>22. NameTypes'
  <2>1. branches' \subseteq UnitNames
    BY <1>1, <1>12 DEF NameTypes
  <2> QED  BY <1>1, <1>2, <1>7, <1>9, <1>10, <2>1 DEF NameTypes, RowTypes, FolderTypes
<1>23. PlansKept'
  <2>1. CASE ~WorktreeExists(n)
    BY <1>1, <1>10, <2>1 DEF Tree, PlansKept, Ended
  <2>2. CASE WorktreeExists(n)
    <3>1. TreeFits(n) /\ folders[n] # NoTree /\ Tree(n) = folders[n]
      BY <1>1, <2>2 DEF WorktreeExists, TreesFit, Tree
    <3>2. \A t \in tasks : t.at \in {"agent", "branch", "folder", "advance"} => t.unit # n
      BY <1>1, <1>2, ReadyIsFree DEF Holds, Parting
    <3>3. folders[n].current = {} \/ folders[n].owner \in Ended
      BY <1>2, <3>1, <3>2 DEF TreeFits, KeepsPlan
    <3> QED  BY <1>1, <1>10, <3>1, <3>3 DEF PlansKept, Ended
  <2> QED  BY <2>1, <2>2
<1> QED  BY <1>17, <1>18, <1>19, <1>20, <1>21, <1>22, <1>23 DEF NameIInv

\* What steps write over a row.
RowWith(o, s, p, b, v, l, h) ==
  [id |-> o.id, status |-> s, planning |-> p, blockers |-> b, verdicts |-> v, baseline |-> l, home |-> h]
Begun(o, k, l) == [o EXCEPT !.status = "RUNNING", !.home = k, !.blockers = {}, !.baseline = l]
Ceased(o, v) == [o EXCEPT !.status = "NEEDS_ATTENTION", !.verdicts = v]
Homed(o, k, l) == [o EXCEPT !.home = k, !.baseline = l]
Advanced(o) == [o EXCEPT !.status = "READY", !.planning = FALSE, !.verdicts = {}]
Finished(o, v) == [o EXCEPT !.status = "DONE", !.verdicts = v]

LEMMA RowsWritten ==
  ASSUME NEW o \in Rows, NEW k, NEW v
  PROVE  /\ Begun(o, k, v) = RowWith(o, "RUNNING", o.planning, {}, o.verdicts, v, k)
         /\ Ceased(o, v) = RowWith(o, "NEEDS_ATTENTION", o.planning, o.blockers, v, o.baseline, o.home)
         /\ Homed(o, k, v) = RowWith(o, o.status, o.planning, o.blockers, o.verdicts, v, k)
         /\ Advanced(o) = RowWith(o, "READY", FALSE, o.blockers, {}, o.baseline, o.home)
         /\ Finished(o, v) = RowWith(o, "DONE", o.planning, o.blockers, v, o.baseline, o.home)
<1> DEFINE R(s, p, b, d, l, h) == RowWith(o, s, p, b, d, l, h)
<1>1. o = R(o.status, o.planning, o.blockers, o.verdicts, o.baseline, o.home)
  BY RowIs DEF RowWith
<1>3. /\ Begun(o, k, v) = [[[[o EXCEPT !.status = "RUNNING"] EXCEPT !.home = k] EXCEPT !.blockers = {}] EXCEPT !.baseline = v]
      /\ Ceased(o, v) = [[o EXCEPT !.status = "NEEDS_ATTENTION"] EXCEPT !.verdicts = v]
      /\ Homed(o, k, v) = [[o EXCEPT !.home = k] EXCEPT !.baseline = v]
      /\ Advanced(o) = [[[o EXCEPT !.status = "READY"] EXCEPT !.planning = FALSE] EXCEPT !.verdicts = {}]
      /\ Finished(o, v) = [[o EXCEPT !.status = "DONE"] EXCEPT !.verdicts = v]
  BY DEF Begun, Ceased, Homed, Advanced, Finished
<1>4. Begun(o, k, v) = R("RUNNING", o.planning, {}, o.verdicts, v, k)
  <2>1. [o EXCEPT !.status = "RUNNING"] = R("RUNNING", o.planning, o.blockers, o.verdicts, o.baseline, o.home)
    BY <1>1 DEF RowWith
  <2>2. [R("RUNNING", o.planning, o.blockers, o.verdicts, o.baseline, o.home) EXCEPT !.home = k] = R("RUNNING", o.planning, o.blockers, o.verdicts, o.baseline, k)
    BY <1>1 DEF RowWith
  <2>3. [R("RUNNING", o.planning, o.blockers, o.verdicts, o.baseline, k) EXCEPT !.blockers = {}] = R("RUNNING", o.planning, {}, o.verdicts, o.baseline, k)
    BY <1>1 DEF RowWith
  <2>4. [R("RUNNING", o.planning, {}, o.verdicts, o.baseline, k) EXCEPT !.baseline = v] = R("RUNNING", o.planning, {}, o.verdicts, v, k)
    BY <1>1 DEF RowWith
  <2> HIDE DEF R
  <2> QED  BY <1>3, <2>1, <2>2, <2>3, <2>4
<1>5. Ceased(o, v) = R("NEEDS_ATTENTION", o.planning, o.blockers, v, o.baseline, o.home)
  <2>1. [o EXCEPT !.status = "NEEDS_ATTENTION"] = R("NEEDS_ATTENTION", o.planning, o.blockers, o.verdicts, o.baseline, o.home)
    BY <1>1 DEF RowWith
  <2>2. [R("NEEDS_ATTENTION", o.planning, o.blockers, o.verdicts, o.baseline, o.home) EXCEPT !.verdicts = v] = R("NEEDS_ATTENTION", o.planning, o.blockers, v, o.baseline, o.home)
    BY <1>1 DEF RowWith
  <2> HIDE DEF R
  <2> QED  BY <1>3, <2>1, <2>2
<1>6. Homed(o, k, v) = R(o.status, o.planning, o.blockers, o.verdicts, v, k)
  <2>1. [o EXCEPT !.home = k] = R(o.status, o.planning, o.blockers, o.verdicts, o.baseline, k)
    BY <1>1 DEF RowWith
  <2>2. [R(o.status, o.planning, o.blockers, o.verdicts, o.baseline, k) EXCEPT !.baseline = v] = R(o.status, o.planning, o.blockers, o.verdicts, v, k)
    BY <1>1 DEF RowWith
  <2> HIDE DEF R
  <2> QED  BY <1>3, <2>1, <2>2
<1>7. Advanced(o) = R("READY", FALSE, o.blockers, {}, o.baseline, o.home)
  <2>1. [o EXCEPT !.status = "READY"] = R("READY", o.planning, o.blockers, o.verdicts, o.baseline, o.home)
    BY <1>1 DEF RowWith
  <2>2. ASSUME NEW p
        PROVE  /\ [R("READY", o.planning, o.blockers, o.verdicts, o.baseline, o.home) EXCEPT !.planning = p]
                  = R("READY", p, o.blockers, o.verdicts, o.baseline, o.home)
               /\ [R("READY", p, o.blockers, o.verdicts, o.baseline, o.home) EXCEPT !.verdicts = {}]
                  = R("READY", p, o.blockers, {}, o.baseline, o.home)
    BY DEF RowWith
  <2> HIDE DEF R
  <2>3. /\ [R("READY", o.planning, o.blockers, o.verdicts, o.baseline, o.home) EXCEPT !.planning = FALSE]
           = R("READY", FALSE, o.blockers, o.verdicts, o.baseline, o.home)
        /\ [R("READY", FALSE, o.blockers, o.verdicts, o.baseline, o.home) EXCEPT !.verdicts = {}]
           = R("READY", FALSE, o.blockers, {}, o.baseline, o.home)
    BY <2>2, Zenon
  <2> QED  BY <1>3, <2>1, <2>3
<1>8. Finished(o, v) = R("DONE", o.planning, o.blockers, v, o.baseline, o.home)
  <2>1. [o EXCEPT !.status = "DONE"] = R("DONE", o.planning, o.blockers, o.verdicts, o.baseline, o.home)
    BY <1>1 DEF RowWith
  <2>2. [R("DONE", o.planning, o.blockers, o.verdicts, o.baseline, o.home) EXCEPT !.verdicts = v] = R("DONE", o.planning, o.blockers, v, o.baseline, o.home)
    BY <1>1 DEF RowWith
  <2> HIDE DEF R
  <2> QED  BY <1>3, <2>1, <2>2
<1> QED  BY <1>4, <1>5, <1>6, <1>7, <1>8

LEMMA WrittenFits ==
  ASSUME NEW o \in Rows, NEW s \in Statuses, NEW p \in BOOLEAN, NEW b \in SUBSET UnitNames,
         NEW v \in SUBSET UnitNames, NEW l \in SUBSET UnitNames, NEW h \in UnitNames \union {NoName}
  PROVE  LET r == RowWith(o, s, p, b, v, l, h)
         IN  /\ r \in Rows /\ r.id = o.id /\ r.status = s /\ r.planning = p /\ r.blockers = b /\ r.verdicts = v
             /\ r.baseline = l /\ r.home = h
BY RowIs DEF RowWith, Rows

\* A task begins to run unit n: what remains to show of it.
LEMMA RunKeeps ==
  ASSUME NameIInv, NEW n \in UnitNames, ~Busy, Ready(n), NEW baseline \in SUBSET UnitNames, Run(n, baseline),
         NEW f \in Worktrees, folders' = With(folders, n, f), branches' = BranchesWith(n),
         f # NoTree, f.owner = Tree(n).owner, f.chunks = Tree(n).chunks, f.current \subseteq f.chunks,
         IF rows[n].planning THEN n \in f.current ELSE f.current = Tree(n).current
  PROVE  NameIInv'
<1> DEFINE old == rows[n]
           r == RowWith(old, "RUNNING", old.planning, {}, old.verdicts, baseline, n)
<1>1. /\ NameTypes /\ RowsApart /\ TasksApart /\ TasksHeld /\ FailedUndone /\ NewIsFree /\ KeysHeld
      /\ TreesFit /\ RefsFollow /\ LaterPhaseHasChunk /\ PlansKept /\ RowTypes /\ FolderTypes /\ tasks \subseteq Runs
  BY TypesAre DEF NameIInv
<1>2. /\ n \in DOMAIN rows /\ old.status = "READY"
      /\ keys' = With(LiveKeys, n, old.id)
      /\ UNCHANGED <<goals, count, past>>
  BY DEF Run, Ready
<1>3. old \in Rows
  BY <1>1, <1>2 DEF RowTypes
<1>4. rows' = [rows EXCEPT ![n] = r]
  <2>1. rows' = [rows EXCEPT ![n] = Begun(rows[n], n, baseline)]
    BY DEF Run, Begun
  <2> QED  BY <1>3, <2>1, RowsWritten
<1>5. r \in Rows
  BY <1>3, RowIs, WrittenFits DEF Statuses
<1>6. /\ r.id = old.id /\ r.planning = old.planning /\ r.home = n /\ r.blockers = {} /\ r.verdicts = old.verdicts
      /\ r.status = "RUNNING"
  BY <1>3, RowIs, WrittenFits DEF Statuses
<1>7. /\ DOMAIN rows' = DOMAIN rows /\ rows'[n] = r /\ RowTypes'
      /\ \A m \in DOMAIN rows : m # n => rows'[m] = rows[m]
  BY <1>1, <1>2, <1>4, <1>5, RowSet
<1> HIDE DEF r
<1>8. [id |-> old.id, chunk |-> n, unit |-> n, at |-> "agent", verdicts |-> old.verdicts, new |-> NoName] \in Runs
  BY <1>3, RowIs DEF Runs, Turning
<1>9. PICK v \in Runs : /\ v.id = old.id /\ v.unit = n /\ v.at = "agent" /\ v.verdicts = old.verdicts
                       /\ tasks' = tasks \union {v}
  BY <1>8 DEF Run
<1>10. /\ DOMAIN folders' = DOMAIN folders \union {n} /\ folders'[n] = f /\ FolderTypes'
       /\ \A m \in DOMAIN folders : m # n => folders'[m] = folders[m]
  BY <1>1, FolderWith
<1>11. PastGrows /\ Ended' = Ended
  BY <1>2 DEF PastGrows, Ended
<1>12. branches \subseteq branches' /\ branches' \subseteq branches \union {n}
  BY DEF BranchesWith
<1>13. \A t \in tasks : t.at \in Turning \union Parting /\ BranchOf(t) = t.unit /\ TreeOf(t) = t.unit
  BY <1>1, NotBusy
<1>14. Touches({n}, {n}, {n})
  BY <1>2, <1>7, <1>10, <1>11, <1>12 DEF Touches, RowStays
<1>15. Spares({}, {n}, {n}, {n})
  BY <1>1, <1>13, ReadyIsFree DEF Spares
<1>16. Tree(n).owner \in {old.id} \union past.torn /\ n \in branches'
  <2>1. CASE WorktreeExists(n)
    <3>1. TreeFits(n) /\ folders[n] # NoTree /\ Tree(n) = folders[n] /\ branches' = branches
      BY <1>1, <2>1 DEF WorktreeExists, TreesFit, Tree, BranchesWith
    <3>2. Owned(n) /\ OnBranch(n) /\ KeepsPlan(n)
      BY <3>1 DEF TreeFits
    <3>3. \A t \in tasks : t.at # "row"
      BY <1>13 DEF Turning, Parting
    <3>4. n \in Tree(n).chunks \/ ~old.planning
      OBVIOUS
    <3> QED  BY <1>2, <3>1, <3>2, <3>3, <3>4 DEF Owned, OnBranch
  <2>2. CASE ~WorktreeExists(n)
    BY <2>2 DEF Tree, BranchesWith
  <2> QED  BY <2>1, <2>2
<1>18. Held(v)'
  BY <1>2, <1>6, <1>7, <1>9, <1>10, <1>16 DEF Held, BranchOf, TreeOf, Owns, WorktreeExists, NoTree
<1>19. OwnChunk(v)'
  BY <1>2, <1>6, <1>7, <1>9, <1>10 DEF OwnChunk, TreeOf, Propagating
<1>20. HasChunk(n)'
  <2>1. HasChunk(n)
    BY <1>1, <1>2 DEF LaterPhaseHasChunk, HasChunk
  <2> QED  BY <1>2, <1>6, <1>7, <1>10, <2>1 DEF HasChunk, WorktreeExists, Tree
<1>21. TreeFits(n)'
  <2>1. Owned(n)'
    BY <1>2, <1>6, <1>7, <1>10, <1>16 DEF Owned
  <2>2. \A t \in tasks' : t.at # "folder"
    BY <1>2, <1>9, <1>13 DEF Turning, Parting
  <2>3. KeepsPlan(n)'
    BY <1>2, <1>9, <1>7 DEF KeepsPlan
  <2> QED  BY <1>10, <1>16, <2>1, <2>2, <2>3 DEF TreeFits, OnBranch
<1>22. Replaces({}, {v}, {n})
  BY <1>2, <1>9, <1>18, <1>19, <1>20, <1>21 DEF Replaces
<1>23. TasksHeld' /\ FailedUndone' /\ TreesFit' /\ LaterPhaseHasChunk'
  BY <1>1, <1>14, <1>15, <1>22, OthersStay, TreesStay
<1>24. TasksApart'
  BY <1>1, <1>2, <1>9, <1>13, ReadyIsFree DEF TasksApart, Propagating, Turning, Parting, TasksHeld, Held, RowsApart
<1>25. KeysHeld'
  <2>1. /\ DOMAIN keys' = DOMAIN LiveKeys \union {n} /\ keys'[n] = old.id
        /\ \A k \in DOMAIN LiveKeys : k # n => keys'[k] = LiveKeys[k]
    BY <1>2 DEF With
  <2>2. \A t \in tasks : t.id \notin past.robbed => KeyOf(t) \in DOMAIN LiveKeys /\ LiveKeys[KeyOf(t)] = t.id
    BY <1>1 DEF KeysHeld, LiveKeys, Restrict
  <2>3. n \notin DOMAIN LiveKeys
    BY DEF Ready
  <2>4. \A t \in tasks : t.id \notin past.robbed => t.id # old.id
    BY <1>1, ReadyIsFree
  <2> SUFFICES ASSUME NEW u \in tasks', u.id \notin past.robbed
               PROVE  /\ u.unit \in DOMAIN rows' /\ rows'[u.unit].id = u.id
                      /\ KeyOf(u) \in DOMAIN keys' /\ keys'[KeyOf(u)] = u.id
                      /\ \A w \in tasks' : w.id = u.id => w = u
    BY <1>2 DEF KeysHeld, KeyOf
  <2>5. CASE u = v
    BY <1>2, <1>6, <1>7, <1>9, <2>1, <2>4, <2>5 DEF KeyOf
  <2>6. CASE u \in tasks
    BY <1>1, <1>2, <1>6, <1>7, <1>9, <2>1, <2>2, <2>3, <2>4, <2>6 DEF KeysHeld
  <2> QED  BY <1>9, <2>5, <2>6
<1>26. RowsApart'
  BY <1>1, <1>2, <1>6, <1>7, RowsStayApart DEF IdsStay
<1>27. NewIsFree'
  BY <1>2, <1>9, <1>13, NoNewName DEF Turning, Parting
<1>28. RefsFollow'
  BY <1>1, <1>2, <1>6, <1>7, <1>9 DEF RefsFollow, Follows, Old
<1>29. NameTypes'
  <2>1. branches' \subseteq UnitNames /\ tasks' \subseteq Runs
    BY <1>1, <1>9, <1>12 DEF NameTypes
  <2> QED  BY <1>1, <1>2, <1>7, <1>10, <2>1 DEF NameTypes, RowTypes, FolderTypes
<1>30. PlansKept'
  BY <1>1, <1>2 DEF PlansKept
<1> QED  BY <1>23, <1>24, <1>25, <1>26, <1>27, <1>28, <1>29, <1>30 DEF NameIInv

LEMMA TreeIs ==
  ASSUME NameIInv, NEW n \in DOMAIN rows
  PROVE  /\ Tree(n) \in Worktrees /\ Tree(n).current \subseteq Tree(n).chunks
         /\ Tree(n).chunks \subseteq UnitNames
         /\ WorktreeExists(n) => Tree(n) # NoTree
         /\ Tree(n) = [owner |-> Tree(n).owner, chunks |-> Tree(n).chunks, current |-> Tree(n).current]
<1>1. RowTypes /\ FolderTypes /\ goals \subseteq UnitNames /\ TreesFit
  BY TypesAre DEF NameIInv
<1>2. CASE WorktreeExists(n)
  <2>1. folders[n] \in Worktrees /\ Tree(n) = folders[n] /\ TreeFits(n) /\ folders[n] # NoTree
    BY <1>1, <1>2 DEF WorktreeExists, Tree, FolderTypes, TreesFit
  <2> QED  BY <2>1 DEF Worktrees, TreeFits
<1>3. CASE ~WorktreeExists(n)
  <2>1. rows[n].id \in Nat
    BY <1>1, RowIs DEF RowTypes
  <2>2. Tree(n) = [owner |-> rows[n].id, chunks |-> goals, current |-> {}]
    BY <1>3 DEF Tree
  <2> QED  BY <1>1, <1>3, <2>1, <2>2 DEF Worktrees
<1> QED  BY <1>2, <1>3

LEMMA DispatchPlanKeeps == ASSUME NameIInv, NEW n \in UnitNames, DispatchPlan(n) PROVE NameIInv'
<1> DEFINE current == Tree(n).current \union {n}
           f == [owner |-> Tree(n).owner, chunks |-> Tree(n).chunks, current |-> current]
<1>1. /\ n \in DOMAIN rows /\ ~Busy /\ Ready(n) /\ rows[n].planning /\ n \in Tree(n).chunks
      /\ branches' = BranchesWith(n) /\ Run(n, current)
  BY DEF DispatchPlan, Ready
<1>2. folders' = With(folders, n, f)
  <2>1. ASSUME NEW a, NEW b, NEW c, NEW d
        PROVE  [[owner |-> a, chunks |-> b, current |-> c] EXCEPT !.current = d] = [owner |-> a, chunks |-> b, current |-> d]
    OBVIOUS
  <2>2. [Tree(n) EXCEPT !.current = current] = f
    BY <1>1, <2>1, TreeIs
  <2> QED  BY <2>2 DEF DispatchPlan
<1>3. f \in Worktrees /\ current \in SUBSET UnitNames /\ f.current \subseteq f.chunks /\ f # NoTree
  BY <1>1, TreeIs DEF Worktrees, NoTree
<1>4. f.owner = Tree(n).owner /\ f.chunks = Tree(n).chunks /\ n \in f.current
  OBVIOUS
<1> HIDE DEF f, current
<1> QED  BY <1>1, <1>2, <1>3, <1>4, RunKeeps

LEMMA DispatchLaterKeeps == ASSUME NameIInv, NEW n \in UnitNames, DispatchLater(n) PROVE NameIInv'
<1>1. /\ n \in DOMAIN rows /\ ~Busy /\ Ready(n) /\ ~rows[n].planning /\ branches' = BranchesWith(n)
      /\ Run(n, rows[n].baseline) /\ folders' = With(folders, n, Tree(n))
  BY DEF DispatchLater, Ready
<1>2. rows[n].baseline \in SUBSET UnitNames
  BY <1>1, TypesAre, RowIs DEF NameIInv, RowTypes
<1>3. Tree(n) \in Worktrees /\ Tree(n).current \subseteq Tree(n).chunks /\ Tree(n) # NoTree
  <2>1. rows[n].id # 0
    BY <1>1 DEF NameIInv, RowsApart
  <2> QED  BY <1>1, <2>1, TreeIs DEF Tree, NoTree
<1> QED  BY <1>1, <1>2, <1>3, RunKeeps

PastIs == past = [unclear |-> past.unclear, torn |-> past.torn, cut |-> past.cut, lost |-> past.lost,
                  robbed |-> past.robbed, overtaken |-> past.overtaken, refused |-> past.refused]

\* What is left to show of a task that goes on once it is known what it touches.
LEMMA OnKeeps ==
  ASSUME NameIInv, NEW t \in tasks, NEW v, GoesOn(t, v), t.at \notin Parting, t.at \in Propagating \/ ~Busy,
         NEW R \in SUBSET {t.unit, t.new}, NEW B \in SUBSET {t.unit, t.new}, NEW F \in SUBSET {t.unit, t.new},
         t.new \in R \union B \union F => t.at \in {"folder", "row"} \/ (R = {} /\ F = {} /\ t.new \notin branches) \/ t.new = t.unit,
         Touches(R, B, F), Replaces({t}, {v}, {t.unit, t.new})
  PROVE  TasksHeld' /\ FailedUndone' /\ TreesFit' /\ LaterPhaseHasChunk'
<1>1. /\ NameTypes /\ RowsApart /\ TasksApart /\ TasksHeld /\ FailedUndone /\ NewIsFree /\ KeysHeld
      /\ TreesFit /\ LaterPhaseHasChunk /\ tasks \subseteq Runs
  BY TypesAre DEF NameIInv
<1>2. ASSUME NEW u \in tasks \ {t}, Holds(u)
      PROVE  u.unit \notin R /\ BranchOf(u) \notin B /\ TreeOf(u) \notin F
  <2>1. u.unit # t.unit /\ TreeOf(u) # t.unit /\ BranchOf(u) # t.unit
        /\ (t.at \in {"folder", "row"} => u.unit # t.new)
    BY <1>1, <1>2, Distinct
  <2>2. BranchOf(u) = u.unit /\ TreeOf(u) = u.unit
    <3>1. u.at \notin {"folder", "row"}
      BY <1>1 DEF TasksApart, Propagating, Busy
    <3> QED  BY <3>1 DEF BranchOf, TreeOf
  <2>3. u.unit \in branches
    BY <1>1, <1>2, <2>2 DEF Holds, TasksHeld, Held, FailedUndone, Undone
  <2> QED  BY <2>1, <2>2, <2>3
<1>3. Spares({t}, R, B, F)
  BY <1>2 DEF Spares
<1> QED  BY <1>1, <1>3, OthersStay, TreesStay

LEMMA BooksKeep ==
  ASSUME NameIInv, NEW t \in tasks, NEW v, GoesOn(t, v), t.at \in {"home", "blockers", "verdicts", "analyses"},
         v.at \in {"blockers", "verdicts", "analyses", "key"}, v.unit = t.unit, v.new = t.new,
         UNCHANGED <<goals, branches, folders, keys, count>>, PastGrows, past'.lost = past.lost, past'.torn = past.torn, PastIs',
         RowTypes', IdsStay, \A n \in DOMAIN rows \ {t.unit} : RowStays(n), rows'[t.unit].home = t.unit,
         rows'[t.unit].planning = rows[t.unit].planning, rows'[t.unit].status = rows[t.unit].status, RefsFollow'
  PROVE  NameIInv'
<1>1. /\ NameTypes /\ RowsApart /\ TasksApart /\ TasksHeld /\ FailedUndone /\ NewIsFree /\ KeysHeld
      /\ TreesFit /\ RefsFollow /\ LaterPhaseHasChunk /\ PlansKept
  BY DEF NameIInv
<1>2. t.at \in Propagating /\ t.at \notin Parting /\ v.at \notin Parting /\ v.id = t.id
      /\ TreeOf(t) = t.unit /\ TreeOf(v) = t.unit /\ BranchOf(t) = t.unit /\ BranchOf(v) = t.unit /\ KeyOf(v) = KeyOf(t)
  BY DEF Propagating, Parting, GoesOn, TreeOf, BranchOf, KeyOf
<1>3. Held(t) /\ OwnChunk(t)
  BY <1>1, <1>2 DEF TasksHeld
<1>4. Held(v)' /\ OwnChunk(v)'
  <2>1. Held(v)'
    BY <1>2, <1>3 DEF Held, IdsStay, Owns, WorktreeExists, PastGrows, TreeOf, BranchOf
  <2>2. /\ rows[t.unit].planning /\ t.unit \in folders[t.unit].current /\ t.new \in UnitNames
    BY <1>2, <1>3 DEF OwnChunk, Propagating
  <2>3. OwnChunk(v)'
    BY <1>2, <2>2 DEF OwnChunk, Propagating, TreeOf
  <2> QED  BY <2>1, <2>3
<1>5. Touches({t.unit}, {}, {})
  BY DEF Touches, IdsStay
<1>6. ASSUME NEW n \in {t.unit, t.new}, n \in DOMAIN folders PROVE TreeFits(n)'
  <2>1. TreeFits(n)
    BY <1>1, <1>6 DEF TreesFit
  <2>2. n \in DOMAIN rows' <=> n \in DOMAIN rows
    BY DEF IdsStay
  <2>3. n \in DOMAIN rows => rows'[n].id = rows[n].id /\ rows'[n].planning = rows[n].planning
    BY DEF IdsStay, RowStays
  <2>4. /\ \A g \in tasks : g.at \in {"row", "agent", "branch", "folder", "advance"} => g \in tasks'
        /\ \A g \in tasks' : g.at = "folder" => g \in tasks
    BY DEF GoesOn
  <2>5. CASE folders[n] # NoTree
    <3>1. Owned(n)'
      BY <2>1, <2>2, <2>3, <2>4, <2>5 DEF TreeFits, Owned, PastGrows
    <3>2. OnBranch(n)'
      BY <2>1, <2>2, <2>3, <2>4, <2>5 DEF TreeFits, OnBranch
    <3>3. KeepsPlan(n)'
      BY <2>1, <2>2, <2>3, <2>4, <2>5 DEF TreeFits, KeepsPlan, PastGrows, Ended
    <3> QED  BY <2>1, <2>5, <3>1, <3>2, <3>3 DEF TreeFits
  <2> QED  BY <2>5 DEF TreeFits, NoTree
<1>7. ASSUME NEW n \in {t.unit, t.new}, n \in DOMAIN rows' PROVE HasChunk(n)'
  <2>1. HasChunk(n) /\ n \in DOMAIN rows
    BY <1>1, <1>7 DEF LaterPhaseHasChunk, HasChunk, IdsStay
  <2> QED  BY <2>1 DEF HasChunk, IdsStay, RowStays, PastGrows, WorktreeExists
<1>8. Replaces({t}, {v}, {t.unit, t.new})
  BY <1>2, <1>4, <1>6, <1>7 DEF Replaces, GoesOn
<1>9. TasksHeld' /\ FailedUndone' /\ TreesFit' /\ LaterPhaseHasChunk'
  <2>1. {t.unit} \in SUBSET {t.unit, t.new} /\ {} \in SUBSET {t.unit, t.new}
    OBVIOUS
  <2>2. t.new \in {t.unit} \union {} \union {} => t.new = t.unit
    OBVIOUS
  <2> QED  BY <1>2, <1>5, <1>8, <2>1, <2>2, OnKeeps
<1>10. TasksApart' /\ KeysHeld'
  BY <1>1, <1>2, TaskGoesOn
<1>11. RowsApart' /\ PlansKept'
  BY <1>1, RowsStayApart, NothingLost
<1>12. NewIsFree'
  <2>1. \A u \in tasks' : u.at \notin {"folder", "row"}
    BY <1>1, <1>2 DEF TasksApart, GoesOn, Propagating
  <2> QED  BY <2>1, NoNewName
<1>13. NameTypes'
  BY <1>1 DEF NameTypes, RowTypes, PastIs, GoesOn
<1> QED  BY <1>9, <1>10, <1>11, <1>12, <1>13 DEF NameIInv

LEMMA UpdateAnalysesKeeps == ASSUME NameIInv, NEW t \in tasks, UpdateAnalyses(t) PROVE NameIInv'
<1>1. /\ NameTypes /\ RowTypes /\ TasksHeld /\ RefsFollow /\ TasksApart /\ tasks \subseteq Runs /\ PastIs
  BY TypesAre DEF NameIInv, NameTypes, PastIs
<1>2. t.at = "analyses" /\ Goto(t, "key") /\ UNCHANGED <<rows, goals, branches, folders, keys, count, past>>
  BY DEF UpdateAnalyses
<1>3. PICK v : GoesOn(t, v) /\ v.at = "key" /\ v.unit = t.unit /\ v.new = t.new
  BY <1>1, <1>2, GotoIs DEF Turning
<1>4. t.unit \in DOMAIN rows /\ rows[t.unit].home = t.unit
  BY <1>1, <1>2 DEF TasksHeld, Held, Parting
<1>5. PastGrows /\ IdsStay /\ \A n \in DOMAIN rows \ {t.unit} : RowStays(n)
  BY <1>2 DEF PastGrows, IdsStay, RowStays
<1>6. RefsFollow'
  <2>1. \A u \in tasks : u.at \notin {"home", "blockers", "verdicts"}
    BY <1>1, <1>2 DEF TasksApart, Propagating
  <2> QED  BY <1>1, <1>2, <1>3, <2>1 DEF RefsFollow, Follows, Old, GoesOn, Parting
<1> QED  BY <1>1, <1>2, <1>3, <1>4, <1>5, <1>6, BooksKeep DEF RowTypes, PastIs

LEMMA OneWritten ==
  ASSUME NEW o \in Rows, NEW x
  PROVE  /\ [o EXCEPT !.blockers = x] = RowWith(o, o.status, o.planning, x, o.verdicts, o.baseline, o.home)
         /\ [o EXCEPT !.verdicts = x] = RowWith(o, o.status, o.planning, o.blockers, x, o.baseline, o.home)
BY RowIs DEF RowWith

LEMMA Substituted ==
  ASSUME NEW S \in SUBSET UnitNames, NEW old, NEW new \in UnitNames
  PROVE  Subst(S, old, new) \in SUBSET UnitNames /\ Subst(S, old, new) \subseteq (S \ {old}) \union {new}
BY DEF Subst

LEMMA UpdateBlockedByKeeps == ASSUME NameIInv, NEW t \in tasks, UpdateBlockedBy(t) PROVE NameIInv'
<1>1. /\ NameTypes /\ RowTypes /\ TasksHeld /\ RefsFollow /\ TasksApart /\ tasks \subseteq Runs /\ PastIs
  BY TypesAre DEF NameIInv, NameTypes, PastIs
<1>2. /\ t.at = "blockers" /\ Goto(t, "verdicts") /\ UNCHANGED <<goals, branches, folders, keys, count, past>>
      /\ rows' = [n \in DOMAIN rows |-> [rows[n] EXCEPT !.blockers = Subst(rows[n].blockers, t.new, t.unit)]]
  BY DEF UpdateBlockedBy
<1>3. PICK v : GoesOn(t, v) /\ v.at = "verdicts" /\ v.unit = t.unit /\ v.new = t.new
  BY <1>1, <1>2, GotoIs DEF Propagating
<1>4. t.unit \in DOMAIN rows /\ rows[t.unit].home = t.unit /\ t.unit \in UnitNames
  BY <1>1, <1>2 DEF TasksHeld, Held, Parting, RowTypes
<1>5. ASSUME NEW n \in DOMAIN rows
      PROVE  /\ rows'[n] \in Rows /\ rows'[n].id = rows[n].id /\ rows'[n].status = rows[n].status
             /\ rows'[n].planning = rows[n].planning /\ rows'[n].home = rows[n].home /\ rows'[n].verdicts = rows[n].verdicts
             /\ rows'[n].blockers \subseteq (rows[n].blockers \ {t.new}) \union {t.unit}
  <2> DEFINE o == rows[n]
             b == Subst(rows[n].blockers, t.new, t.unit)
  <2>1. /\ o \in Rows /\ o.status \in Statuses /\ o.planning \in BOOLEAN /\ o.blockers \in SUBSET UnitNames
        /\ o.verdicts \in SUBSET UnitNames /\ o.baseline \in SUBSET UnitNames /\ o.home \in UnitNames \union {NoName}
    BY <1>1, RowIs DEF RowTypes
  <2>2. b \in SUBSET UnitNames /\ b \subseteq (o.blockers \ {t.new}) \union {t.unit}
    BY <1>4, <2>1, Substituted
  <2>3. rows'[n] = [o EXCEPT !.blockers = b]
    BY <1>2
  <2> HIDE DEF b, o
  <2>4. rows'[n] = RowWith(o, o.status, o.planning, b, o.verdicts, o.baseline, o.home)
    BY <2>1, <2>3, OneWritten
  <2>5. /\ rows'[n] \in Rows /\ rows'[n].id = o.id /\ rows'[n].status = o.status
        /\ rows'[n].planning = o.planning /\ rows'[n].home = o.home /\ rows'[n].verdicts = o.verdicts /\ rows'[n].blockers = b
    BY <2>1, <2>2, <2>4, WrittenFits
  <2> QED  BY <2>2, <2>5 DEF o
<1>6. DOMAIN rows' = DOMAIN rows /\ rows' = [n \in DOMAIN rows' |-> rows'[n]]
  BY <1>2
<1>7. RowTypes'
  BY <1>1, <1>5, <1>6 DEF RowTypes
<1>8. PastGrows /\ IdsStay /\ \A n \in DOMAIN rows \ {t.unit} : RowStays(n)
  BY <1>2, <1>5, <1>6 DEF PastGrows, IdsStay, RowStays
<1>9. RefsFollow'
  <2> SUFFICES ASSUME past.torn = {} PROVE RefsFollow'
    BY <1>2 DEF RefsFollow
  <2>1. \A u \in tasks : u.at \in {"home", "blockers", "verdicts"} => u = t
    BY <1>1, <1>2 DEF TasksApart, Propagating
  <2>2. Old({"home", "blockers"}) \subseteq {t.new} /\ Old({"home", "blockers", "verdicts"}) \subseteq {t.new}
    BY <2>1 DEF Old
  <2>3. t.new \in Old({"home", "blockers", "verdicts"})'
    BY <1>3 DEF Old, GoesOn
  <2>4. \A n \in DOMAIN rows' : rows'[n].blockers \subseteq DOMAIN rows'
    BY <1>1, <1>4, <1>5, <1>6, <2>2 DEF RefsFollow, Follows
  <2>5. \A n \in DOMAIN rows : rows[n].id \notin past.overtaken => rows[n].verdicts \subseteq DOMAIN rows \union {t.new}
    BY <1>1, <2>2 DEF RefsFollow, Follows
  <2>6. \A u \in tasks' : u.at \notin Parting /\ u.id \notin past.overtaken => u.verdicts \subseteq DOMAIN rows \union {t.new}
    BY <1>1, <1>2, <1>3, <2>2 DEF RefsFollow, Follows, GoesOn, Parting
  <2> QED  BY <1>2, <1>5, <1>6, <2>3, <2>4, <2>5, <2>6 DEF RefsFollow, Follows
<1> QED  BY <1>1, <1>2, <1>3, <1>4, <1>5, <1>7, <1>8, <1>9, BooksKeep DEF PastIs

LEMMA UpdateVerdictsKeeps == ASSUME NameIInv, NEW t \in tasks, UpdateVerdicts(t) PROVE NameIInv'
<1> DEFINE over == {u.id : u \in {v \in tasks : t.new \in v.verdicts}}
<1>1. /\ NameTypes /\ RowTypes /\ TasksHeld /\ RefsFollow /\ TasksApart /\ tasks \subseteq Runs /\ PastIs
  BY TypesAre DEF NameIInv, NameTypes, PastIs
<1>2. /\ t.at = "verdicts" /\ Goto(t, "analyses") /\ UNCHANGED <<goals, branches, folders, keys, count>>
      /\ rows' = [n \in DOMAIN rows |-> [rows[n] EXCEPT !.verdicts = Subst(rows[n].verdicts, t.new, t.unit)]]
      /\ past' = [past EXCEPT !.overtaken = past.overtaken \union over]
  BY DEF UpdateVerdicts
<1>3. PICK v : GoesOn(t, v) /\ v.at = "analyses" /\ v.unit = t.unit /\ v.new = t.new
  BY <1>1, <1>2, GotoIs DEF Propagating
<1>4. t.unit \in DOMAIN rows /\ rows[t.unit].home = t.unit /\ t.unit \in UnitNames
  BY <1>1, <1>2 DEF TasksHeld, Held, Parting, RowTypes
<1>5. ASSUME NEW n \in DOMAIN rows
      PROVE  /\ rows'[n] \in Rows /\ rows'[n].id = rows[n].id /\ rows'[n].status = rows[n].status
             /\ rows'[n].planning = rows[n].planning /\ rows'[n].home = rows[n].home /\ rows'[n].blockers = rows[n].blockers
             /\ rows'[n].verdicts \subseteq (rows[n].verdicts \ {t.new}) \union {t.unit}
  <2> DEFINE o == rows[n]
             b == Subst(rows[n].verdicts, t.new, t.unit)
  <2>1. /\ o \in Rows /\ o.status \in Statuses /\ o.planning \in BOOLEAN /\ o.blockers \in SUBSET UnitNames
        /\ o.verdicts \in SUBSET UnitNames /\ o.baseline \in SUBSET UnitNames /\ o.home \in UnitNames \union {NoName}
    BY <1>1, RowIs DEF RowTypes
  <2>2. b \in SUBSET UnitNames /\ b \subseteq (o.verdicts \ {t.new}) \union {t.unit}
    BY <1>4, <2>1, Substituted
  <2>3. rows'[n] = [o EXCEPT !.verdicts = b]
    BY <1>2
  <2> HIDE DEF b, o
  <2>4. rows'[n] = RowWith(o, o.status, o.planning, o.blockers, b, o.baseline, o.home)
    BY <2>1, <2>3, OneWritten
  <2>5. /\ rows'[n] \in Rows /\ rows'[n].id = o.id /\ rows'[n].status = o.status
        /\ rows'[n].planning = o.planning /\ rows'[n].home = o.home /\ rows'[n].verdicts = b /\ rows'[n].blockers = o.blockers
    BY <2>1, <2>2, <2>4, WrittenFits
  <2> QED  BY <2>2, <2>5 DEF o
<1>6. DOMAIN rows' = DOMAIN rows /\ rows' = [n \in DOMAIN rows' |-> rows'[n]]
  BY <1>2
<1>7. RowTypes'
  BY <1>1, <1>5, <1>6 DEF RowTypes
<1>8. /\ past'.overtaken = past.overtaken \union over /\ past'.torn = past.torn /\ PastGrows /\ past'.lost = past.lost /\ PastIs'
  BY <1>1, <1>2 DEF PastIs, PastGrows
<1>9. IdsStay /\ \A n \in DOMAIN rows \ {t.unit} : RowStays(n)
  BY <1>5, <1>6 DEF IdsStay, RowStays
<1>10. RefsFollow'
  <2> SUFFICES ASSUME past.torn = {} PROVE RefsFollow'
    BY <1>8 DEF RefsFollow
  <2>1. \A u \in tasks : u.at \in {"home", "blockers", "verdicts"} => u = t
    BY <1>1, <1>2 DEF TasksApart, Propagating
  <2>2. Old({"home", "blockers"}) = {} /\ Old({"home", "blockers", "verdicts"}) \subseteq {t.new}
    BY <1>2, <2>1 DEF Old
  <2>3. \A n \in DOMAIN rows' : rows'[n].blockers \subseteq DOMAIN rows'
    BY <1>1, <1>5, <1>6, <2>2 DEF RefsFollow, Follows
  <2>4. \A n \in DOMAIN rows' : rows'[n].id \notin past'.overtaken => rows'[n].verdicts \subseteq DOMAIN rows'
    BY <1>1, <1>4, <1>5, <1>6, <1>8, <2>2 DEF RefsFollow, Follows
  <2>5. ASSUME NEW u \in tasks', u.at \notin Parting, u.id \notin past'.overtaken PROVE u.verdicts \subseteq DOMAIN rows'
    <3>1. PICK w \in tasks : w.at \notin Parting /\ w.id = u.id /\ w.verdicts = u.verdicts
      BY <1>2, <1>3, <2>5 DEF GoesOn, Parting
    <3>2. t.new \notin w.verdicts /\ w.id \notin past.overtaken
      BY <1>8, <2>5, <3>1
    <3> QED  BY <1>1, <1>6, <2>2, <3>1, <3>2 DEF RefsFollow, Follows
  <2> QED  BY <2>3, <2>4, <2>5 DEF RefsFollow, Follows
<1> QED  BY <1>1, <1>2, <1>3, <1>4, <1>5, <1>7, <1>8, <1>9, <1>10, BooksKeep

LEMMA RenameHomeKeeps == ASSUME NameIInv, NEW t \in tasks, RenameHome(t) PROVE NameIInv'
<1> DEFINE o == rows[t.unit]
           b == Subst(rows[t.unit].baseline, t.new, t.unit)
           r == RowWith(o, o.status, o.planning, o.blockers, o.verdicts, b, t.unit)
<1>1. /\ NameTypes /\ RowTypes /\ TasksHeld /\ RefsFollow /\ TasksApart /\ tasks \subseteq Runs /\ PastIs
  BY TypesAre DEF NameIInv, NameTypes, PastIs
<1>2. /\ t.at = "home" /\ Goto(t, "blockers") /\ UNCHANGED <<goals, branches, folders, keys, count, past>>
      /\ rows' = [rows EXCEPT ![t.unit] = Homed(rows[t.unit], t.unit, b)]
  BY DEF RenameHome, Homed
<1>3. PICK v : GoesOn(t, v) /\ v.at = "blockers" /\ v.unit = t.unit /\ v.new = t.new
  BY <1>1, <1>2, GotoIs DEF Propagating
<1>4. t.unit \in DOMAIN rows /\ t.unit \in UnitNames
  BY <1>1, <1>2 DEF TasksHeld, Held, Parting, RowTypes
<1>5. /\ o \in Rows /\ o.status \in Statuses /\ o.planning \in BOOLEAN /\ o.blockers \in SUBSET UnitNames
      /\ o.verdicts \in SUBSET UnitNames /\ o.baseline \in SUBSET UnitNames
  BY <1>1, <1>4, RowIs DEF RowTypes
<1>6. b \in SUBSET UnitNames
  BY <1>4, <1>5, Substituted
<1> HIDE DEF b
<1>7. rows' = [rows EXCEPT ![t.unit] = r]
  BY <1>2, <1>5, RowsWritten
<1>8. r \in Rows /\ r.id = o.id /\ r.status = o.status /\ r.planning = o.planning /\ r.blockers = o.blockers
      /\ r.verdicts = o.verdicts /\ r.home = t.unit
  BY <1>4, <1>5, <1>6, WrittenFits
<1> HIDE DEF r
<1>9. /\ DOMAIN rows' = DOMAIN rows /\ rows'[t.unit] = r /\ RowTypes'
      /\ \A m \in DOMAIN rows : m # t.unit => rows'[m] = rows[m]
  BY <1>1, <1>4, <1>7, <1>8, RowSet
<1>10. PastGrows /\ IdsStay /\ \A n \in DOMAIN rows \ {t.unit} : RowStays(n)
  BY <1>2, <1>8, <1>9 DEF PastGrows, IdsStay, RowStays
<1>11. RefsFollow'
  <2> SUFFICES ASSUME past.torn = {} PROVE RefsFollow'
    BY <1>2 DEF RefsFollow
  <2>1. \A u \in tasks : u.at \in {"home", "blockers", "verdicts"} => u = t
    BY <1>1, <1>2 DEF TasksApart, Propagating
  <2>2. Old({"home", "blockers"}) \subseteq {t.new} /\ Old({"home", "blockers", "verdicts"}) \subseteq {t.new}
    BY <2>1 DEF Old
  <2>3. t.new \in Old({"home", "blockers", "verdicts"})' /\ t.new \in Old({"home", "blockers"})'
    BY <1>3 DEF Old, GoesOn
  <2>4. \A n \in DOMAIN rows' : /\ rows'[n].id = rows[n].id /\ rows'[n].blockers = rows[n].blockers
                                /\ rows'[n].verdicts = rows[n].verdicts
    BY <1>8, <1>9
  <2>5. \A n \in DOMAIN rows' :
          /\ rows'[n].blockers \subseteq DOMAIN rows' \union {t.new}
          /\ rows'[n].id \notin past.overtaken => rows'[n].verdicts \subseteq DOMAIN rows' \union {t.new}
    BY <1>1, <1>9, <2>2, <2>4 DEF RefsFollow, Follows
  <2>6. \A u \in tasks' : u.at \notin Parting /\ u.id \notin past.overtaken => u.verdicts \subseteq DOMAIN rows \union {t.new}
    BY <1>1, <1>2, <1>3, <2>2 DEF RefsFollow, Follows, GoesOn, Parting
  <2> QED  BY <1>2, <1>9, <2>3, <2>5, <2>6 DEF RefsFollow, Follows
<1> QED  BY <1>1, <1>2, <1>3, <1>4, <1>8, <1>9, <1>10, <1>11, BooksKeep DEF PastIs

\* A worktree that nothing happens to.
LEMMA TreeSame ==
  ASSUME TreesFit, NEW n, n \in DOMAIN folders', n \in DOMAIN folders, folders'[n] = folders[n], PastGrows,
         n \in branches <=> n \in branches', n \in DOMAIN rows <=> n \in DOMAIN rows',
         n \in DOMAIN rows => rows'[n].id = rows[n].id /\ rows'[n].planning = rows[n].planning,
         \A g \in tasks : g.at = "row" /\ g.new = n => g \in tasks',
         \A g \in tasks : g.at \in {"agent", "branch", "folder", "advance"} /\ g.unit = n =>
           \/ \E h \in tasks' : h.at \in {"agent", "branch", "folder", "advance"} /\ h.unit = n
           \/ n \in folders[n].current \/ folders[n].owner \in Ended'
           \/ n \in DOMAIN rows /\ ~rows[n].planning,
         \A g \in tasks' : g.at = "folder" /\ g.new = n => g \in tasks
  PROVE  TreeFits(n)'
<1>1. TreeFits(n)
  BY DEF TreesFit
<1>2. CASE folders[n] # NoTree
  <2>1. Owned(n)'
    BY <1>1, <1>2 DEF TreeFits, Owned, PastGrows
  <2>2. OnBranch(n)'
    BY <1>1, <1>2 DEF TreeFits, OnBranch
  <2>3. KeepsPlan(n)'
    BY <1>1, <1>2 DEF TreeFits, KeepsPlan, PastGrows, Ended
  <2> QED  BY <1>1, <1>2, <2>1, <2>2, <2>3 DEF TreeFits
<1> QED  BY <1>2 DEF TreeFits, NoTree

\* The unit of a task that gives up: the row as it is then.
LEMMA RowCeased ==
  ASSUME RowTypes, tasks \subseteq Runs, NEW t \in tasks, t.unit \in DOMAIN rows,
         rows' = [rows EXCEPT ![t.unit] = Ceased(rows[t.unit], t.verdicts)]
  PROVE  /\ DOMAIN rows' = DOMAIN rows /\ RowTypes' /\ IdsStay
         /\ \A m \in DOMAIN rows : m # t.unit => rows'[m] = rows[m]
         /\ rows'[t.unit].planning = rows[t.unit].planning /\ rows'[t.unit].blockers = rows[t.unit].blockers
         /\ rows'[t.unit].verdicts = t.verdicts
         /\ rows'[t.unit].status = "NEEDS_ATTENTION"
<1> DEFINE o == rows[t.unit]
           r == RowWith(o, "NEEDS_ATTENTION", o.planning, o.blockers, t.verdicts, o.baseline, o.home)
<1>1. /\ o \in Rows /\ o.status \in Statuses /\ o.planning \in BOOLEAN /\ o.blockers \in SUBSET UnitNames
      /\ o.baseline \in SUBSET UnitNames /\ o.home \in UnitNames \union {NoName}
      /\ t.verdicts \in SUBSET UnitNames /\ "NEEDS_ATTENTION" \in Statuses
  BY RowIs, RunIs DEF RowTypes, Statuses
<1>2. rows' = [rows EXCEPT ![t.unit] = r]
  BY <1>1, RowsWritten
<1>3. r \in Rows /\ r.id = o.id /\ r.status = "NEEDS_ATTENTION" /\ r.planning = o.planning /\ r.blockers = o.blockers
      /\ r.verdicts = t.verdicts
  BY <1>1, WrittenFits
<1> HIDE DEF r
<1>4. /\ DOMAIN rows' = DOMAIN rows /\ rows'[t.unit] = r /\ RowTypes'
      /\ \A m \in DOMAIN rows : m # t.unit => rows'[m] = rows[m]
  BY <1>2, <1>3, RowSet
<1> QED  BY <1>3, <1>4 DEF IdsStay

LEMMA FailsKeeps ==
  ASSUME NameIInv, NEW t \in tasks, t.at \in {"branch", "folder", "row"}, Fails(t),
         UNCHANGED <<goals, keys, count>>,
         branches' = IF t.at = "branch" THEN branches ELSE (branches \ {t.new}) \union {t.unit},
         folders' = IF t.at = "row" THEN Moved(folders, t.new, t.unit) ELSE folders
  PROVE  NameIInv'
<1>1. /\ NameTypes /\ RowsApart /\ TasksApart /\ TasksHeld /\ FailedUndone /\ NewIsFree /\ KeysHeld
      /\ TreesFit /\ RefsFollow /\ LaterPhaseHasChunk /\ PlansKept /\ RowTypes /\ FolderTypes /\ tasks \subseteq Runs /\ PastIs
  BY TypesAre DEF NameIInv, NameTypes, PastIs
<1>2. Held(t) /\ OwnChunk(t) /\ t.at \in Propagating /\ t.at \notin Parting
  BY <1>1 DEF TasksHeld, Propagating, Parting
<1>3. t.unit \in DOMAIN rows /\ rows[t.unit].id = t.id /\ rows[t.unit].planning /\ t.unit \in UnitNames
  BY <1>1, <1>2 DEF Held, OwnChunk, RowTypes
<1>4. PICK v : GoesOn(t, v) /\ v.at = "failed" /\ v.unit = t.unit /\ v.new = t.new
  BY <1>1, GotoIs DEF Fails, Parting
<1>5. rows' = [rows EXCEPT ![t.unit] = Ceased(rows[t.unit], t.verdicts)]
  BY DEF Fails, Ceased
<1>6. /\ DOMAIN rows' = DOMAIN rows /\ RowTypes' /\ IdsStay
      /\ \A m \in DOMAIN rows : m # t.unit => rows'[m] = rows[m]
      /\ rows'[t.unit].planning = rows[t.unit].planning /\ rows'[t.unit].blockers = rows[t.unit].blockers
      /\ rows'[t.unit].verdicts = t.verdicts
  BY <1>1, <1>3, <1>5, RowCeased
<1>7. /\ past'.refused = past.refused \union {t.id} /\ PastGrows /\ PastIs' /\ past'.torn = past.torn
      /\ past'.robbed = past.robbed /\ past'.overtaken = past.overtaken /\ past'.lost = past.lost /\ past'.unclear = past.unclear
  BY <1>1 DEF Fails, PastIs, PastGrows
<1>8. /\ TreeOf(t) \in DOMAIN folders /\ folders[TreeOf(t)] # NoTree /\ folders[TreeOf(t)].owner \in {t.id} \union past.torn
      /\ folders[TreeOf(t)].current \subseteq folders[TreeOf(t)].chunks
  BY <1>1, <1>2 DEF Held, Owns, WorktreeExists, TreesFit, TreeFits
<1>9. /\ t.at = "row" => t.unit \notin DOMAIN folders /\ TreeOf(t) = t.new
      /\ t.at # "row" => TreeOf(t) = t.unit
  BY <1>1 DEF NewIsFree, TreeOf
<1>10. t.new # t.unit
  BY <1>2, <1>8, <1>9 DEF OwnChunk
<1>11. t.new \in UnitNames
  <2>1. t.new \in folders[TreeOf(t)].current
    BY <1>2 DEF OwnChunk
  <2>2. folders[TreeOf(t)].current \subseteq UnitNames
    BY <1>1, <1>8 DEF FolderTypes, Worktrees
  <2> QED  BY <2>1, <2>2
<1>12. t.unit \in branches'
  BY <1>2 DEF Held, BranchOf
<1>13. /\ t.at = "row" => /\ DOMAIN folders' = (DOMAIN folders \ {t.new}) \union {t.unit}
                         /\ folders'[t.unit] = folders[t.new]
                         /\ \A m \in DOMAIN folders : m # t.new /\ m # t.unit => folders'[m] = folders[m]
       /\ t.at # "row" => folders' = folders
       /\ FolderTypes'
  <2>1. CASE t.at = "row"
    <3>1. folders' = Moved(folders, t.new, t.unit) /\ t.new \in DOMAIN folders
      BY <1>8, <1>9, <2>1
    <3> QED  BY <1>1, <1>3, <2>1, <3>1, FolderMoved
  <2>2. CASE t.at # "row"
    BY <1>1, <2>2 DEF FolderTypes
  <2> QED  BY <2>1, <2>2
<1>14. t.unit \in DOMAIN folders' /\ folders'[t.unit] = folders[TreeOf(t)]
  BY <1>8, <1>9, <1>13
<1>15. \A u \in tasks' : u.at \notin Propagating
  BY <1>1, <1>2, <1>4 DEF TasksApart, GoesOn, Propagating
<1>16. Undone(v)'
  BY <1>3, <1>4, <1>6, <1>7, <1>8, <1>12, <1>14 DEF Undone, Owns, WorktreeExists, GoesOn, IdsStay
<1>17. TreeFits(t.unit)'
  <2>1. Owned(t.unit)'
    BY <1>3, <1>6, <1>7, <1>8, <1>14 DEF Owned, IdsStay
  <2>2. OnBranch(t.unit)'
    BY <1>12, <1>15 DEF OnBranch, Propagating
  <2>3. KeepsPlan(t.unit)'
    BY <1>7, <1>8, <1>14 DEF KeepsPlan, Ended
  <2> QED  BY <1>8, <1>14, <2>1, <2>2, <2>3 DEF TreeFits
<1>18. ASSUME t.new \in DOMAIN folders' PROVE TreeFits(t.new)'
  <2>1. t.at # "row" /\ t.new \in DOMAIN folders /\ folders'[t.new] = folders[t.new]
    BY <1>10, <1>13, <1>18
  <2>2. TreeFits(t.new)
    BY <1>1, <2>1 DEF TreesFit
  <2>3. CASE folders[t.new] # NoTree
    <3>1. Owned(t.new)'
      <4>1. \A g \in tasks : g.at = "row" => FALSE
        BY <1>1, <1>2, <2>1 DEF TasksApart, Propagating
      <4> QED  BY <1>6, <1>7, <1>10, <2>1, <2>2, <2>3, <4>1 DEF TreeFits, Owned
    <3>2. OnBranch(t.new)'
      <4>1. t.new \in branches' => t.new \in branches /\ t.at = "branch"
        BY <1>10, <2>1
      <4>2. t.at = "folder" => ~(t.new \in branches /\ \A g \in tasks : g.at = "folder" => g.new # t.new)
        OBVIOUS
      <4>3. t.new \in branches /\ t.at = "branch" => t.new \in branches'
        OBVIOUS
      <4>4. \A g \in tasks' : g.at = "folder" => FALSE
        BY <1>15 DEF Propagating
      <4> QED  BY <1>6, <1>10, <2>1, <2>2, <2>3, <4>1, <4>2, <4>3, <4>4 DEF TreeFits, OnBranch
    <3>3. KeepsPlan(t.new)'
      BY <1>4, <1>6, <1>7, <1>10, <2>1, <2>2, <2>3 DEF TreeFits, KeepsPlan, Ended, GoesOn, PastGrows
    <3> QED  BY <2>1, <2>2, <2>3, <3>1, <3>2, <3>3 DEF TreeFits
  <2> QED  BY <2>1, <2>3 DEF TreeFits, NoTree
<1>19. ASSUME t.new \in DOMAIN rows' PROVE HasChunk(t.new)'
  <2>1. CASE t.at = "row"
    BY <1>1, <1>6, <1>7, <1>10, <1>19, <2>1 DEF NewIsFree, HasChunk
  <2>2. CASE t.at # "row"
    BY <1>1, <1>6, <1>7, <1>10, <1>13, <1>19, <2>2 DEF LaterPhaseHasChunk, HasChunk, WorktreeExists
  <2> QED  BY <2>1, <2>2
<1>20. HasChunk(t.unit)'
  BY <1>3, <1>6 DEF HasChunk
<1>21. Replaces({t}, {v}, {t.unit, t.new})
  BY <1>4, <1>16, <1>17, <1>18, <1>19, <1>20 DEF Replaces, GoesOn, Parting
<1>22. TasksHeld' /\ FailedUndone' /\ TreesFit' /\ LaterPhaseHasChunk'
  <2>1. \A n \in DOMAIN rows \ {t.unit} : RowStays(n)
    BY <1>6 DEF RowStays
  <2>2. CASE t.at = "branch"
    <3>1. Touches({t.unit}, {}, {})
      BY <1>6, <1>7, <1>13, <2>1, <2>2 DEF Touches
    <3>2. {t.unit} \in SUBSET {t.unit, t.new} /\ {} \in SUBSET {t.unit, t.new} /\ (t.new \in {t.unit} \union {} \union {} => t.new = t.unit)
      OBVIOUS
    <3> QED  BY <1>2, <1>4, <1>21, <3>1, <3>2, OnKeeps
  <2>3. CASE t.at # "branch"
    <3>1. Touches({t.unit}, {t.unit, t.new}, {t.unit, t.new})
      BY <1>6, <1>7, <1>13, <2>1 DEF Touches
    <3>2. {t.unit} \in SUBSET {t.unit, t.new} /\ {t.unit, t.new} \in SUBSET {t.unit, t.new} /\ t.at \in {"folder", "row"}
      BY <2>3
    <3> QED  BY <1>2, <1>4, <1>21, <3>1, <3>2, OnKeeps
  <2> QED  BY <2>2, <2>3
<1>23. TasksApart' /\ KeysHeld'
  <2>1. KeyOf(v) = KeyOf(t) /\ v.at \notin Propagating
    BY <1>4 DEF KeyOf, Propagating
  <2> QED  BY <1>1, <1>2, <1>4, <1>6, <1>7, <2>1, TaskGoesOn
<1>24. RowsApart' /\ PlansKept'
  BY <1>1, <1>6, <1>7, RowsStayApart, NothingLost
<1>25. NewIsFree'
  BY <1>15, NoNewName DEF Propagating
<1>26. RefsFollow'
  <2>1. \A u \in tasks : u.at \notin {"home", "blockers", "verdicts"}
    BY <1>1, <1>2 DEF TasksApart, Propagating
  <2>2. Old({"home", "blockers"}) = {} /\ Old({"home", "blockers", "verdicts"}) = {}
    BY <2>1 DEF Old
  <2> SUFFICES ASSUME past.torn = {} PROVE RefsFollow'
    BY <1>7 DEF RefsFollow
  <2>3. /\ \A n \in DOMAIN rows : rows[n].blockers \subseteq DOMAIN rows /\ (rows[n].id \notin past.overtaken => rows[n].verdicts \subseteq DOMAIN rows)
        /\ \A u \in tasks : u.at \notin Parting /\ u.id \notin past.overtaken => u.verdicts \subseteq DOMAIN rows
    BY <1>1, <2>2 DEF RefsFollow, Follows
  <2>4. /\ \A n \in DOMAIN rows : rows'[n].blockers \subseteq DOMAIN rows /\ (rows'[n].id \notin past.overtaken => rows'[n].verdicts \subseteq DOMAIN rows)
        /\ \A u \in tasks' : u.at \notin Parting /\ u.id \notin past.overtaken => u.verdicts \subseteq DOMAIN rows
    BY <1>2, <1>3, <1>4, <1>6, <2>3 DEF GoesOn, Parting, IdsStay
  <2> QED  BY <1>6, <1>7, <2>4 DEF RefsFollow, Follows
<1>27. NameTypes'
  <2>1. branches' \subseteq UnitNames /\ tasks' \subseteq Runs
    BY <1>1, <1>3, <1>4 DEF NameTypes, GoesOn
  <2> QED  BY <1>1, <1>6, <1>7, <1>13, <2>1 DEF NameTypes, RowTypes, FolderTypes, PastIs
<1> QED  BY <1>22, <1>23, <1>24, <1>25, <1>26, <1>27 DEF NameIInv

\* What rows and tasks say of others, when nothing is renamed.
LEMMA RefsStay ==
  ASSUME RefsFollow, PastGrows, IdsStay,
         \A n \in DOMAIN rows :
           /\ rows'[n].blockers \subseteq rows[n].blockers
           /\ \/ rows'[n].verdicts \subseteq rows[n].verdicts
              \/ \E u \in tasks : u.id = rows[n].id /\ u.at \notin Parting /\ rows'[n].verdicts = u.verdicts,
         \A u \in tasks' : u.at \notin Parting =>
           \E w \in tasks : w.at \notin Parting /\ w.id = u.id /\ w.verdicts = u.verdicts,
         past'.torn = {} => \A p \in {"home", "blockers", "verdicts"} :
           \A u \in tasks : u.at = p => \E w \in tasks' : w.at = p /\ w.new = u.new
  PROVE  RefsFollow'
<1> SUFFICES ASSUME past'.torn = {} PROVE RefsFollow'
  BY DEF RefsFollow
<1>1. past.torn = {} /\ past.overtaken \subseteq past'.overtaken
  BY DEF PastGrows
<1>2. /\ Old({"home", "blockers"}) \subseteq Old({"home", "blockers"})'
      /\ Old({"home", "blockers", "verdicts"}) \subseteq Old({"home", "blockers", "verdicts"})'
  BY DEF Old
<1>3. \A S : /\ Follows(S, {"home", "blockers"}) => Follows(S, {"home", "blockers"})'
             /\ Follows(S, {"home", "blockers", "verdicts"}) => Follows(S, {"home", "blockers", "verdicts"})'
  BY <1>2 DEF Follows, IdsStay
<1>4. ASSUME NEW n \in DOMAIN rows'
      PROVE  /\ Follows(rows[n].blockers, {"home", "blockers"})'
             /\ (rows[n].id \notin past.overtaken => Follows(rows[n].verdicts, {"home", "blockers", "verdicts"}))'
  <2>1. n \in DOMAIN rows /\ rows'[n].id = rows[n].id
    BY DEF IdsStay
  <2>2. Follows(rows'[n].blockers, {"home", "blockers"})
    BY <1>1, <2>1 DEF RefsFollow, Follows
  <2>3. rows'[n].id \notin past'.overtaken => Follows(rows'[n].verdicts, {"home", "blockers", "verdicts"})
    BY <1>1, <2>1 DEF RefsFollow, Follows
  <2> QED  BY <1>2, <2>2, <2>3 DEF Follows, IdsStay
<1>5. ASSUME NEW u \in tasks', u.at \notin Parting, u.id \notin past'.overtaken
      PROVE  Follows(u.verdicts, {"home", "blockers", "verdicts"})'
  <2>1. Follows(u.verdicts, {"home", "blockers", "verdicts"})
    BY <1>1, <1>5 DEF RefsFollow
  <2> QED  BY <1>2, <2>1 DEF Follows, IdsStay
<1> QED  BY <1>1, <1>4, <1>5 DEF RefsFollow

LEMMA RenameBranchKeeps == ASSUME NameIInv, NEW t \in tasks, RenameBranch(t) PROVE NameIInv'
<1>1. /\ NameTypes /\ RowsApart /\ TasksApart /\ TasksHeld /\ FailedUndone /\ NewIsFree /\ KeysHeld
      /\ TreesFit /\ RefsFollow /\ LaterPhaseHasChunk /\ PlansKept /\ RowTypes /\ FolderTypes /\ tasks \subseteq Runs /\ PastIs
  BY TypesAre DEF NameIInv, NameTypes, PastIs
<1>2. t.at = "branch" /\ UNCHANGED <<goals, folders, keys, count>>
  BY DEF RenameBranch
<1>3. CASE ~(t.unit \in branches /\ t.new \notin branches)
  BY <1>2, <1>3, FailsKeeps DEF RenameBranch
<1>4. CASE t.unit \in branches /\ t.new \notin branches
  <2>1. branches' = (branches \ {t.unit}) \union {t.new} /\ Goto(t, "folder") /\ rows' = rows /\ past' = past
    BY <1>4 DEF RenameBranch
  <2>2. PICK v : GoesOn(t, v) /\ v.at = "folder" /\ v.unit = t.unit /\ v.new = t.new
    BY <1>1, <2>1, GotoIs DEF Propagating
  <2>3. Held(t) /\ OwnChunk(t) /\ t.at \in Propagating /\ t.at \notin Parting
    BY <1>1, <1>2 DEF TasksHeld, Propagating, Parting
  <2>4. /\ t.unit \in DOMAIN rows /\ rows[t.unit].id = t.id /\ rows[t.unit].planning
        /\ t.unit \in DOMAIN folders /\ folders[t.unit] # NoTree /\ TreeFits(t.unit)
        /\ folders[t.unit].owner \in {t.id} \union past.torn
        /\ t.unit \notin folders[t.unit].current /\ t.new \in folders[t.unit].current /\ t.unit \notin folders[t.unit].chunks
    BY <1>1, <1>2, <2>3 DEF Held, OwnChunk, Owns, WorktreeExists, TreeOf, TreesFit
  <2>5. t.new # t.unit /\ t.new \in UnitNames
    BY <1>1, <2>4 DEF FolderTypes, Worktrees
  <2>6. PastGrows /\ IdsStay /\ \A n \in DOMAIN rows : RowStays(n)
    BY <2>1 DEF PastGrows, IdsStay, RowStays
  <2>7. Touches({}, {t.unit, t.new}, {})
    BY <1>2, <2>1, <2>6 DEF Touches
  <2>8. \A u \in tasks : u.at \in Propagating => u = t
    BY <1>1, <2>3 DEF TasksApart
  <2>9. Held(v)' /\ OwnChunk(v)'
    <3>1. Held(v)'
      BY <1>2, <2>1, <2>2, <2>3 DEF Held, BranchOf, TreeOf, Owns, WorktreeExists, GoesOn
    <3>2. OwnChunk(v)'
      BY <1>2, <2>1, <2>2, <2>4 DEF OwnChunk, TreeOf, Propagating
    <3> QED  BY <3>1, <3>2
  <2>10. TreeFits(t.unit)'
    <3>1. Owned(t.unit)' /\ OnBranch(t.unit)'
      BY <1>2, <2>1, <2>4 DEF Owned, OnBranch, Held
    <3>2. KeepsPlan(t.unit)'
      BY <2>2 DEF KeepsPlan, GoesOn
    <3> QED  BY <1>2, <2>4, <3>1, <3>2 DEF TreeFits
  <2>11. ASSUME t.new \in DOMAIN folders PROVE TreeFits(t.new)'
    <3>1. TreeFits(t.new)
      BY <1>1, <2>11 DEF TreesFit
    <3>2. /\ \A g \in tasks : g # t => g \in tasks'
          /\ \A g \in tasks' : g # v => g \in tasks
      BY <2>2 DEF GoesOn
    <3>3. CASE folders[t.new] # NoTree
      <4>1. Owned(t.new)'
        BY <1>2, <2>1, <3>1, <3>2, <3>3 DEF TreeFits, Owned
      <4>2. OnBranch(t.new)'
        BY <1>2, <1>4, <2>1, <3>1, <3>3 DEF TreeFits, OnBranch
      <4>3. KeepsPlan(t.new)'
        BY <1>2, <2>1, <2>5, <3>1, <3>2, <3>3 DEF TreeFits, KeepsPlan, Ended
      <4> QED  BY <1>2, <3>1, <3>3, <4>1, <4>2, <4>3 DEF TreeFits
    <3> QED  BY <1>2, <3>3 DEF TreeFits
  <2>12. \A n \in {t.unit, t.new} : n \in DOMAIN rows' => HasChunk(n)'
    BY <1>1, <1>2, <2>1 DEF LaterPhaseHasChunk, HasChunk, WorktreeExists
  <2>13. Replaces({t}, {v}, {t.unit, t.new})
    BY <1>2, <2>2, <2>9, <2>10, <2>11, <2>12 DEF Replaces, GoesOn, Parting
  <2>14. TasksHeld' /\ FailedUndone' /\ TreesFit' /\ LaterPhaseHasChunk'
    <3>1. {t.unit, t.new} \in SUBSET {t.unit, t.new} /\ {} \in SUBSET {t.unit, t.new}
      OBVIOUS
    <3> QED  BY <1>4, <2>2, <2>3, <2>7, <2>13, <3>1, OnKeeps
  <2>15. TasksApart' /\ KeysHeld'
    <3>1. KeyOf(v) = KeyOf(t)
      BY <1>2, <2>2 DEF KeyOf
    <3> QED  BY <1>1, <1>2, <2>2, <2>3, <2>6, <3>1, TaskGoesOn
  <2>16. RowsApart' /\ PlansKept'
    BY <1>1, <1>2, <2>1, <2>6, RowsStayApart, NothingLost
  <2>17. NewIsFree'
    <3>1. \A u \in tasks' : u.at \in {"folder", "row"} => u = v
      BY <1>2, <2>2, <2>8 DEF GoesOn, Propagating
    <3>2. ASSUME NEW u \in tasks, u # t, Holds(u) PROVE u.unit # t.new
      <4>1. BranchOf(u) = u.unit
        BY <2>8, <3>2 DEF BranchOf, Propagating
      <4>2. u.unit \in branches
        BY <1>1, <3>2, <4>1 DEF Holds, TasksHeld, Held, FailedUndone, Undone
      <4> QED  BY <1>4, <4>2
    <3> QED  BY <2>1, <2>2, <2>5, <3>1, <3>2 DEF NewIsFree, Holds, GoesOn
  <2>18. RefsFollow'
    <3>1. \A u \in tasks : u.at \notin {"home", "blockers", "verdicts"}
      BY <1>2, <2>8 DEF Propagating
    <3> QED  BY <1>1, <2>1, <2>2, <2>3, <2>6, <3>1, RefsStay DEF GoesOn
  <2>19. NameTypes'
    <3>1. branches' \subseteq UnitNames /\ tasks' \subseteq Runs
      BY <1>1, <2>1, <2>2, <2>5 DEF NameTypes, GoesOn
    <3> QED  BY <1>1, <1>2, <2>1, <3>1 DEF NameTypes
  <2> QED  BY <2>14, <2>15, <2>16, <2>17, <2>18, <2>19 DEF NameIInv
<1> QED  BY <1>3, <1>4

LEMMA RenameChunkDirectoryKeeps == ASSUME NameIInv, NEW t \in tasks, RenameChunkDirectory(t) PROVE NameIInv'
<1>1. /\ NameTypes /\ RowsApart /\ TasksApart /\ TasksHeld /\ FailedUndone /\ NewIsFree /\ KeysHeld
      /\ TreesFit /\ RefsFollow /\ LaterPhaseHasChunk /\ PlansKept /\ RowTypes /\ FolderTypes /\ tasks \subseteq Runs /\ PastIs
  BY TypesAre DEF NameIInv, NameTypes, PastIs
<1>2. t.at = "folder" /\ UNCHANGED <<goals, keys, count>>
  BY DEF RenameChunkDirectory
<1>3. CASE ~(t.unit \in DOMAIN folders /\ t.new \notin DOMAIN folders)
  BY <1>2, <1>3, FailsKeeps DEF RenameChunkDirectory
<1>4. CASE t.unit \in DOMAIN folders /\ t.new \notin DOMAIN folders
  <2>1. folders' = Moved(folders, t.unit, t.new) /\ Goto(t, "row") /\ rows' = rows /\ branches' = branches /\ past' = past
    BY <1>4 DEF RenameChunkDirectory
  <2>2. PICK v : GoesOn(t, v) /\ v.at = "row" /\ v.unit = t.unit /\ v.new = t.new
    BY <1>1, <2>1, GotoIs DEF Propagating
  <2>3. Held(t) /\ OwnChunk(t) /\ t.at \in Propagating /\ t.at \notin Parting
    BY <1>1, <1>2 DEF TasksHeld, Propagating, Parting
  <2>4. /\ t.unit \in DOMAIN rows /\ rows[t.unit].id = t.id /\ rows[t.unit].planning /\ t.new \in branches
        /\ folders[t.unit] # NoTree /\ TreeFits(t.unit) /\ folders[t.unit].owner \in {t.id} \union past.torn
        /\ t.unit \notin folders[t.unit].current /\ t.new \in folders[t.unit].current
        /\ folders[t.unit].current \subseteq folders[t.unit].chunks
    BY <1>1, <1>2, <2>3 DEF Held, OwnChunk, Owns, WorktreeExists, TreeOf, BranchOf, TreesFit, TreeFits
  <2>5. t.new # t.unit /\ t.new \in UnitNames
    BY <1>1, <1>4, <2>4 DEF FolderTypes, Worktrees
  <2>6. PastGrows /\ IdsStay /\ \A n \in DOMAIN rows : RowStays(n)
    BY <2>1 DEF PastGrows, IdsStay, RowStays
  <2>7. /\ DOMAIN folders' = (DOMAIN folders \ {t.unit}) \union {t.new} /\ folders'[t.new] = folders[t.unit]
        /\ \A m \in DOMAIN folders : m # t.unit /\ m # t.new => folders'[m] = folders[m]
        /\ FolderTypes'
    BY <1>1, <1>4, <2>1, <2>5, FolderMoved
  <2>8. Touches({}, {}, {t.unit, t.new})
    BY <2>1, <2>6, <2>7 DEF Touches
  <2>9. \A u \in tasks : u.at \in Propagating => u = t
    BY <1>1, <2>3 DEF TasksApart
  <2>10. Held(v)' /\ OwnChunk(v)'
    <3>1. Held(v)'
      BY <1>2, <2>1, <2>2, <2>3, <2>4, <2>7 DEF Held, BranchOf, TreeOf, Owns, WorktreeExists, GoesOn
    <3>2. OwnChunk(v)'
      BY <2>1, <2>2, <2>4, <2>7 DEF OwnChunk, TreeOf, Propagating
    <3> QED  BY <3>1, <3>2
  <2>11. TreeFits(t.new)'
    <3>1. \A u \in tasks' : u.at # "folder"
      BY <2>2, <2>9 DEF GoesOn, Propagating
    <3>2. v \in tasks' /\ v.id = t.id
      BY <2>2 DEF GoesOn
    <3>3. Owned(t.new)'
      BY <2>1, <2>2, <2>4, <2>7, <3>2 DEF Owned
    <3>4. OnBranch(t.new)' /\ KeepsPlan(t.new)'
      BY <2>1, <2>4, <2>7, <3>1 DEF OnBranch, KeepsPlan
    <3> QED  BY <2>4, <2>7, <3>3, <3>4 DEF TreeFits
  <2>12. t.unit \notin DOMAIN folders'
    BY <2>5, <2>7
  <2>13. t.new \in DOMAIN rows => rows[t.new].planning \/ rows[t.new].status = "DONE" \/ rows[t.new].id \in past.unclear
    BY <1>1, <1>4 DEF LaterPhaseHasChunk, WorktreeExists
  <2>14. \A n \in {t.unit, t.new} : n \in DOMAIN rows' => HasChunk(n)'
    BY <2>1, <2>4, <2>13 DEF HasChunk
  <2>15. Replaces({t}, {v}, {t.unit, t.new})
    BY <1>2, <2>2, <2>10, <2>11, <2>12, <2>14 DEF Replaces, GoesOn, Parting
  <2>16. TasksHeld' /\ FailedUndone' /\ TreesFit' /\ LaterPhaseHasChunk'
    <3>1. {t.unit, t.new} \in SUBSET {t.unit, t.new} /\ {} \in SUBSET {t.unit, t.new}
      OBVIOUS
    <3> QED  BY <1>2, <2>2, <2>3, <2>8, <2>15, <3>1, OnKeeps
  <2>17. TasksApart' /\ KeysHeld'
    <3>1. KeyOf(v) = KeyOf(t)
      BY <1>2, <2>2 DEF KeyOf
    <3> QED  BY <1>1, <1>2, <2>2, <2>3, <2>6, <3>1, TaskGoesOn
  <2>18. RowsApart' /\ PlansKept'
    BY <1>1, <1>2, <2>1, <2>6, RowsStayApart, NothingLost
  <2>19. NewIsFree'
    <3>1. \A u \in tasks' : u.at \in {"folder", "row"} => u = v
      BY <2>2, <2>9 DEF GoesOn, Propagating
    <3>2. \A u \in tasks' : Holds(u)' => u.unit # t.new
      <4>1. \A u \in tasks : Holds(u) => u.unit # t.new
        BY <1>1, <1>2 DEF NewIsFree
      <4> QED  BY <2>1, <2>2, <2>5, <4>1 DEF Holds, GoesOn
    <3> QED  BY <2>1, <2>2, <2>12, <2>13, <3>1, <3>2 DEF NewIsFree
  <2>20. RefsFollow'
    <3>1. \A u \in tasks : u.at \notin {"home", "blockers", "verdicts"}
      BY <1>2, <2>9 DEF Propagating
    <3> QED  BY <1>1, <2>1, <2>2, <2>3, <2>6, <3>1, RefsStay DEF GoesOn
  <2>21. NameTypes'
    <3>1. tasks' \subseteq Runs
      BY <1>1, <2>2 DEF GoesOn
    <3> QED  BY <1>1, <1>2, <2>1, <2>7, <3>1 DEF NameTypes, FolderTypes
  <2> QED  BY <2>16, <2>17, <2>18, <2>19, <2>20, <2>21 DEF NameIInv
<1> QED  BY <1>3, <1>4

LEMMA RenameRowKeeps == ASSUME NameIInv, NEW t \in tasks, RenameRow(t) PROVE NameIInv'
<1>1. /\ NameTypes /\ RowsApart /\ TasksApart /\ TasksHeld /\ FailedUndone /\ NewIsFree /\ KeysHeld
      /\ TreesFit /\ RefsFollow /\ LaterPhaseHasChunk /\ PlansKept /\ RowTypes /\ FolderTypes /\ tasks \subseteq Runs /\ PastIs
  BY TypesAre DEF NameIInv, NameTypes, PastIs
<1>2. t.at = "row" /\ UNCHANGED <<goals, keys, count>>
  BY DEF RenameRow
<1>3. CASE t.new \in DOMAIN rows
  BY <1>2, <1>3, FailsKeeps DEF RenameRow
<1>4. CASE t.new \notin DOMAIN rows
  <2> DEFINE w == [id |-> t.id, chunk |-> t.chunk, unit |-> t.new, at |-> "home", verdicts |-> t.verdicts, new |-> t.unit]
  <2>1. rows' = Moved(rows, t.unit, t.new) /\ UNCHANGED <<branches, folders, past>>
    BY <1>4 DEF RenameRow
  <2>3. Held(t) /\ OwnChunk(t) /\ t.at \in Propagating /\ t.at \notin Parting
    BY <1>1, <1>2 DEF TasksHeld, Propagating, Parting
  <2>4. /\ t.unit \in DOMAIN rows /\ rows[t.unit].id = t.id /\ rows[t.unit].planning /\ rows[t.unit].status = "RUNNING"
        /\ t.new \in branches /\ t.new \in DOMAIN folders
        /\ folders[t.new] # NoTree /\ TreeFits(t.new) /\ folders[t.new].owner \in {t.id} \union past.torn
        /\ t.new \in folders[t.new].current /\ folders[t.new].current \subseteq folders[t.new].chunks
    BY <1>1, <1>2, <2>3 DEF Held, OwnChunk, Owns, WorktreeExists, TreeOf, BranchOf, TreesFit, TreeFits
  <2>5. t.new # t.unit /\ t.new \in UnitNames /\ t.unit \in UnitNames
    BY <1>1, <1>4, <2>4 DEF FolderTypes, Worktrees, RowTypes
  <2>2. PICK v : /\ GoesOn(t, v) /\ v.at = "home" /\ v.unit = t.new /\ v.new = t.unit
    <3> HIDE DEF w
    <3>1. tasks' = (tasks \ {t}) \union {w}
      <4>1. /\ t = [id |-> t.id, chunk |-> t.chunk, unit |-> t.unit, at |-> t.at, verdicts |-> t.verdicts, new |-> t.new]
        BY <1>1, RunIs
      <4>2. [[[t EXCEPT !.at = "home"] EXCEPT !.unit = t.new] EXCEPT !.new = t.unit] = w
        <5>1. [t EXCEPT !.at = "home"] = [id |-> t.id, chunk |-> t.chunk, unit |-> t.unit, at |-> "home", verdicts |-> t.verdicts, new |-> t.new]
          BY <4>1
        <5>2. [[id |-> t.id, chunk |-> t.chunk, unit |-> t.unit, at |-> "home", verdicts |-> t.verdicts, new |-> t.new] EXCEPT !.unit = t.new]
              = [id |-> t.id, chunk |-> t.chunk, unit |-> t.new, at |-> "home", verdicts |-> t.verdicts, new |-> t.new]
          OBVIOUS
        <5>3. [[id |-> t.id, chunk |-> t.chunk, unit |-> t.new, at |-> "home", verdicts |-> t.verdicts, new |-> t.new] EXCEPT !.new = t.unit] = w
          BY DEF w
        <5> QED  BY <5>1, <5>2, <5>3, Zenon
      <4>3. [t EXCEPT !.at = "home", !.unit = t.new, !.new = t.unit]
            = [[[t EXCEPT !.at = "home"] EXCEPT !.unit = t.new] EXCEPT !.new = t.unit]
        BY Zenon
      <4> QED  BY <1>4, <4>2, <4>3, Zenon DEF RenameRow
    <3>2. w \in Runs
      BY <1>1, <2>5, RunIs DEF Runs, Propagating, w
    <3> QED  BY <3>1, <3>2 DEF GoesOn, w
  <2> HIDE DEF w
  <2>6. /\ DOMAIN rows' = (DOMAIN rows \ {t.unit}) \union {t.new} /\ rows'[t.new] = rows[t.unit] /\ RowTypes'
        /\ \A m \in DOMAIN rows : m # t.unit /\ m # t.new => rows'[m] = rows[m]
    BY <1>1, <2>1, <2>4, <2>5, RowMoved
  <2>7. PastGrows /\ \A n \in DOMAIN rows \ {t.unit, t.new} : RowStays(n)
    BY <2>1, <2>6 DEF PastGrows, RowStays
  <2>8. Touches({t.unit, t.new}, {}, {})
    BY <2>1, <2>6, <2>7 DEF Touches
  <2>9. \A u \in tasks : u.at \in Propagating => u = t
    BY <1>1, <2>3 DEF TasksApart
  <2>10. Held(v)' /\ OwnChunk(v)'
    <3>1. Held(v)'
      BY <2>1, <2>2, <2>4, <2>6 DEF Held, BranchOf, TreeOf, Owns, WorktreeExists, GoesOn
    <3>2. OwnChunk(v)'
      BY <2>1, <2>2, <2>4, <2>5, <2>6 DEF OwnChunk, TreeOf, Propagating
    <3> QED  BY <3>1, <3>2
  <2>11. TreeFits(t.new)'
    <3>1. \A u \in tasks' : u.at # "folder"
      BY <2>2, <2>9 DEF GoesOn, Propagating
    <3>2. Owned(t.new)'
      BY <2>1, <2>4, <2>6 DEF Owned
    <3>3. OnBranch(t.new)' /\ KeepsPlan(t.new)'
      BY <2>1, <2>4, <2>6, <3>1 DEF OnBranch, KeepsPlan
    <3> QED  BY <2>1, <2>4, <3>2, <3>3 DEF TreeFits
  <2>12. t.unit \notin DOMAIN folders' /\ t.unit \notin DOMAIN rows'
    BY <1>1, <1>2, <2>1, <2>5, <2>6 DEF NewIsFree
  <2>13. HasChunk(t.new)'
    BY <2>4, <2>6 DEF HasChunk
  <2>14. Replaces({t}, {v}, {t.unit, t.new})
    BY <1>2, <2>2, <2>10, <2>11, <2>12, <2>13 DEF Replaces, GoesOn, Parting
  <2>15. TasksHeld' /\ FailedUndone' /\ TreesFit' /\ LaterPhaseHasChunk'
    <3>1. {t.unit, t.new} \in SUBSET {t.unit, t.new} /\ {} \in SUBSET {t.unit, t.new}
      OBVIOUS
    <3> QED  BY <1>2, <2>2, <2>3, <2>8, <2>14, <3>1, OnKeeps
  <2>16. TasksApart'
    BY <1>1, <2>2, <2>3 DEF TasksApart, GoesOn
  <2>17. KeysHeld'
    <3> SUFFICES ASSUME NEW u \in tasks', u.id \notin past.robbed
                 PROVE  /\ u.unit \in DOMAIN rows' /\ rows'[u.unit].id = u.id
                        /\ KeyOf(u) \in DOMAIN keys /\ keys[KeyOf(u)] = u.id
                        /\ \A x \in tasks' : x.id = u.id => x = u
      BY <1>2, <2>1 DEF KeysHeld, KeyOf
    <3>1. CASE u = v
      <4>1. KeyOf(u) = t.unit /\ KeyOf(t) = t.unit /\ u.id = t.id
        BY <1>2, <2>2, <3>1 DEF KeyOf, GoesOn
      <4>2. t.id \notin past.robbed
        BY <4>1
      <4> QED  BY <1>1, <2>2, <2>4, <2>6, <3>1, <4>1, <4>2 DEF KeysHeld, GoesOn
    <3>2. CASE u \in tasks /\ u # t
      BY <1>1, <1>4, <2>2, <2>4, <2>6, <3>2 DEF KeysHeld, GoesOn
    <3> QED  BY <2>2, <3>1, <3>2 DEF GoesOn
  <2>18. RowsApart'
    BY <1>1, <1>2, <2>1, <2>4, <2>6 DEF RowsApart
  <2>19. PlansKept'
    BY <1>1, <2>1, <2>7, NothingLost
  <2>20. NewIsFree'
    <3>1. \A u \in tasks' : u.at \notin {"folder", "row"}
      BY <1>2, <2>2, <2>9 DEF GoesOn, Propagating
    <3> QED  BY <3>1, NoNewName
  <2>21. RefsFollow'
    <3> SUFFICES ASSUME past.torn = {} PROVE RefsFollow'
      BY <2>1 DEF RefsFollow
    <3>1. \A u \in tasks : u.at \notin {"home", "blockers", "verdicts"}
      BY <1>2, <2>9 DEF Propagating
    <3>2. Old({"home", "blockers"}) = {} /\ Old({"home", "blockers", "verdicts"}) = {}
      BY <3>1 DEF Old
    <3>3. t.unit \in Old({"home", "blockers", "verdicts"})' /\ t.unit \in Old({"home", "blockers"})'
      BY <2>2 DEF Old, GoesOn
    <3>4. /\ \A n \in DOMAIN rows : rows[n].blockers \subseteq DOMAIN rows /\ (rows[n].id \notin past.overtaken => rows[n].verdicts \subseteq DOMAIN rows)
          /\ \A u \in tasks : u.at \notin Parting /\ u.id \notin past.overtaken => u.verdicts \subseteq DOMAIN rows
      BY <1>1, <3>2 DEF RefsFollow, Follows
    <3>5. \A n \in DOMAIN rows' : \E m \in DOMAIN rows : rows'[n] = rows[m]
      BY <2>4, <2>6
    <3>6. DOMAIN rows \subseteq DOMAIN rows' \union {t.unit}
      BY <2>6
    <3>7. \A u \in tasks' : u.at \notin Parting /\ u.id \notin past.overtaken => u.verdicts \subseteq DOMAIN rows
      BY <2>2, <2>3, <3>4 DEF GoesOn
    <3>8. \A n \in DOMAIN rows' : rows'[n].blockers \subseteq DOMAIN rows /\ (rows'[n].id \notin past.overtaken => rows'[n].verdicts \subseteq DOMAIN rows)
      BY <3>4, <3>5
    <3> QED  BY <2>1, <3>3, <3>6, <3>7, <3>8 DEF RefsFollow, Follows
  <2>22. NameTypes'
    <3>1. tasks' \subseteq Runs
      BY <1>1, <2>2 DEF GoesOn
    <3> QED  BY <1>1, <1>2, <2>1, <2>6, <3>1 DEF NameTypes, RowTypes
  <2> QED  BY <2>15, <2>16, <2>17, <2>18, <2>19, <2>20, <2>21, <2>22 DEF NameIInv
<1> QED  BY <1>3, <1>4

\* A task whose turn ends, with nobody in the middle of a propagation.
LEMMA TurnKeeps ==
  ASSUME NameIInv, NEW t \in tasks, NEW v, GoesOn(t, v), t.at \notin Parting, ~Busy, v.unit = t.unit,
         v.at \in {"advance", "branch", "exit"}, Touches({t.unit}, {t.unit}, {t.unit}), IdsStay,
         v.at # "exit" => Held(v)' /\ OwnChunk(v)',
         t.unit \in DOMAIN folders' => TreeFits(t.unit)', HasChunk(t.unit)'
  PROVE  /\ TasksHeld' /\ FailedUndone' /\ TreesFit' /\ LaterPhaseHasChunk' /\ TasksApart' /\ NewIsFree'
         /\ keys' = keys /\ KeyOf(v) = KeyOf(t) => KeysHeld'
<1>1. /\ NameTypes /\ RowsApart /\ TasksApart /\ TasksHeld /\ FailedUndone /\ NewIsFree /\ KeysHeld
      /\ TreesFit /\ LaterPhaseHasChunk /\ tasks \subseteq Runs
  BY TypesAre DEF NameIInv
<1>2. \A u \in tasks : u.at \in Turning \union Parting /\ BranchOf(u) = u.unit /\ TreeOf(u) = u.unit
  BY <1>1, NotBusy
<1>3. v.at \notin Parting \/ v.at = "exit"
  BY DEF Parting
<1>4. Replaces({t}, {v}, {t.unit})
  BY <1>2, <1>3 DEF Replaces, GoesOn, Turning, Parting
<1>5. Spares({t}, {t.unit}, {t.unit}, {t.unit})
  BY <1>1, Distinct DEF Spares
<1>6. TasksHeld' /\ FailedUndone' /\ TreesFit' /\ LaterPhaseHasChunk'
  BY <1>1, <1>4, <1>5, OthersStay, TreesStay
<1>7. PastGrows
  BY DEF Touches
<1>8. TasksApart'
  BY <1>1 DEF TasksApart, GoesOn, Busy
<1>9. keys' = keys /\ KeyOf(v) = KeyOf(t) => KeysHeld'
  BY <1>1, <1>7, TaskGoesOn
<1>10. NewIsFree'
  <2>1. \A u \in tasks' : u.at \notin {"folder", "row"}
    BY <1>2 DEF GoesOn, Turning, Parting
  <2> QED  BY <2>1, NoNewName
<1> QED  BY <1>6, <1>8, <1>9, <1>10

LEMMA AgentStopsKeeps == ASSUME NameIInv, NEW t \in tasks, AgentStops(t) PROVE NameIInv'
<1>1. /\ NameTypes /\ RowsApart /\ TasksApart /\ TasksHeld /\ KeysHeld
      /\ TreesFit /\ RefsFollow /\ LaterPhaseHasChunk /\ PlansKept /\ RowTypes /\ FolderTypes /\ tasks \subseteq Runs /\ PastIs
  BY TypesAre DEF NameIInv, NameTypes, PastIs
<1>2. t.at = "agent" /\ ~Busy /\ Goto(t, "exit") /\ UNCHANGED <<pairs, goals, branches, folders, keys, count>>
      /\ past' = IF Renamed(t) THEN [past EXCEPT !.cut = @ \union {t.id}] ELSE past
  BY DEF AgentStops
<1>3. Held(t) /\ t.at \notin Parting
  BY <1>1, <1>2 DEF TasksHeld, Parting
<1>4. /\ t.unit \in DOMAIN rows /\ rows[t.unit].id = t.id /\ rows[t.unit].status = "RUNNING" /\ t.unit \in branches
      /\ t.unit \in DOMAIN folders /\ folders[t.unit].owner \in {t.id} \union past.torn
  BY <1>2, <1>3 DEF Held, BranchOf, TreeOf, Owns, WorktreeExists
<1>5. PICK v : GoesOn(t, v) /\ v.at = "exit" /\ v.unit = t.unit /\ v.new = t.new
  BY <1>1, <1>2, GotoIs DEF Parting
<1>6. rows' = [rows EXCEPT ![t.unit] = Ceased(rows[t.unit], t.verdicts)]
  BY DEF AgentStops, Ceased
<1>7. /\ DOMAIN rows' = DOMAIN rows /\ RowTypes' /\ IdsStay
      /\ \A m \in DOMAIN rows : m # t.unit => rows'[m] = rows[m]
      /\ rows'[t.unit].planning = rows[t.unit].planning /\ rows'[t.unit].blockers = rows[t.unit].blockers
      /\ rows'[t.unit].verdicts = t.verdicts
  BY <1>1, <1>4, <1>6, RowCeased
<1>8. /\ past'.cut = (IF Renamed(t) THEN past.cut \union {t.id} ELSE past.cut) /\ PastGrows /\ PastIs' /\ past'.torn = past.torn
      /\ past'.unclear = past.unclear /\ past'.lost = past.lost
  BY <1>1, <1>2 DEF PastIs, PastGrows
<1>9. Touches({t.unit}, {t.unit}, {t.unit})
  BY <1>2, <1>7, <1>8 DEF Touches, RowStays
<1>10. TreeFits(t.unit)'
  <2>1. \A g \in tasks' : g.at # "folder"
    BY <1>2, <1>5 DEF GoesOn, Busy, Propagating
  <2>2. \A g \in tasks : g.at # "row"
    BY <1>2 DEF Busy, Propagating
  <2>3. Renamed(t) => folders[t.unit].owner \in Ended'
    BY <1>4, <1>8 DEF Ended
  <2>4. ~Renamed(t) => t.unit \in folders[t.unit].current \/ ~rows[t.unit].planning
    BY DEF Renamed
  <2> QED  BY <1>1, <1>2, <1>4, <1>7, <1>8, <2>1, <2>2, <2>3, <2>4, TreeSame DEF IdsStay
<1>11. HasChunk(t.unit)'
  BY <1>1, <1>2, <1>4, <1>7, <1>8 DEF LaterPhaseHasChunk, HasChunk, WorktreeExists, IdsStay
<1>12. KeyOf(v) = KeyOf(t)
  BY <1>2, <1>5 DEF KeyOf
<1>13. TasksHeld' /\ FailedUndone' /\ TreesFit' /\ LaterPhaseHasChunk' /\ TasksApart' /\ NewIsFree' /\ KeysHeld'
  BY <1>2, <1>3, <1>5, <1>7, <1>9, <1>10, <1>11, <1>12, TurnKeeps
<1>14. RefsFollow'
  <2>1. \A u \in tasks : u.at \notin {"home", "blockers", "verdicts"}
    BY <1>2 DEF Busy, Propagating
  <2>2. \A u \in tasks' : u.at \notin Parting => u \in tasks
    BY <1>5 DEF GoesOn, Parting
  <2>3. \A n \in DOMAIN rows : /\ rows'[n].blockers \subseteq rows[n].blockers
                               /\ \/ rows'[n].verdicts \subseteq rows[n].verdicts
                                  \/ \E u \in tasks : u.id = rows[n].id /\ u.at \notin Parting /\ rows'[n].verdicts = u.verdicts
    BY <1>3, <1>4, <1>7
  <2> QED  BY <1>1, <1>7, <1>8, <2>1, <2>2, <2>3, RefsStay
<1>15. RowsApart' /\ PlansKept'
  BY <1>1, <1>2, <1>7, <1>8, RowsStayApart, NothingLost
<1>16. NameTypes'
  <2>1. tasks' \subseteq Runs
    BY <1>1, <1>5 DEF GoesOn
  <2> QED  BY <1>1, <1>2, <1>7, <1>8, <2>1 DEF NameTypes, RowTypes, PastIs
<1> QED  BY <1>13, <1>14, <1>15, <1>16 DEF NameIInv

LEMMA CompletesKeeps == ASSUME NameIInv, NEW t \in tasks, Completes(t) PROVE NameIInv'
<1>1. /\ NameTypes /\ RowsApart /\ TasksApart /\ TasksHeld /\ KeysHeld
      /\ TreesFit /\ RefsFollow /\ LaterPhaseHasChunk /\ PlansKept /\ RowTypes /\ FolderTypes /\ tasks \subseteq Runs /\ PastIs
  BY TypesAre DEF NameIInv, NameTypes, PastIs
<1>2. t.at = "agent" /\ ~Busy /\ UNCHANGED <<rows, pairs, goals, branches, folders, keys, count>>
  BY DEF Completes
<1>3. Held(t) /\ OwnChunk(t) /\ t.at \notin Parting
  BY <1>1, <1>2 DEF TasksHeld, Parting
<1>4. /\ t.unit \in DOMAIN rows /\ rows[t.unit].id = t.id /\ rows[t.unit].status = "RUNNING" /\ t.unit \in branches
      /\ rows[t.unit].home = t.unit /\ t.unit \in DOMAIN folders /\ TreeOf(t) = t.unit
      /\ folders[t.unit] # NoTree /\ folders[t.unit].owner \in {t.id} \union past.torn
      /\ rows[t.unit].planning /\ t.unit \in folders[t.unit].chunks => t.unit \in folders[t.unit].current
  BY <1>2, <1>3 DEF Held, OwnChunk, BranchOf, TreeOf, Owns, WorktreeExists
<1>5. PICK v : /\ GoesOn(t, v) /\ v.unit = t.unit /\ v.at \in {"branch", "advance"}
               /\ v.at = "branch" => /\ v.new \in folders[t.unit].current /\ rows[t.unit].planning
                                     /\ t.unit \notin folders[t.unit].current /\ past' = past
               /\ v.at = "advance" => past' = IF Renamed(t) THEN [past EXCEPT !.unclear = @ \union {t.id}] ELSE past
  <2>1. CASE DetectRename(t.unit) = {}
    <3>1. Goto(t, "advance") /\ past' = IF Renamed(t) THEN [past EXCEPT !.unclear = @ \union {t.id}] ELSE past
      BY <2>1 DEF Completes
    <3> QED  BY <1>1, <3>1, GotoIs DEF Turning
  <2>2. CASE DetectRename(t.unit) # {}
    <3>1. PICK new \in DetectRename(t.unit) :
            tasks' = (tasks \ {t}) \union {[t EXCEPT !.at = "branch", !.new = new]} /\ past' = past
      BY <2>2 DEF Completes
    <3>2. new \in folders[t.unit].current /\ rows[t.unit].planning /\ t.unit \notin folders[t.unit].current
      BY <3>1 DEF DetectRename, NewChunks
    <3>3. new \in UnitNames
      BY <1>1, <1>4, <3>2 DEF FolderTypes, Worktrees
    <3> DEFINE w == [id |-> t.id, chunk |-> t.chunk, unit |-> t.unit, at |-> "branch", verdicts |-> t.verdicts, new |-> new]
    <3>4. t = [id |-> t.id, chunk |-> t.chunk, unit |-> t.unit, at |-> t.at, verdicts |-> t.verdicts, new |-> t.new]
      BY <1>1, RunIs
    <3>5. [t EXCEPT !.at = "branch"] = [id |-> t.id, chunk |-> t.chunk, unit |-> t.unit, at |-> "branch", verdicts |-> t.verdicts, new |-> t.new]
      BY <3>4
    <3>6. [[id |-> t.id, chunk |-> t.chunk, unit |-> t.unit, at |-> "branch", verdicts |-> t.verdicts, new |-> t.new] EXCEPT !.new = new] = w
      OBVIOUS
    <3>7. [t EXCEPT !.at = "branch", !.new = new] = [[t EXCEPT !.at = "branch"] EXCEPT !.new = new]
      BY Zenon
    <3>8. w \in Runs
      BY <1>1, <3>3, RunIs DEF Runs, Propagating
    <3>9. w.id = t.id /\ w.chunk = t.chunk /\ w.verdicts = t.verdicts /\ w.unit = t.unit /\ w.at = "branch" /\ w.new = new
      OBVIOUS
    <3> HIDE DEF w
    <3>10. [t EXCEPT !.at = "branch", !.new = new] = w
      BY <3>5, <3>6, <3>7, Zenon
    <3> QED  BY <3>1, <3>2, <3>8, <3>9, <3>10 DEF GoesOn
  <2> QED  BY <2>1, <2>2
<1>6. /\ PastGrows /\ PastIs' /\ past'.torn = past.torn /\ past'.cut = past.cut /\ past'.refused = past.refused /\ past'.lost = past.lost
      /\ v.at = "advance" => past'.unclear = (IF Renamed(t) THEN past.unclear \union {t.id} ELSE past.unclear)
  <2>1. past' = past \/ past' = [past EXCEPT !.unclear = past.unclear \union {t.id}]
    BY <1>5
  <2>2. /\ PastGrows /\ PastIs' /\ past'.torn = past.torn /\ past'.cut = past.cut /\ past'.refused = past.refused /\ past'.lost = past.lost
    BY <1>1, <2>1 DEF PastIs, PastGrows
  <2>3. [past EXCEPT !.unclear = past.unclear \union {t.id}].unclear = past.unclear \union {t.id}
    BY <1>1 DEF PastIs
  <2> QED  BY <1>5, <2>2, <2>3
<1>7. IdsStay /\ Touches({t.unit}, {t.unit}, {t.unit})
  BY <1>2, <1>6 DEF IdsStay, Touches, RowStays
<1>8. Held(v)' /\ OwnChunk(v)'
  <2>1. TreeOf(v) = t.unit /\ BranchOf(v) = t.unit /\ v.id = t.id
    BY <1>5 DEF TreeOf, BranchOf, GoesOn
  <2>2. Held(v)'
    BY <1>2, <1>4, <1>5, <1>6, <2>1 DEF Held, Owns, WorktreeExists, TreeOf, BranchOf
  <2>3. CASE v.at = "branch"
    <3>1. t.unit \notin folders[t.unit].chunks
      BY <1>4, <1>5, <2>3
    <3> QED  BY <1>2, <1>5, <2>1, <2>2, <2>3, <3>1 DEF OwnChunk, Propagating, TreeOf
  <2>4. CASE v.at = "advance"
    <3>1. rows[t.unit].planning => t.id \in past'.unclear \/ t.unit \in folders[t.unit].current
      BY <1>6, <2>4 DEF Renamed
    <3> QED  BY <1>2, <1>5, <2>1, <2>2, <2>4, <3>1 DEF OwnChunk, Propagating, TreeOf
  <2> QED  BY <1>5, <2>3, <2>4
<1>9. TreeFits(t.unit)'
  <2>1. \A g \in tasks' : g.at # "folder"
    BY <1>2, <1>5 DEF GoesOn, Busy, Propagating
  <2>2. \A g \in tasks : g.at # "row"
    BY <1>2 DEF Busy, Propagating
  <2>3. v \in tasks'
    BY <1>5 DEF GoesOn
  <2> QED  BY <1>1, <1>2, <1>4, <1>5, <1>6, <2>1, <2>2, <2>3, TreeSame
<1>10. HasChunk(t.unit)'
  BY <1>1, <1>2, <1>4, <1>6 DEF LaterPhaseHasChunk, HasChunk, WorktreeExists, PastGrows
<1>11. KeyOf(v) = KeyOf(t)
  BY <1>2, <1>5 DEF KeyOf
<1>12. TasksHeld' /\ FailedUndone' /\ TreesFit' /\ LaterPhaseHasChunk' /\ TasksApart' /\ NewIsFree' /\ KeysHeld'
  BY <1>2, <1>3, <1>5, <1>7, <1>8, <1>9, <1>10, <1>11, TurnKeeps
<1>13. RefsFollow'
  <2>1. \A u \in tasks : u.at \notin {"home", "blockers", "verdicts"}
    BY <1>2 DEF Busy, Propagating
  <2> QED  BY <1>1, <1>2, <1>3, <1>5, <1>6, <1>7, <2>1, RefsStay DEF GoesOn
<1>14. RowsApart' /\ PlansKept'
  BY <1>1, <1>2, <1>6, <1>7, RowsStayApart, NothingLost
<1>15. NameTypes'
  <2>1. tasks' \subseteq Runs
    BY <1>1, <1>5 DEF GoesOn
  <2> QED  BY <1>1, <1>2, <1>6, <2>1 DEF NameTypes, PastIs
<1> QED  BY <1>12, <1>13, <1>14, <1>15 DEF NameIInv

LEMMA RenameKeyKeeps == ASSUME NameIInv, NEW t \in tasks, RenameKey(t) PROVE NameIInv'
<1>1. /\ NameTypes /\ RowsApart /\ TasksApart /\ TasksHeld /\ KeysHeld
      /\ TreesFit /\ RefsFollow /\ LaterPhaseHasChunk /\ PlansKept /\ RowTypes /\ FolderTypes /\ tasks \subseteq Runs /\ PastIs
  BY TypesAre DEF NameIInv, NameTypes, PastIs
<1>2. /\ t.at = "key" /\ ~Busy /\ Goto(t, "advance") /\ UNCHANGED <<rows, pairs, goals, branches, folders, count>>
      /\ IF t.new \in DOMAIN keys THEN keys' = Moved(keys, t.new, t.unit) /\ past' = Robbed(t, {t.new, t.unit})
         ELSE keys' = keys /\ past' = past
  BY DEF RenameKey
<1>3. Held(t) /\ OwnChunk(t) /\ t.at \notin Parting
  BY <1>1, <1>2 DEF TasksHeld, Parting
<1>4. /\ t.unit \in DOMAIN rows /\ rows[t.unit].id = t.id
      /\ rows[t.unit].home = t.unit /\ t.unit \in DOMAIN folders /\ TreeOf(t) = t.unit /\ t.unit \in folders[t.unit].current
  BY <1>2, <1>3 DEF Held, OwnChunk, BranchOf, TreeOf, Owns, WorktreeExists, Propagating
<1>5. PICK v : GoesOn(t, v) /\ v.unit = t.unit /\ v.at = "advance" /\ v.new = t.new
  BY <1>1, <1>2, GotoIs DEF Turning
<1>6. /\ past'.robbed = past.robbed \union
           (IF t.new \in DOMAIN keys THEN {keys[n] : n \in {t.new, t.unit} \intersect DOMAIN keys} \ {t.id} ELSE {})
      /\ PastGrows /\ PastIs' /\ past'.torn = past.torn /\ past'.unclear = past.unclear /\ past'.lost = past.lost
  BY <1>1, <1>2 DEF PastIs, PastGrows, Robbed
<1>7. IdsStay /\ Touches({t.unit}, {t.unit}, {t.unit})
  BY <1>2, <1>6 DEF IdsStay, Touches, RowStays
<1>8. Held(v)' /\ OwnChunk(v)'
  <2>1. TreeOf(v) = t.unit /\ BranchOf(v) = t.unit /\ v.id = t.id /\ BranchOf(t) = t.unit
    BY <1>2, <1>5 DEF TreeOf, BranchOf, GoesOn
  <2>2. Held(v)'
    BY <1>2, <1>3, <1>4, <1>5, <1>6, <2>1 DEF Held, Owns, WorktreeExists, TreeOf, BranchOf
  <2> QED  BY <1>2, <1>4, <1>5, <2>1, <2>2 DEF OwnChunk, Propagating, TreeOf
<1>9. TreeFits(t.unit)'
  <2>1. \A g \in tasks' : g.at # "folder"
    BY <1>2, <1>5 DEF GoesOn, Busy, Propagating
  <2>2. \A g \in tasks : g.at # "row"
    BY <1>2 DEF Busy, Propagating
  <2> QED  BY <1>1, <1>2, <1>4, <1>6, <2>1, <2>2, TreeSame
<1>10. HasChunk(t.unit)'
  BY <1>1, <1>2, <1>4, <1>6 DEF LaterPhaseHasChunk, HasChunk, WorktreeExists
<1>11. TasksHeld' /\ FailedUndone' /\ TreesFit' /\ LaterPhaseHasChunk' /\ TasksApart' /\ NewIsFree'
  BY <1>2, <1>3, <1>5, <1>7, <1>8, <1>9, <1>10, TurnKeeps
<1>12. KeysHeld'
  <2> SUFFICES ASSUME NEW u \in tasks', u.id \notin past'.robbed
               PROVE  /\ u.unit \in DOMAIN rows' /\ rows'[u.unit].id = u.id
                      /\ KeyOf(u) \in DOMAIN keys' /\ keys'[KeyOf(u)] = u.id
                      /\ \A w \in tasks' : w.id = u.id => w = u
    BY DEF KeysHeld, KeyOf
  <2>1. PICK w \in tasks : w.id = u.id /\ w.unit = u.unit /\ ((w = t /\ u = v) \/ (w = u /\ w # t))
    BY <1>5 DEF GoesOn
  <2>2. /\ w.id \notin past.robbed /\ w.unit \in DOMAIN rows /\ rows[w.unit].id = w.id
        /\ KeyOf(w) \in DOMAIN keys /\ keys[KeyOf(w)] = w.id /\ \A x \in tasks : x.id = w.id => x = w
    BY <1>1, <1>6, <2>1 DEF KeysHeld
  <2>3. \A x \in tasks' : x.id = u.id => x = u
    BY <1>5, <2>1, <2>2 DEF GoesOn
  <2>4. KeyOf(t) = t.new /\ KeyOf(v) = t.unit
    BY <1>2, <1>5 DEF KeyOf
  <2>5. CASE t.new \notin DOMAIN keys
    BY <1>2, <2>1, <2>2, <2>3, <2>4, <2>5
  <2>6. CASE t.new \in DOMAIN keys
    <3>1. /\ DOMAIN keys' = (DOMAIN keys \ {t.new}) \union {t.unit} /\ keys'[t.unit] = keys[t.new]
          /\ \A k \in DOMAIN keys : k # t.new /\ k # t.unit => keys'[k] = keys[k]
      BY <1>2, <2>6 DEF Moved, With, Without, Restrict
    <3>2. CASE w = t
      BY <1>2, <2>1, <2>2, <2>3, <2>4, <3>1, <3>2
    <3>3. CASE w # t
      <4>1. KeyOf(w) # t.new /\ KeyOf(w) # t.unit
        BY <1>6, <2>1, <2>2, <2>6, <3>3
      <4> QED  BY <1>2, <2>1, <2>2, <2>3, <3>1, <3>3, <4>1
    <3> QED  BY <3>2, <3>3
  <2> QED  BY <2>5, <2>6
<1>13. RefsFollow'
  <2>1. \A u \in tasks : u.at \notin {"home", "blockers", "verdicts"}
    BY <1>2 DEF Busy, Propagating
  <2> QED  BY <1>1, <1>2, <1>3, <1>5, <1>6, <1>7, <2>1, RefsStay DEF GoesOn
<1>14. RowsApart' /\ PlansKept'
  BY <1>1, <1>2, <1>6, <1>7, RowsStayApart, NothingLost
<1>15. NameTypes'
  <2>1. tasks' \subseteq Runs
    BY <1>1, <1>5 DEF GoesOn
  <2> QED  BY <1>1, <1>2, <1>6, <2>1 DEF NameTypes, PastIs
<1> QED  BY <1>11, <1>12, <1>13, <1>14, <1>15 DEF NameIInv

LEMMA AdvanceKeeps == ASSUME NameIInv, NEW t \in tasks, Advance(t) PROVE NameIInv'
<1> DEFINE o == rows[t.unit]
           r == RowWith(o, "READY", FALSE, o.blockers, {}, o.baseline, o.home)
<1>1. /\ NameTypes /\ RowsApart /\ TasksApart /\ TasksHeld /\ KeysHeld
      /\ TreesFit /\ RefsFollow /\ LaterPhaseHasChunk /\ PlansKept /\ RowTypes /\ FolderTypes /\ tasks \subseteq Runs /\ PastIs
  BY TypesAre DEF NameIInv, NameTypes, PastIs
<1>2. /\ t.at = "advance" /\ ~Busy /\ rows[t.unit].planning /\ Goto(t, "exit")
      /\ UNCHANGED <<goals, branches, folders, keys, count, past>>
      /\ rows' = [rows EXCEPT ![t.unit] = Advanced(rows[t.unit])]
  BY DEF Advance, Advanced
<1>3. Held(t) /\ OwnChunk(t) /\ t.at \notin Parting
  BY <1>1, <1>2 DEF TasksHeld, Parting
<1>4. /\ t.unit \in DOMAIN rows /\ rows[t.unit].id = t.id /\ t.unit \in branches
      /\ t.unit \in DOMAIN folders /\ TreeOf(t) = t.unit /\ folders[t.unit] # NoTree
      /\ t.id \in past.unclear \/ t.unit \in folders[t.unit].current
  BY <1>2, <1>3 DEF Held, OwnChunk, BranchOf, TreeOf, Owns, WorktreeExists, Propagating
<1>5. PICK v : GoesOn(t, v) /\ v.unit = t.unit /\ v.at = "exit" /\ v.new = t.new
  BY <1>1, <1>2, GotoIs DEF Parting
<1>6. PastGrows
  BY <1>2 DEF PastGrows
<1>7. o \in Rows /\ o.blockers \in SUBSET UnitNames /\ o.baseline \in SUBSET UnitNames /\ o.home \in UnitNames \union {NoName}
      /\ "READY" \in Statuses
  BY <1>1, <1>4, RowIs DEF RowTypes, Statuses
<1>8. rows' = [rows EXCEPT ![t.unit] = r]
  BY <1>2, <1>7, RowsWritten
<1>9. r \in Rows /\ r.id = o.id /\ r.planning = FALSE /\ r.verdicts = {} /\ r.blockers = o.blockers
  <2> DEFINE q(p) == RowWith(o, "READY", p, o.blockers, {}, o.baseline, o.home)
  <2>1. \A p \in BOOLEAN : q(p) \in Rows /\ q(p).id = o.id /\ q(p).planning = p /\ q(p).verdicts = {} /\ q(p).blockers = o.blockers
    BY <1>7, WrittenFits
  <2> HIDE DEF q
  <2>2. q(FALSE) \in Rows /\ q(FALSE).id = o.id /\ q(FALSE).planning = FALSE /\ q(FALSE).verdicts = {} /\ q(FALSE).blockers = o.blockers
    BY <2>1, Zenon
  <2>3. q(FALSE) = r
    BY Zenon DEF q
  <2> QED  BY <2>2, <2>3, Zenon
<1> HIDE DEF r
<1>10. /\ DOMAIN rows' = DOMAIN rows /\ rows'[t.unit] = r /\ RowTypes'
       /\ \A m \in DOMAIN rows : m # t.unit => rows'[m] = rows[m]
  BY <1>1, <1>4, <1>8, <1>9, RowSet
<1>11. IdsStay /\ Touches({t.unit}, {t.unit}, {t.unit})
  BY <1>2, <1>6, <1>9, <1>10 DEF IdsStay, Touches, RowStays
<1>12. rows'[t.unit].planning = FALSE
  BY <1>9, <1>10
<1>13. TreeFits(t.unit)'
  <2>1. \A g \in tasks' : g.at # "folder"
    BY <1>2, <1>5 DEF GoesOn, Busy, Propagating
  <2>2. \A g \in tasks : g.at # "row"
    BY <1>2 DEF Busy, Propagating
  <2>3. TreeFits(t.unit)
    BY <1>1, <1>4 DEF TreesFit
  <2>4. Owned(t.unit)'
    BY <1>2, <1>4, <1>9, <1>10, <2>2, <2>3 DEF TreeFits, Owned
  <2>5. OnBranch(t.unit)'
    BY <1>2, <1>4, <2>1 DEF OnBranch
  <2>6. KeepsPlan(t.unit)'
    BY <1>4, <1>10, <1>12 DEF KeepsPlan
  <2> QED  BY <1>2, <2>3, <2>4, <2>5, <2>6 DEF TreeFits
<1>14. HasChunk(t.unit)'
  BY <1>2, <1>4, <1>9, <1>10 DEF HasChunk, WorktreeExists
<1>15. KeyOf(v) = KeyOf(t)
  BY <1>2, <1>5 DEF KeyOf
<1>16. TasksHeld' /\ FailedUndone' /\ TreesFit' /\ LaterPhaseHasChunk' /\ TasksApart' /\ NewIsFree' /\ KeysHeld'
  BY <1>2, <1>3, <1>5, <1>11, <1>13, <1>14, <1>15, TurnKeeps
<1>17. RefsFollow'
  <2>1. \A u \in tasks : u.at \notin {"home", "blockers", "verdicts"}
    BY <1>2 DEF Busy, Propagating
  <2>2. \A n \in DOMAIN rows : rows'[n].blockers \subseteq rows[n].blockers /\ rows'[n].verdicts \subseteq rows[n].verdicts
    BY <1>9, <1>10
  <2>3. \A u \in tasks' : u.at \notin Parting => u \in tasks
    BY <1>5 DEF GoesOn, Parting
  <2> QED  BY <1>1, <1>6, <1>11, <2>1, <2>2, <2>3, RefsStay
<1>18. RowsApart' /\ PlansKept'
  BY <1>1, <1>2, <1>6, <1>11, RowsStayApart, NothingLost
<1>19. NameTypes'
  <2>1. tasks' \subseteq Runs
    BY <1>1, <1>5 DEF GoesOn
  <2> QED  BY <1>1, <1>2, <1>10, <2>1 DEF NameTypes, RowTypes
<1> QED  BY <1>16, <1>17, <1>18, <1>19 DEF NameIInv

LEMMA RowReleased ==
  ASSUME NEW o \in Rows, NEW done
  PROVE  /\ Released(o, done) \in Rows /\ Released(o, done).id = o.id /\ Released(o, done).planning = o.planning
         /\ Released(o, done).home = o.home /\ Released(o, done).verdicts = o.verdicts
         /\ Released(o, done).blockers = o.blockers \ {done}
         /\ o.status \notin {"BLOCKED", "NEEDS_ATTENTION"} => Released(o, done).status = o.status
<1> DEFINE left == o.blockers \ {done}
           s == IF done \in o.blockers /\ left = {} /\ o.status \in {"BLOCKED", "NEEDS_ATTENTION"} THEN "READY" ELSE o.status
<1>1. Released(o, done) = [o EXCEPT !.blockers = left, !.status = s]
  BY DEF Released
<1>2. [o EXCEPT !.blockers = left, !.status = s] = [[o EXCEPT !.blockers = left] EXCEPT !.status = s]
  BY Zenon
<1>3. /\ s \in Statuses /\ left \in SUBSET UnitNames /\ (o.status \notin {"BLOCKED", "NEEDS_ATTENTION"} => s = o.status)
  BY RowIs DEF Statuses
<1>4. /\ o.planning \in BOOLEAN /\ o.verdicts \in SUBSET UnitNames /\ o.baseline \in SUBSET UnitNames /\ o.home \in UnitNames \union {NoName}
  BY RowIs
<1> HIDE DEF left, s
<1>5. [o EXCEPT !.blockers = left] = RowWith(o, o.status, o.planning, left, o.verdicts, o.baseline, o.home)
  BY OneWritten
<1>6. [RowWith(o, o.status, o.planning, left, o.verdicts, o.baseline, o.home) EXCEPT !.status = s]
      = RowWith(o, s, o.planning, left, o.verdicts, o.baseline, o.home)
  BY DEF RowWith
<1>7. Released(o, done) = RowWith(o, s, o.planning, left, o.verdicts, o.baseline, o.home)
  BY <1>1, <1>2, <1>5, <1>6
<1> DEFINE r == RowWith(o, s, o.planning, left, o.verdicts, o.baseline, o.home)
<1>8. /\ r \in Rows /\ r.id = o.id /\ r.status = s /\ r.planning = o.planning /\ r.blockers = left /\ r.verdicts = o.verdicts
      /\ r.home = o.home
  BY <1>3, <1>4, WrittenFits
<1> HIDE DEF r
<1>9. Released(o, done) = r
  BY <1>7 DEF r
<1> QED  BY <1>3, <1>8, <1>9 DEF left

LEMMA FinishKeeps == ASSUME NameIInv, NEW t \in tasks, Finish(t) PROVE NameIInv'
<1> DEFINE o == rows[t.unit]
           r == RowWith(o, "DONE", o.planning, o.blockers, t.verdicts, o.baseline, o.home)
<1>1. /\ NameTypes /\ RowsApart /\ TasksApart /\ TasksHeld /\ KeysHeld
      /\ TreesFit /\ RefsFollow /\ LaterPhaseHasChunk /\ PlansKept /\ RowTypes /\ FolderTypes /\ tasks \subseteq Runs /\ PastIs
  BY TypesAre DEF NameIInv, NameTypes, PastIs
<1>2. /\ t.at = "advance" /\ ~Busy /\ Goto(t, "exit")
      /\ UNCHANGED <<pairs, keys, count, past>>
      /\ goals' \subseteq goals /\ folders' = [folders EXCEPT ![t.unit] = NoTree] /\ branches' = branches \ {t.unit}
      /\ rows' = [n \in DOMAIN rows |->
           IF n = t.unit THEN Finished(rows[n], t.verdicts) ELSE Released(rows[n], t.unit)]
  BY DEF Finish, Finished
<1>3. Held(t) /\ t.at \notin Parting
  BY <1>1, <1>2 DEF TasksHeld, Parting
<1>4. /\ t.unit \in DOMAIN rows /\ o.id = t.id /\ t.unit \in DOMAIN folders
  BY <1>2, <1>3 DEF Held, TreeOf, Owns, WorktreeExists
<1>5. PICK v : GoesOn(t, v) /\ v.unit = t.unit /\ v.at = "exit" /\ v.new = t.new
  BY <1>1, <1>2, GotoIs DEF Parting
<1>6. PastGrows
  BY <1>2 DEF PastGrows
<1>7. \A n \in DOMAIN rows : rows[n] \in Rows
  BY <1>1 DEF RowTypes
<1>8. /\ o \in Rows /\ o.planning \in BOOLEAN /\ o.blockers \in SUBSET UnitNames /\ o.baseline \in SUBSET UnitNames
      /\ o.home \in UnitNames \union {NoName} /\ "DONE" \in Statuses /\ t.verdicts \in SUBSET UnitNames
  BY <1>1, <1>4, <1>7, RowIs, RunIs DEF Statuses
<1>9. r \in Rows /\ r.id = o.id /\ r.status = "DONE" /\ r.blockers = o.blockers /\ r.verdicts = t.verdicts
  BY <1>8, WrittenFits
<1>10. DOMAIN rows' = DOMAIN rows /\ rows' = [n \in DOMAIN rows' |-> rows'[n]]
  BY <1>2
<1>11. rows'[t.unit] = r
  <2>1. rows'[t.unit] = Finished(o, t.verdicts)
    BY <1>2, <1>4
  <2> QED  BY <1>8, <2>1, RowsWritten
<1> HIDE DEF r
<1>12. ASSUME NEW n \in DOMAIN rows, n # t.unit
       PROVE  /\ rows'[n] \in Rows /\ RowStays(n) /\ rows'[n].verdicts = rows[n].verdicts
              /\ rows'[n].blockers \subseteq rows[n].blockers
  <2>1. rows'[n] = Released(rows[n], t.unit)
    BY <1>2, <1>12
  <2>2. /\ rows'[n] \in Rows /\ rows'[n].id = rows[n].id /\ rows'[n].planning = rows[n].planning
        /\ rows'[n].home = rows[n].home /\ rows'[n].verdicts = rows[n].verdicts /\ rows'[n].blockers = rows[n].blockers \ {t.unit}
        /\ rows[n].status \notin {"BLOCKED", "NEEDS_ATTENTION"} => rows'[n].status = rows[n].status
    BY <1>7, <2>1, RowReleased
  <2> QED  BY <1>10, <2>2 DEF RowStays
<1>13. RowTypes'
  BY <1>1, <1>9, <1>10, <1>11, <1>12 DEF RowTypes
<1>14. NoTree \in Worktrees
  BY DEF NoTree, Worktrees
<1>15. /\ DOMAIN folders' = DOMAIN folders /\ folders'[t.unit] = NoTree /\ FolderTypes'
       /\ \A m \in DOMAIN folders : m # t.unit => folders'[m] = folders[m]
  BY <1>1, <1>2, <1>4, <1>14 DEF FolderTypes
<1>16. IdsStay
  BY <1>9, <1>10, <1>11, <1>12 DEF IdsStay, RowStays
<1>17. Touches({t.unit}, {t.unit}, {t.unit})
  BY <1>2, <1>6, <1>10, <1>12, <1>15 DEF Touches
<1>18. TreeFits(t.unit)' /\ HasChunk(t.unit)'
  BY <1>9, <1>11, <1>15 DEF TreeFits, HasChunk
<1>19. KeyOf(v) = KeyOf(t)
  BY <1>2, <1>5 DEF KeyOf
<1>20. TasksHeld' /\ FailedUndone' /\ TreesFit' /\ LaterPhaseHasChunk' /\ TasksApart' /\ NewIsFree' /\ KeysHeld'
  BY <1>2, <1>3, <1>5, <1>16, <1>17, <1>18, <1>19, TurnKeeps
<1>21. RefsFollow'
  <2>1. \A u \in tasks : u.at \notin {"home", "blockers", "verdicts"}
    BY <1>2 DEF Busy, Propagating
  <2>2. \A n \in DOMAIN rows : /\ rows'[n].blockers \subseteq rows[n].blockers
                               /\ \/ rows'[n].verdicts \subseteq rows[n].verdicts
                                  \/ \E u \in tasks : u.id = rows[n].id /\ u.at \notin Parting /\ rows'[n].verdicts = u.verdicts
    BY <1>3, <1>4, <1>9, <1>11, <1>12
  <2>3. \A u \in tasks' : u.at \notin Parting => u \in tasks
    BY <1>5 DEF GoesOn, Parting
  <2> QED  BY <1>1, <1>6, <1>16, <2>1, <2>2, <2>3, RefsStay
<1>22. RowsApart' /\ PlansKept'
  BY <1>1, <1>2, <1>6, <1>16, RowsStayApart, NothingLost
<1>23. NameTypes'
  <2>1. tasks' \subseteq Runs /\ goals' \subseteq UnitNames /\ branches' \subseteq UnitNames
    BY <1>1, <1>2, <1>5 DEF GoesOn, NameTypes
  <2> QED  BY <1>1, <1>2, <1>13, <1>15, <2>1 DEF NameTypes, RowTypes, FolderTypes
<1> QED  BY <1>20, <1>21, <1>22, <1>23 DEF NameIInv

LEMMA ExitKeeps == ASSUME NameIInv, NEW t \in tasks, Exit(t) PROVE NameIInv'
<1>1. /\ NameTypes /\ RowsApart /\ TasksApart /\ TasksHeld /\ FailedUndone /\ NewIsFree /\ KeysHeld
      /\ TreesFit /\ RefsFollow /\ LaterPhaseHasChunk /\ PlansKept /\ RowTypes /\ FolderTypes /\ tasks \subseteq Runs /\ PastIs
  BY TypesAre DEF NameIInv, NameTypes, PastIs
<1>2. /\ t.at \in Parting /\ ~Busy /\ tasks' = tasks \ {t} /\ keys' = Without(keys, t.chunk)
      /\ past' = Robbed(t, {t.chunk})
      /\ UNCHANGED <<rows, pairs, goals, branches, folders, count>>
  BY DEF Exit, Parting
<1>3. \A u \in tasks : u.at \in Turning \union Parting
  BY <1>1, <1>2, NotBusy
<1>4. /\ past'.robbed = past.robbed \union ({keys[n] : n \in {t.chunk} \intersect DOMAIN keys} \ {t.id})
      /\ PastGrows /\ PastIs' /\ past'.torn = past.torn /\ past'.lost = past.lost /\ past'.unclear = past.unclear
  BY <1>1, <1>2 DEF PastIs, PastGrows, Robbed
<1>5. IdsStay /\ Touches({}, {}, {})
  BY <1>2, <1>4 DEF IdsStay, Touches, RowStays
<1>6. t.unit \in DOMAIN folders' => TreeFits(t.unit)'
  <2>1. \A g \in tasks : g.at \in {"row", "folder"} => FALSE
    BY <1>3 DEF Turning, Parting
  <2>2. \A g \in tasks : g.at \in {"agent", "branch", "folder", "advance"} => g \in tasks'
    BY <1>2 DEF Parting
  <2> QED  BY <1>1, <1>2, <1>4, <2>1, <2>2, TreeSame
<1>7. t.unit \in DOMAIN rows' => HasChunk(t.unit)'
  BY <1>1, <1>2, <1>4 DEF LaterPhaseHasChunk, HasChunk, WorktreeExists
<1>8. Replaces({t}, {}, {t.unit})
  BY <1>2, <1>6, <1>7 DEF Replaces, Parting
<1>9. Spares({t}, {}, {}, {})
  BY DEF Spares
<1>10. TasksHeld' /\ FailedUndone' /\ TreesFit' /\ LaterPhaseHasChunk'
  BY <1>1, <1>5, <1>8, <1>9, OthersStay, TreesStay
<1>11. TasksApart'
  BY <1>1, <1>2 DEF TasksApart
<1>12. KeysHeld'
  <2> SUFFICES ASSUME NEW u \in tasks', u.id \notin past'.robbed
               PROVE  /\ u.unit \in DOMAIN rows /\ rows[u.unit].id = u.id
                      /\ KeyOf(u) \in DOMAIN keys' /\ keys'[KeyOf(u)] = u.id
                      /\ \A w \in tasks' : w.id = u.id => w = u
    BY <1>2 DEF KeysHeld, KeyOf
  <2>1. /\ u \in tasks /\ u # t /\ u.unit \in DOMAIN rows /\ rows[u.unit].id = u.id
        /\ KeyOf(u) \in DOMAIN keys /\ keys[KeyOf(u)] = u.id /\ \A w \in tasks : w.id = u.id => w = u
    BY <1>1, <1>2, <1>4 DEF KeysHeld
  <2>2. KeyOf(u) # t.chunk
    BY <1>4, <2>1
  <2>3. DOMAIN keys' = DOMAIN keys \ {t.chunk} /\ \A k \in DOMAIN keys : k # t.chunk => keys'[k] = keys[k]
    BY <1>2 DEF Without, Restrict
  <2> QED  BY <1>2, <2>1, <2>2, <2>3
<1>13. NewIsFree'
  BY <1>2, <1>3, NoNewName DEF Turning, Parting
<1>14. RefsFollow'
  <2>1. \A u \in tasks : u.at \notin {"home", "blockers", "verdicts"}
    BY <1>3 DEF Turning, Parting
  <2> QED  BY <1>1, <1>2, <1>4, <1>5, <2>1, RefsStay
<1>15. RowsApart' /\ PlansKept'
  BY <1>1, <1>2, <1>4, <1>5, RowsStayApart, NothingLost
<1>16. NameTypes'
  BY <1>1, <1>2, <1>4 DEF NameTypes, PastIs
<1> QED  BY <1>10, <1>11, <1>12, <1>13, <1>14, <1>15, <1>16 DEF NameIInv

LEMMA AgentRenamesKeeps ==
  ASSUME NameIInv, NEW t \in tasks, NEW names \in SUBSET UnitNames, AgentRenames(t, names) PROVE NameIInv'
<1> DEFINE tree == folders[t.unit]
           Replaced(S) == (S \ {t.unit}) \union names
           f == [owner |-> tree.owner, chunks |-> Replaced(tree.chunks), current |-> Replaced(tree.current)]
<1>1. /\ NameTypes /\ RowsApart /\ TasksApart /\ TasksHeld /\ FailedUndone /\ NewIsFree /\ KeysHeld
      /\ TreesFit /\ RefsFollow /\ LaterPhaseHasChunk /\ PlansKept /\ RowTypes /\ FolderTypes /\ tasks \subseteq Runs /\ PastIs
  BY TypesAre DEF NameIInv, NameTypes, PastIs
<1>2. /\ t.at = "agent" /\ rows[t.unit].planning /\ t.unit \in tree.current /\ names \intersect tree.chunks = {}
      /\ Bump("renames", MaxRenames)
      /\ UNCHANGED <<rows, pairs, goals, branches, tasks, keys, past>>
  BY DEF AgentRenames
<1>3. Held(t) /\ OwnChunk(t) /\ t.at \notin Parting /\ Holds(t)
  BY <1>1, <1>2 DEF TasksHeld, Parting, Holds
<1>4. /\ t.unit \in DOMAIN rows /\ rows[t.unit].id = t.id /\ rows[t.unit].status = "RUNNING" /\ t.unit \in branches
      /\ rows[t.unit].home = t.unit /\ t.unit \in DOMAIN folders /\ TreeOf(t) = t.unit /\ BranchOf(t) = t.unit
      /\ tree # NoTree /\ tree.owner \in {t.id} \union past.torn /\ TreeFits(t.unit) /\ t.unit \in UnitNames
  BY <1>1, <1>2, <1>3 DEF Held, BranchOf, TreeOf, Owns, WorktreeExists, TreesFit, RowTypes
<1>5. tree \in Worktrees /\ tree.chunks \subseteq UnitNames /\ tree.current \subseteq UnitNames /\ tree.owner \in Nat
  BY <1>1, <1>4 DEF FolderTypes, Worktrees
<1>6. folders' = With(folders, t.unit, f)
  <2>1. tree = [owner |-> tree.owner, chunks |-> tree.chunks, current |-> tree.current]
    BY <1>5 DEF Worktrees
  <2>2. [tree EXCEPT !.chunks = Replaced(tree.chunks)] = [owner |-> tree.owner, chunks |-> Replaced(tree.chunks), current |-> tree.current]
    BY <2>1
  <2>3. [[owner |-> tree.owner, chunks |-> Replaced(tree.chunks), current |-> tree.current] EXCEPT !.current = Replaced(tree.current)] = f
    OBVIOUS
  <2>4. [tree EXCEPT !.chunks = Replaced(tree.chunks), !.current = Replaced(tree.current)]
        = [[tree EXCEPT !.chunks = Replaced(tree.chunks)] EXCEPT !.current = Replaced(tree.current)]
    BY Zenon
  <2>5. folders' = With(folders, t.unit, [tree EXCEPT !.chunks = Replaced(tree.chunks), !.current = Replaced(tree.current)])
    BY DEF AgentRenames
  <2> HIDE DEF f, tree
  <2> QED  BY <2>2, <2>3, <2>4, <2>5, Zenon
<1>7. f \in Worktrees /\ f.current \subseteq f.chunks /\ f.owner = tree.owner /\ (t.unit \in f.chunks => t.unit \in f.current)
  BY <1>4, <1>5 DEF Worktrees, TreeFits
<1>8. f # NoTree
  <2>1. tree.owner # 0
    BY <1>1, <1>4 DEF RowsApart
  <2> QED  BY <1>7, <2>1 DEF NoTree
<1> HIDE DEF f
<1>9. /\ DOMAIN folders' = DOMAIN folders /\ folders'[t.unit] = f /\ FolderTypes'
      /\ \A m \in DOMAIN folders : m # t.unit => folders'[m] = folders[m]
  BY <1>1, <1>4, <1>6, <1>7, FolderWith
<1>10. PastGrows /\ IdsStay
  BY <1>2 DEF PastGrows, IdsStay
<1>11. Touches({}, {}, {t.unit})
  BY <1>2, <1>9, <1>10 DEF Touches, RowStays
<1>12. Held(t)' /\ OwnChunk(t)'
  <2>1. Held(t)'
    BY <1>2, <1>3, <1>4, <1>7, <1>8, <1>9 DEF Held, Owns, WorktreeExists, TreeOf, BranchOf
  <2>2. OwnChunk(t)'
    BY <1>2, <1>4, <1>7, <1>9 DEF OwnChunk, TreeOf, Propagating
  <2> QED  BY <2>1, <2>2
<1>13. TreeFits(t.unit)'
  <2>1. Owned(t.unit)'
    BY <1>2, <1>4, <1>7, <1>9 DEF Owned
  <2>2. OnBranch(t.unit)'
    BY <1>1, <1>2, <1>3, <1>4 DEF OnBranch, NewIsFree
  <2>3. KeepsPlan(t.unit)'
    BY <1>2 DEF KeepsPlan
  <2> QED  BY <1>7, <1>9, <2>1, <2>2, <2>3 DEF TreeFits
<1>14. HasChunk(t.unit)'
  BY <1>2 DEF HasChunk
<1>15. Replaces({t}, {t}, {t.unit})
  BY <1>2, <1>3, <1>12, <1>13, <1>14 DEF Replaces, Parting
<1>16. Spares({t}, {}, {}, {t.unit})
  BY <1>1, <1>3, Distinct DEF Spares
<1>17. TasksHeld' /\ FailedUndone' /\ TreesFit' /\ LaterPhaseHasChunk'
  BY <1>1, <1>11, <1>15, <1>16, OthersStay, TreesStay
<1>18. TasksApart' /\ KeysHeld'
  BY <1>1, <1>2, <1>10, TasksStay
<1>19. RowsApart'
  <2>1. count' = [injections |-> count.injections, renames |-> count.renames + 1, kills |-> count.kills]
    BY <1>1, <1>2 DEF RowsApart, Bump
  <2> QED  BY <1>1, <1>2, <2>1 DEF RowsApart
<1>20. NewIsFree'
  BY <1>1, <1>2, <1>9 DEF NewIsFree, Holds
<1>21. RefsFollow' /\ PlansKept'
  BY <1>1, <1>2 DEF RefsFollow, Follows, Old, PlansKept
<1>22. NameTypes'
  BY <1>1, <1>2, <1>9 DEF NameTypes, FolderTypes
<1> QED  BY <1>17, <1>18, <1>19, <1>20, <1>21, <1>22 DEF NameIInv

Stopped(o, h) == [o EXCEPT !.status = "READY", !.home = h]

LEMMA RowStopped ==
  ASSUME NEW o \in Rows, NEW h \in UnitNames \union {NoName}
  PROVE  /\ Stopped(o, h) \in Rows /\ Stopped(o, h).id = o.id /\ Stopped(o, h).status = "READY"
         /\ Stopped(o, h).planning = o.planning
         /\ Stopped(o, h).blockers = o.blockers /\ Stopped(o, h).verdicts = o.verdicts
<1> DEFINE r == RowWith(o, "READY", o.planning, o.blockers, o.verdicts, o.baseline, h)
<1>1. [o EXCEPT !.status = "READY", !.home = h] = [[o EXCEPT !.status = "READY"] EXCEPT !.home = h]
  BY Zenon
<1>2. [o EXCEPT !.status = "READY"] = RowWith(o, "READY", o.planning, o.blockers, o.verdicts, o.baseline, o.home)
  BY RowIs DEF RowWith
<1>3. [RowWith(o, "READY", o.planning, o.blockers, o.verdicts, o.baseline, o.home) EXCEPT !.home = h] = r
  BY DEF RowWith
<1>4. /\ o.planning \in BOOLEAN /\ o.blockers \in SUBSET UnitNames /\ o.verdicts \in SUBSET UnitNames
      /\ o.baseline \in SUBSET UnitNames /\ "READY" \in Statuses
  BY RowIs DEF Statuses
<1>5. r \in Rows /\ r.id = o.id /\ r.status = "READY" /\ r.planning = o.planning /\ r.blockers = o.blockers /\ r.verdicts = o.verdicts
  BY <1>4, WrittenFits
<1> HIDE DEF r
<1>6. Stopped(o, h) = r
  BY <1>1, <1>2, <1>3 DEF Stopped
<1> QED  BY <1>5, <1>6

LEMMA KillAndRestartKeeps == ASSUME NameIInv, KillAndRestart PROVE NameIInv'
<1> DEFINE home(n) == IF WorktreeExists(n) THEN rows[n].home ELSE NoName
           torn == {t.id : t \in {u \in tasks : u.at \in Propagating \ {"branch"}}}
           cut == {t.id : t \in {u \in tasks : u.at \in {"agent", "branch", "advance"} /\ Renamed(u)}}
<1>1. /\ NameTypes /\ RowsApart /\ TasksApart /\ TasksHeld /\ FailedUndone /\ NewIsFree /\ KeysHeld
      /\ TreesFit /\ RefsFollow /\ LaterPhaseHasChunk /\ PlansKept /\ RowTypes /\ FolderTypes /\ tasks \subseteq Runs /\ PastIs
  BY TypesAre DEF NameIInv, NameTypes, PastIs
<1>2. /\ Bump("kills", MaxKills) /\ tasks' = {} /\ keys' = <<>> /\ UNCHANGED <<pairs, goals, branches, folders>>
      /\ past' = [past EXCEPT !.torn = past.torn \union torn, !.cut = past.cut \union cut]
      /\ rows' = [n \in DOMAIN rows |-> IF rows[n].status # "RUNNING" THEN rows[n]
                                        ELSE Stopped(rows[n], home(n))]
  BY DEF KillAndRestart, Stopped
<1> HIDE DEF torn, cut
<1>3. /\ past'.torn = past.torn \union torn /\ past'.cut = past.cut \union cut /\ past'.refused = past.refused
      /\ past'.unclear = past.unclear /\ past'.lost = past.lost /\ past'.overtaken = past.overtaken /\ PastIs' /\ PastGrows
  <2>1. past' = [[past EXCEPT !.torn = past.torn \union torn] EXCEPT !.cut = past.cut \union cut]
    BY <1>2, Zenon
  <2>2. [past EXCEPT !.torn = past.torn \union torn]
        = [unclear |-> past.unclear, torn |-> past.torn \union torn, cut |-> past.cut, lost |-> past.lost,
           robbed |-> past.robbed, overtaken |-> past.overtaken, refused |-> past.refused]
    BY <1>1 DEF PastIs
  <2>3. past' = [unclear |-> past.unclear, torn |-> past.torn \union torn, cut |-> past.cut \union cut, lost |-> past.lost,
           robbed |-> past.robbed, overtaken |-> past.overtaken, refused |-> past.refused]
    BY <2>1, <2>2
  <2> QED  BY <2>3 DEF PastIs, PastGrows
<1>4. ASSUME NEW n \in DOMAIN rows
      PROVE  /\ rows'[n] \in Rows /\ rows'[n].id = rows[n].id /\ rows'[n].planning = rows[n].planning
             /\ rows'[n].blockers = rows[n].blockers /\ rows'[n].verdicts = rows[n].verdicts
             /\ rows[n].status = "DONE" => rows'[n].status = "DONE"
  <2>1. rows[n] \in Rows /\ home(n) \in UnitNames \union {NoName}
    BY <1>1, RowIs DEF RowTypes
  <2> HIDE DEF home
  <2>2. CASE rows[n].status # "RUNNING"
    BY <1>2, <2>1, <2>2
  <2>3. CASE rows[n].status = "RUNNING"
    <3>1. rows'[n] = Stopped(rows[n], home(n))
      BY <1>2, <2>3
    <3>2. /\ rows'[n] \in Rows /\ rows'[n].id = rows[n].id /\ rows'[n].planning = rows[n].planning
          /\ rows'[n].blockers = rows[n].blockers /\ rows'[n].verdicts = rows[n].verdicts /\ rows'[n].status = "READY"
      BY <2>1, <3>1, RowStopped
    <3> QED  BY <2>3, <3>2
  <2> QED  BY <2>2, <2>3
<1>5. DOMAIN rows' = DOMAIN rows /\ rows' = [n \in DOMAIN rows' |-> rows'[n]]
  BY <1>2
<1>6. RowTypes' /\ IdsStay
  BY <1>1, <1>4, <1>5 DEF RowTypes, IdsStay
<1>7. TasksApart' /\ TasksHeld' /\ FailedUndone' /\ NewIsFree' /\ KeysHeld'
  BY <1>2 DEF TasksApart, TasksHeld, FailedUndone, NewIsFree, KeysHeld
<1>8. ASSUME NEW t \in tasks, t.at \notin Parting
      PROVE  /\ t.unit \in DOMAIN rows /\ rows[t.unit].id = t.id /\ t.id \in 1..count.injections
             /\ folders[TreeOf(t)].owner \in {t.id} \union past.torn
  BY <1>1, <1>8 DEF TasksHeld, Held, Owns, RowsApart
<1>9. /\ \A t \in tasks : t.at \in Propagating \ {"branch"} => t.id \in past'.torn
      /\ \A t \in tasks : t.at \in {"agent", "branch", "advance"} /\ Renamed(t) => t.id \in past'.cut
  BY <1>3 DEF torn, cut
<1>10. RowsApart'
  <2>1. count' = [injections |-> count.injections, renames |-> count.renames, kills |-> count.kills + 1]
    BY <1>1, <1>2 DEF RowsApart, Bump
  <2>2. 0 \notin torn
    BY <1>1, <1>8 DEF torn, Propagating, Parting, RowsApart
  <2> QED  BY <1>1, <1>3, <1>6, <2>1, <2>2 DEF RowsApart, IdsStay
<1>11. ASSUME NEW n \in DOMAIN folders, folders[n] # NoTree
       PROVE  (folders[n].current \subseteq folders[n].chunks /\ Owned(n) /\ OnBranch(n) /\ KeepsPlan(n))'
  <2>1. folders[n].current \subseteq folders[n].chunks /\ Owned(n) /\ OnBranch(n) /\ KeepsPlan(n)
    BY <1>1, <1>11 DEF TreesFit, TreeFits
  <2>2. Owned(n)'
    BY <1>2, <1>3, <1>6, <1>9, <2>1 DEF Owned, IdsStay, Propagating
  <2>3. OnBranch(n)'
    BY <1>2, <1>4, <1>5, <2>1 DEF OnBranch
  <2>4. ASSUME NEW t \in tasks, t.at \in {"agent", "branch", "folder", "advance"}, t.unit = n PROVE KeepsPlan(n)'
    <3>1. /\ n \in DOMAIN rows /\ folders[n].owner \in {t.id} \union past.torn
      BY <1>8, <2>4 DEF Parting, TreeOf
    <3>2. CASE t.at = "folder" \/ Renamed(t)
      BY <1>2, <1>3, <1>9, <2>4, <3>1, <3>2 DEF KeepsPlan, Ended, Propagating
    <3>3. CASE ~Renamed(t)
      BY <1>2, <1>4, <1>5, <2>4, <3>1, <3>3 DEF KeepsPlan, Renamed
    <3> QED  BY <3>2, <3>3
  <2>5. KeepsPlan(n)'
    BY <1>2, <1>3, <1>4, <1>5, <2>1, <2>4 DEF KeepsPlan, Ended
  <2> QED  BY <1>2, <2>1, <2>2, <2>3, <2>5
<1>12. TreesFit'
  BY <1>2, <1>11 DEF TreesFit, TreeFits
<1>13. LaterPhaseHasChunk'
  BY <1>1, <1>2, <1>3, <1>4, <1>5 DEF LaterPhaseHasChunk, WorktreeExists
<1>14. RefsFollow'
  <2>1. past'.torn = {} => \A u \in tasks : u.at \notin {"home", "blockers", "verdicts"}
    BY <1>9 DEF Propagating
  <2> QED  BY <1>1, <1>2, <1>3, <1>4, <1>6, <2>1, RefsStay
<1>15. PlansKept'
  BY <1>1, <1>3, NothingLost
<1>16. NameTypes'
  <2>1. tasks' = {} /\ UNCHANGED <<goals, branches, folders>>
    BY <1>2
  <2> QED  BY <1>1, <1>3, <1>6, <2>1 DEF NameTypes, RowTypes, PastIs
<1> QED  BY <1>7, <1>10, <1>12, <1>13, <1>14, <1>15, <1>16 DEF NameIInv

LEMMA RenamesBegin == ASSUME RenameBounds, RenameInit PROVE NameIInv
<1>1. /\ rows = <<>> /\ goals = Goals /\ branches = {} /\ folders = <<>> /\ tasks = {} /\ keys = <<>>
      /\ count = [injections |-> 0, renames |-> 0, kills |-> 0]
      /\ past = [unclear |-> {}, torn |-> {}, cut |-> {}, lost |-> {}, robbed |-> {}, overtaken |-> {}, refused |-> {}]
  BY DEF RenameInit
<1>2. DOMAIN rows = {} /\ DOMAIN folders = {} /\ rows = [n \in DOMAIN rows |-> rows[n]] /\ folders = [n \in DOMAIN folders |-> folders[n]]
  BY <1>1
<1>3. NameTypes
  BY <1>1, <1>2, RenameBounds DEF NameTypes, RenameBounds
<1>4. RowsApart
  BY <1>1, <1>2 DEF RowsApart
<1>5. TasksApart /\ TasksHeld /\ FailedUndone /\ NewIsFree /\ KeysHeld
  BY <1>1 DEF TasksApart, TasksHeld, FailedUndone, NewIsFree, KeysHeld
<1>6. TreesFit /\ RefsFollow /\ LaterPhaseHasChunk /\ PlansKept
  BY <1>1, <1>2 DEF TreesFit, RefsFollow, LaterPhaseHasChunk, PlansKept
<1> QED  BY <1>3, <1>4, <1>5, <1>6 DEF NameIInv

LEMMA NameIInvStays == ASSUME RenameBounds, NameIInv, [RenameNext]_renameVars PROVE NameIInv'
<1>1. ASSUME NEW n \in UnitNames, NEW waits \in SUBSET DOMAIN rows, Inject(n, waits) PROVE NameIInv'
  BY <1>1, InjectKeeps
<1>2. ASSUME NEW n \in UnitNames, NEW m \in UnitNames, Judge(n, m) PROVE NameIInv'
  BY <1>2, JudgeKeeps
<1>3. ASSUME NEW n \in UnitNames, DispatchPlan(n) \/ ActivationFails(n) \/ DispatchLater(n) \/ RetryUnit(n) PROVE NameIInv'
  BY <1>3, DispatchPlanKeeps, ActivationFailsKeeps, DispatchLaterKeeps, RetryUnitKeeps
<1>4. ASSUME NEW t \in tasks, NEW names \in SUBSET UnitNames, AgentRenames(t, names) PROVE NameIInv'
  BY <1>4, AgentRenamesKeeps
<1>5. ASSUME NEW t \in tasks, AgentStops(t) \/ Completes(t) \/ Advance(t) \/ Finish(t) \/ Exit(t) PROVE NameIInv'
  BY <1>5, AgentStopsKeeps, CompletesKeeps, AdvanceKeeps, FinishKeeps, ExitKeeps
<1>6. ASSUME NEW t \in tasks, Propagate(t) PROVE NameIInv'
  BY <1>6, RenameBranchKeeps, RenameChunkDirectoryKeeps, RenameRowKeeps, RenameHomeKeeps, UpdateBlockedByKeeps,
     UpdateVerdictsKeeps, UpdateAnalysesKeeps, RenameKeyKeeps DEF Propagate
<1>7. CASE KillAndRestart
  BY <1>7, KillAndRestartKeeps
<1>8. CASE UNCHANGED renameVars
  <2>1. UNCHANGED <<rows, pairs, goals, branches, folders, tasks, keys, count, past>>
    BY <1>8 DEF renameVars
  <2>2. /\ RowTypes' /\ IdsStay /\ (\A n \in DOMAIN rows : RowStays(n)) /\ RefsFollow'
    BY <2>1, TypesAre DEF NameIInv, RowTypes, IdsStay, RowStays, RefsFollow, Follows, Old
  <2> QED  BY <2>1, <2>2, RowsOnlyKeeps
<1>9. CASE RenameNext
  BY <1>1, <1>2, <1>3, <1>4, <1>5, <1>6, <1>7, <1>9 DEF RenameNext
<1> QED  BY <1>8, <1>9

LEMMA NameIInvImplies == ASSUME NameIInv PROVE RenameInv
<1>1. TasksHeld /\ FailedUndone /\ RefsFollow /\ LaterPhaseHasChunk /\ PlansKept
  BY DEF NameIInv
<1>2. NamesAgree
  <2> SUFFICES ASSUME NEW t \in tasks, t.at \in {"agent", "key", "advance"}
               PROVE  /\ t.unit \in DOMAIN rows /\ rows[t.unit].id = t.id
                      /\ rows[t.unit].status = "RUNNING" /\ rows[t.unit].home = t.unit /\ t.unit \in branches
                      /\ WorktreeExists(t.unit) /\ folders[t.unit].owner \in {t.id} \union past.torn
    BY DEF NamesAgree
  <2> QED  BY <1>1 DEF TasksHeld, Parting, Held, BranchOf, TreeOf, Owns
<1>3. FailedIsUndone
  BY <1>1 DEF FailedUndone, FailedIsUndone, Undone, Owns
<1>4. ReferencesFollow
  <2> SUFFICES ASSUME past.torn = {}, ~Busy, NEW n \in DOMAIN rows
               PROVE  /\ rows[n].blockers \subseteq DOMAIN rows
                      /\ rows[n].id \notin past.overtaken => rows[n].verdicts \subseteq DOMAIN rows
    BY DEF ReferencesFollow
  <2>1. Old({"home", "blockers"}) = {} /\ Old({"home", "blockers", "verdicts"}) = {}
    BY DEF Old, Busy, Propagating
  <2> QED  BY <1>1, <2>1 DEF RefsFollow, Follows
<1> QED  BY <1>1, <1>2, <1>3, <1>4 DEF RenameInv

\* A rename by an agent is propagated as a whole or not at all, as long as the daemon is not
\* killed in it, and whatever runs meanwhile: branch, worktree and row agree, references follow,
\* later phases find their chunk, and what was written is kept (_propagate_rename).
THEOREM RenamesCorrect == RenameSpec => []RenameInv
<1>1. RenameInit => NameIInv
  BY RenameBounds, RenamesBegin
<1>2. NameIInv /\ [RenameNext]_renameVars => NameIInv'
  BY RenameBounds, NameIInvStays
<1>3. NameIInv => RenameInv
  BY NameIInvImplies
<1> QED  BY <1>1, <1>2, <1>3, PTL DEF RenameSpec
=============================================================================
