----------------------------- MODULE Statistics -----------------------------
(***************************************************************************)
(* The expansion statistics: the stats middleware hands every expansion to *)
(* a writer thread of the worker, which stores it in an SQLite database    *)
(* with three statements, each of them a transaction of its own, while the *)
(* command `stats' of another process shows, prunes or clears it.          *)
(*                                                                         *)
(* The table of triggers is a function from names to ids, that of the      *)
(* expansions a set of rows.  SQLite is built with foreign keys on         *)
(* (feature bundled), gives a trigger the id after the largest in use, and *)
(* lets a statement fail when the database is busy for too long.  The      *)
(* timestamp of a row is whether it is older than what a query or a prune  *)
(* asks for.  Log messages, and the layout of what is shown, are left out. *)
(***************************************************************************)
EXTENDS Naturals, Sequences, SequencesExt, FiniteSetsExt

CONSTANTS
  Triggers,        \* the triggers that are expanded
  Questions,       \* what may be asked for: [recent, names, count]
  MaxRecords,      \* bound on the expansions
  MaxStatsCommands,\* bound on the commands
  MaxFailures      \* bound on the failures of statements

ASSUME StatisticsAssumption ==
  /\ Questions \subseteq [recent : BOOLEAN, names : SUBSET Triggers, count : Nat]
  /\ MaxRecords \in Nat /\ MaxStatsCommands \in Nat /\ MaxFailures \in Nat

VARIABLES
  database,        \* stats.db: "absent", "empty", "partial" (a table is missing), "ready"
  triggers,        \* the table of triggers, names to ids
  expansions,      \* the table of expansions: [trigger, old, record]
  recorder,        \* of the worker: "down", "opening", "tables", "expansions", "indexes",
                   \* "off", "on"
  writer,          \* its thread: "none", "starting", "waiting", "upserted", "selected", "ended"
  inbox,           \* the records sent to it: numbers, in order
  selected,        \* the id it has selected
  names,           \* history: the trigger of each record
  gone,            \* history: records that are not counted (any more)
  command,         \* the command that runs: [op, at, ...]
  commands, failures \* bounds

tableVars == <<database, triggers, expansions>>
writerVars == <<recorder, writer, inbox, selected>>
statisticsVars == <<database, triggers, expansions, recorder, writer, inbox, selected, names,
                    gone, command, commands, failures>>

NoId == 0
NoStats == [op |-> "none", at |-> "done"]
NoTable == <<>>
Records(rows) == {row.record : row \in rows}
Fails == failures < MaxFailures /\ failures' = failures + 1
Works == UNCHANGED failures

----------------------------------------------------------------------------
(* The worker.                                                              *)

StartRecorder(enabled) ==
  /\ recorder = "down"
  /\ recorder' = IF enabled THEN "opening" ELSE "off"
  /\ UNCHANGED <<tableVars, writer, inbox, selected, names, gone, command, commands, failures>>
\* Opening the database creates the file; an error leaves the worker without it.
OpenDatabase ==
  /\ recorder = "opening"
  /\ \/ /\ Works
        /\ database' = IF database = "absent" THEN "empty" ELSE database
        /\ recorder' = "tables"
     \/ Fails /\ recorder' = "off" /\ UNCHANGED database
  /\ UNCHANGED <<triggers, expansions, writer, inbox, selected, names, gone, command, commands>>
(* The schema is created statement by statement, what exists being kept; an *)
(* error leaves the worker without statistics and a part of the schema.     *)
CreateTable(from, made, to) ==
  /\ recorder = from
  /\ \/ /\ Works
        /\ database' = IF database = "ready" THEN "ready" ELSE made
        /\ recorder' = to
     \/ Fails /\ recorder' = "off" /\ UNCHANGED database
  /\ UNCHANGED <<triggers, expansions, writer, inbox, selected, names, gone, command, commands>>
CreateTriggers == CreateTable("tables", "partial", "expansions")
CreateExpansions == CreateTable("expansions", "ready", "indexes")
CreateIndexes ==
  /\ recorder = "indexes"
  /\ \/ Works /\ recorder' = "on" /\ writer' = "starting"
     \/ Fails /\ recorder' = "off" /\ UNCHANGED writer
  /\ UNCHANGED <<tableVars, inbox, selected, names, gone, command, commands>>
\* A record that nobody can receive is dropped.
RecordStats(t) ==
  /\ recorder = "on" /\ Len(names) < MaxRecords
  /\ names' = Append(names, t)
  /\ IF writer = "ended"
       THEN gone' = gone \cup {Len(names')} /\ UNCHANGED inbox
       ELSE inbox' = Append(inbox, Len(names')) /\ UNCHANGED gone
  /\ UNCHANGED <<tableVars, recorder, writer, selected, command, commands, failures>>
\* Nobody waits for the writer.
WorkerEnds ==
  /\ recorder # "down"
  /\ recorder' = "down" /\ writer' = "none" /\ inbox' = <<>> /\ selected' = NoId
  /\ gone' = gone \cup ToSet(inbox)
  /\ UNCHANGED <<tableVars, names, command, commands, failures>>

----------------------------------------------------------------------------
(* The writer thread.                                                       *)

Prepare ==
  /\ writer = "starting"
  /\ \/ Works /\ writer' = "waiting" /\ UNCHANGED <<inbox, gone>>
     \/ Fails /\ writer' = "ended" /\ inbox' = <<>> /\ gone' = gone \cup ToSet(inbox)
  /\ UNCHANGED <<tableVars, recorder, selected, names, command, commands>>
\* The record the writer is busy with is the head of the inbox.
Current == names[Head(inbox)]
NextRecord(counted) ==
  /\ writer' = "waiting" /\ inbox' = Tail(inbox) /\ selected' = NoId
  /\ gone' = IF counted THEN gone ELSE gone \cup {Head(inbox)}
NewId == IF triggers = NoTable THEN 1 ELSE Max(Range(triggers)) + 1
UpsertTrigger ==
  /\ writer = "waiting" /\ inbox # <<>>
  /\ \/ /\ Works
        /\ triggers' = [t \in DOMAIN triggers \cup {Current} |->
                          IF t \in DOMAIN triggers THEN triggers[t] ELSE NewId]
        /\ writer' = "upserted" /\ UNCHANGED <<inbox, selected, gone>>
     \/ Fails /\ NextRecord(FALSE) /\ UNCHANGED triggers
  /\ UNCHANGED <<database, expansions, recorder, names, command, commands>>
SelectTrigger ==
  /\ writer = "upserted"
  /\ IF Current \in DOMAIN triggers
       THEN \/ Works /\ selected' = triggers[Current] /\ writer' = "selected" /\ UNCHANGED <<inbox, gone>>
            \/ Fails /\ NextRecord(FALSE)
       ELSE Works /\ NextRecord(FALSE)
  /\ UNCHANGED <<tableVars, recorder, names, command, commands>>
NewRow == [trigger |-> selected, old |-> FALSE, record |-> Head(inbox)]
\* Mutant: no foreign key.
InsertUnchecked ==
  /\ writer = "selected" /\ Works
  /\ expansions' = expansions \cup {NewRow} /\ NextRecord(TRUE)
  /\ UNCHANGED <<database, triggers, recorder, names, command, commands>>
InsertExpansion ==
  /\ writer = "selected"
  /\ \/ /\ selected \in Range(triggers) /\ Works
        /\ expansions' = expansions \cup {NewRow} /\ NextRecord(TRUE)
     \/ /\ selected \notin Range(triggers) /\ Works
        /\ NextRecord(FALSE) /\ UNCHANGED expansions
     \/ Fails /\ NextRecord(FALSE) /\ UNCHANGED expansions
  /\ UNCHANGED <<database, triggers, recorder, names, command, commands>>
Writer == Prepare \/ UpsertTrigger \/ SelectTrigger \/ InsertExpansion

----------------------------------------------------------------------------
(* The command: one at a time, a statement at a time.                        *)

Runs(op, at) ==
  /\ command.at \in {"done", "failed"} /\ commands < MaxStatsCommands
  /\ commands' = commands + 1
  /\ command' = [op |-> op, at |-> IF database = "absent" THEN "done" ELSE at,
                 before |-> Records(expansions)]
  /\ UNCHANGED <<tableVars, writerVars, names, gone, failures>>
\* A statement fails without tables, and when the database is busy.
StatementFails ==
  /\ command.at \notin {"done", "failed"}
  /\ IF database = "ready" THEN Fails ELSE Works
  /\ command' = [command EXCEPT !.at = "failed"]
  /\ UNCHANGED <<tableVars, writerVars, names, gone, commands>>
At(op, at) ==
  /\ command.op = op /\ command.at = at /\ database = "ready" /\ Works
  /\ UNCHANGED <<database, writerVars, names, commands>>
Deletes(rows) ==
  /\ expansions' = expansions \ rows
  /\ gone' = gone \cup Records(rows)

Clear == Runs("clear", "expansions")
ClearExpansions ==
  /\ At("clear", "expansions") /\ Deletes(expansions)
  /\ command' = [command EXCEPT !.at = "triggers"]
  /\ UNCHANGED triggers
\* Refused when an expansion was stored since.
ClearTriggers ==
  /\ At("clear", "triggers")
  /\ IF \E row \in expansions : row.trigger \in Range(triggers)
       THEN command' = [command EXCEPT !.at = "failed"] /\ UNCHANGED triggers
       ELSE command' = [command EXCEPT !.at = "done"] /\ triggers' = NoTable
  /\ UNCHANGED <<expansions, gone>>

Prune == Runs("prune", "expansions")
PruneExpansions ==
  /\ At("prune", "expansions") /\ Deletes({row \in expansions : row.old})
  /\ command' = [command EXCEPT !.at = "done"]
  /\ UNCHANGED triggers

\* The expansions asked for, with the name of their trigger.
Wanted(q) ==
  {w \in expansions \X (q.names \cap DOMAIN triggers) :
     w[1].trigger = triggers[w[2]] /\ (q.recent => ~w[1].old)}
\* Mutant: the list forgets the period that was asked for.
CountsEver(q) ==
  LET ever == Wanted([q EXCEPT !.recent = FALSE])
  IN  [t \in {w[2] : w \in ever} |-> Cardinality({w \in ever : w[2] = t})]
Counts(q) ==
  [t \in {w[2] : w \in Wanted(q)} |-> Cardinality({w \in Wanted(q) : w[2] = t})]
\* The names at the top of a list, equal counts being in any order.
Tops(q) ==
  {T \in SUBSET DOMAIN Counts(q) :
     /\ Cardinality(T) = Min({q.count, Cardinality(DOMAIN Counts(q))})
     /\ \A t \in T, u \in DOMAIN Counts(q) \ T : Counts(q)[t] >= Counts(q)[u]}

Show == Runs("show", "total")
QueryTotal(q) ==
  /\ At("show", "total")
  /\ command' = [op |-> "show", at |-> "unique", question |-> q,
                 total |-> Cardinality(Wanted(q)), tables |-> <<triggers, expansions>>]
  /\ UNCHANGED <<triggers, expansions, gone>>
QueryUnique ==
  /\ At("show", "unique")
  /\ command' = [command EXCEPT !.at = "top"]
                 @@ [unique |-> Cardinality(DOMAIN Counts(command.question))]
  /\ UNCHANGED <<triggers, expansions, gone>>
QueryTop ==
  /\ At("show", "top")
  /\ \E T \in Tops(command.question) :
       command' = [command EXCEPT !.at = "done"]
                  @@ [top |-> Restrict(Counts(command.question), T)]
  /\ UNCHANGED <<triggers, expansions, gone>>

Command == Clear \/ Prune \/ Show
Statement ==
  \/ StatementFails \/ ClearExpansions \/ ClearTriggers \/ PruneExpansions
  \/ (\E q \in Questions : QueryTotal(q)) \/ QueryUnique \/ QueryTop

\* The expansions are older than what is asked for.
DaysPass ==
  /\ \E row \in expansions : ~row.old
  /\ expansions' = {[trigger |-> row.trigger, old |-> TRUE, record |-> row.record] : row \in expansions}
  /\ UNCHANGED <<database, triggers, writerVars, names, gone, command, commands, failures>>

StatisticsInit ==
  /\ database = "absent" /\ triggers = NoTable /\ expansions = {}
  /\ recorder = "down" /\ writer = "none" /\ inbox = <<>> /\ selected = NoId
  /\ names = <<>> /\ gone = {} /\ command = NoStats /\ commands = 0 /\ failures = 0
StatisticsNext ==
  \/ \E enabled \in BOOLEAN : StartRecorder(enabled)
  \/ OpenDatabase \/ CreateTriggers \/ CreateExpansions \/ CreateIndexes
  \/ (\E t \in Triggers : RecordStats(t)) \/ WorkerEnds
  \/ Writer \/ Command \/ Statement \/ DaysPass

StatisticsSpec == StatisticsInit /\ [][StatisticsNext]_statisticsVars
\* The writer is a thread of its own.
StatisticsFairness == WF_statisticsVars(Writer)

----------------------------------------------------------------------------
(* Properties.                                                              *)

Kept == Records(expansions)
Pending == ToSet(inbox)
TimesKept(t, rows) == Cardinality({r \in Records(rows) : names[r] = t})

(* What is counted is what was expanded, whatever a clear or prune of       *)
(* another process does between the statements of the writer: a row counts  *)
(* for the trigger it was recorded for, and once, and each record is        *)
(* counted, on its way, or known to be gone (the thread of init_stats_db_in *)
(* against clear_db_in).                                                    *)
Attributed ==
  /\ \A row \in expansions :
       \E t \in DOMAIN triggers : t = names[row.record] /\ triggers[t] = row.trigger
  /\ \A row, other \in expansions : row.record = other.record => row = other
  /\ Kept \cup Pending \cup gone = DOMAIN names
  /\ Kept \cap Pending = {} /\ Kept \cap gone = {} /\ Pending \cap gone = {}

(* What the commands tell is so: a clear that succeeds has removed what was *)
(* there when it began, and when nothing was written meanwhile a listing    *)
(* shows how often each trigger is kept, with a total to match.  Records do *)
(* not wait for ever: again and again each of them is counted or gone.      *)
Cleared == command.op = "clear" /\ command.at = "done" => command.before \cap Kept = {}
ShownAsKept ==
  LET shown == command.top
      q == command.question
      rows == command.tables[2]
  IN command.op = "show" /\ command.at = "done" /\ "top" \in DOMAIN command
       /\ command.tables = <<triggers, expansions>>
     => /\ \A t \in DOMAIN shown :
             shown[t] = TimesKept(t, {row \in rows : q.recent => ~row.old})
        /\ SumFunction(shown) =< command.total
        /\ Cardinality(DOMAIN shown) = command.unique => SumFunction(shown) = command.total

ListedAsCounted ==
  /\ [](Cleared /\ ShownAsKept)
  /\ []<>(Kept \cup gone = DOMAIN names)
=============================================================================
