---------------------------- MODULE SourcesProofs ----------------------------
(***************************************************************************)
(* What comes to the engine from outside, for any shortcuts, keys, clients *)
(* and bounds: hotkeys fire as they are written, Alt codes type what they  *)
(* stand for, the commands of other processes arrive once and in order,    *)
(* and each expansion is counted for its trigger.  And what the matchers   *)
(* make of it, for any matches: the tree they are built into, the letters  *)
(* that the regexes see, and that the rolling matcher with its tree, its   *)
(* partial matches and its popped states finds what Triggers says.         *)
(***************************************************************************)
EXTENDS HotKeys, AltCodes, Ipc, Statistics, MatchingProperties, FiniteSetTheorems, SequenceLemmas, TLAPS

-----------------------------------------------------------------------------
(* The statistics: what is counted is what was expanded.                    *)

\* The records wait in the order in which they were sent, which is that of
\* their numbers.
InboxOK ==
  /\ names \in Seq(Triggers)
  /\ inbox \in Seq(DOMAIN names)
  /\ \A i, j \in DOMAIN inbox : i < j => inbox[i] < inbox[j]
  /\ writer \in {"upserted", "selected"} => inbox # <<>>

\* The id the writer holds is that of its record, or of nobody: only the
\* writer gives out ids, and it gives out none while it holds one.
SelectedOK ==
  writer = "selected" =>
    \A t \in DOMAIN triggers :
      selected = triggers[t] => /\ Current \in DOMAIN triggers
                                /\ triggers[Current] = selected

StatisticsInv == InboxOK /\ SelectedOK /\ Attributed

-----------------------------------------------------------------------------
(* Sequences and rows                                                      *)

LEMMA ToSetAppend ==
  ASSUME NEW S, NEW s \in Seq(S), NEW x
  PROVE  ToSet(Append(s, x)) = ToSet(s) \cup {x}
  BY DEF ToSet

LEMMA ToSetTail ==
  ASSUME NEW S \in SUBSET Nat, NEW s \in Seq(S), s # <<>>,
         \A i, j \in DOMAIN s : i < j => s[i] < s[j]
  PROVE  /\ ToSet(Tail(s)) = ToSet(s) \ {Head(s)}
         /\ Head(s) \in ToSet(s)
         /\ Tail(s) \in Seq(S)
         /\ \A i, j \in DOMAIN Tail(s) : i < j => Tail(s)[i] < Tail(s)[j]
  <1>a. Len(s) \in Nat /\ DOMAIN s = 1..Len(s) /\ \A i \in 1..Len(s) : s[i] \in S
    OBVIOUS
  <1>b. Len(s) # 0
    OBVIOUS
  <1>c. Len(s) >= 1
    BY <1>a, <1>b
  <1>d. \A x \in S : x \in Nat
    OBVIOUS
  <1>1. /\ Len(s) \in Nat /\ Len(s) >= 1 /\ DOMAIN s = 1..Len(s)
        /\ \A i \in 1..Len(s) : s[i] \in Nat
    BY <1>a, <1>c, <1>d
  <1>2. /\ Tail(s) \in Seq(S) /\ DOMAIN Tail(s) = 1..(Len(s) - 1)
        /\ \A i \in 1..(Len(s) - 1) : Tail(s)[i] = s[i + 1]
        /\ Head(s) = s[1]
    OBVIOUS
  <1>3. \A i, j \in DOMAIN Tail(s) : i < j => Tail(s)[i] < Tail(s)[j]
    BY <1>1, <1>2
  <1>4. Head(s) \in ToSet(s)
    BY <1>1, <1>2 DEF ToSet
  <1>5. ASSUME NEW x
        PROVE  x \in ToSet(Tail(s)) <=> x \in ToSet(s) \ {Head(s)}
    <2>1. ASSUME x \in ToSet(Tail(s))
          PROVE  x \in ToSet(s) \ {Head(s)}
      <3>1. PICK i \in 1..(Len(s) - 1) : x = s[i + 1]
        BY <1>2, <2>1 DEF ToSet
      <3>2. i + 1 \in 1..Len(s) /\ s[1] < s[i + 1]
        BY <1>1
      <3>3. QED
        BY <1>1, <1>2, <3>1, <3>2 DEF ToSet
    <2>2. ASSUME x \in ToSet(s) \ {Head(s)}
          PROVE  x \in ToSet(Tail(s))
      <3>1. PICK i \in 1..Len(s) : x = s[i]
        BY <1>1, <2>2 DEF ToSet
      <3>2. i # 1
        BY <1>2, <2>2, <3>1
      <3>3. i - 1 \in 1..(Len(s) - 1) /\ Tail(s)[i - 1] = x
        BY <1>1, <1>2, <3>1, <3>2
      <3>4. QED
        BY <1>2, <3>3 DEF ToSet
    <2>3. QED
      BY <2>1, <2>2
  <1>6. QED
    BY <1>2, <1>3, <1>4, <1>5

LEMMA PendingRecords ==
  ASSUME StatisticsInv, inbox # <<>>
  PROVE  /\ Pending \subseteq DOMAIN names
         /\ Head(inbox) \in Pending
         /\ Head(inbox) \in DOMAIN names
         /\ inbox = <<>> \/ ToSet(Tail(inbox)) = Pending \ {Head(inbox)}
  <1>1. DOMAIN names \subseteq Nat /\ inbox \in Seq(DOMAIN names)
    BY DEF StatisticsInv, InboxOK
  <1>2. QED
    BY <1>1, ToSetTail DEF StatisticsInv, InboxOK, Attributed, Pending

-----------------------------------------------------------------------------
(* The writer goes on                                                      *)

\* A record that was not stored is gone; nothing else changes.
LEMMA RecordLost ==
  ASSUME StatisticsInv, inbox # <<>>, NextRecord(FALSE),
         UNCHANGED <<triggers, expansions, names>>
  PROVE  StatisticsInv'
  <1>1. DOMAIN names \subseteq Nat /\ inbox \in Seq(DOMAIN names)
    BY DEF StatisticsInv, InboxOK
  <1>2. /\ ToSet(Tail(inbox)) = Pending \ {Head(inbox)}
        /\ Head(inbox) \in Pending
        /\ InboxOK'
    BY <1>1, ToSetTail DEF StatisticsInv, InboxOK, NextRecord, Pending
  <1>3. SelectedOK'
    BY DEF NextRecord, SelectedOK
  <1>4. Pending' = Pending \ {Head(inbox)} /\ gone' = gone \cup {Head(inbox)} /\ Kept' = Kept
    BY <1>2 DEF NextRecord, Pending, Kept, Records
  <1>5. Attributed'
    BY <1>2, <1>4 DEF StatisticsInv, Attributed, Kept
  <1>6. QED
    BY <1>2, <1>3, <1>5 DEF StatisticsInv

\* A record that is stored under the id the writer holds counts for its trigger.
LEMMA RecordStored ==
  ASSUME StatisticsInv, inbox # <<>>, NextRecord(TRUE), writer = "selected",
         selected \in Range(triggers),
         expansions' = expansions \cup {NewRow},
         UNCHANGED <<triggers, names>>
  PROVE  StatisticsInv'
  <1>1. DOMAIN names \subseteq Nat /\ inbox \in Seq(DOMAIN names)
    BY DEF StatisticsInv, InboxOK
  <1>2. /\ ToSet(Tail(inbox)) = Pending \ {Head(inbox)}
        /\ Head(inbox) \in Pending
        /\ InboxOK'
    BY <1>1, ToSetTail DEF StatisticsInv, InboxOK, NextRecord, Pending
  <1>3. SelectedOK'
    BY DEF NextRecord, SelectedOK
  <1>a. NewRow.record = Head(inbox) /\ NewRow.trigger = selected
    BY DEF NewRow
  <1>4. /\ NewRow.record = Head(inbox) /\ NewRow.trigger = selected
        /\ Kept' = Kept \cup {Head(inbox)}
    BY <1>a DEF Kept, Records
  <1>5. Pending' = Pending \ {Head(inbox)} /\ gone' = gone
    BY <1>2 DEF NextRecord, Pending
  <1>6. Current \in DOMAIN triggers /\ triggers[Current] = selected
    BY DEF StatisticsInv, SelectedOK, Range
  <1>7. \A row \in expansions' :
          \E t \in DOMAIN triggers : t = names[row.record] /\ triggers[t] = row.trigger
    BY <1>4, <1>6 DEF StatisticsInv, Attributed, Current
  <1>8. \A row \in expansions : row.record # Head(inbox)
    BY <1>2 DEF StatisticsInv, Attributed, Kept, Records
  <1>9. \A row, other \in expansions' : row.record = other.record => row = other
    BY <1>4, <1>8 DEF StatisticsInv, Attributed
  <1>b. /\ Kept \cup Pending \cup gone = DOMAIN names
        /\ Kept \cap Pending = {} /\ Kept \cap gone = {} /\ Pending \cap gone = {}
    BY DEF StatisticsInv, Attributed
  <1>10. /\ Kept' \cup Pending' \cup gone' = DOMAIN names
         /\ Kept' \cap Pending' = {} /\ Kept' \cap gone' = {} /\ Pending' \cap gone' = {}
    <2>1. Head(inbox) \in Pending
      BY <1>2
    <2>2. /\ (Kept \cup {Head(inbox)}) \cup (Pending \ {Head(inbox)}) \cup gone = DOMAIN names
          /\ (Kept \cup {Head(inbox)}) \cap (Pending \ {Head(inbox)}) = {}
          /\ (Kept \cup {Head(inbox)}) \cap gone = {}
          /\ (Pending \ {Head(inbox)}) \cap gone = {}
      BY <1>b, <2>1
    <2>3. QED
      BY <1>4, <1>5, <2>2
  <1>11. Attributed'
    BY <1>7, <1>9, <1>10 DEF Attributed
  <1>12. QED
    BY <1>2, <1>3, <1>11 DEF StatisticsInv

\* A statement that only gives the trigger an id, or looks it up.
LEMMA Attributes ==
  ASSUME StatisticsInv, inbox # <<>>,
         \A t \in DOMAIN triggers : t \in DOMAIN triggers' /\ triggers'[t] = triggers[t],
         UNCHANGED <<expansions, names, inbox, gone>>, SelectedOK'
  PROVE  StatisticsInv'
  <1>1. InboxOK'
    BY DEF StatisticsInv, InboxOK
  <1>2. Kept' = Kept /\ Pending' = Pending
    BY DEF Kept, Records, Pending
  <1>3. Attributed'
    BY <1>2 DEF StatisticsInv, Attributed
  <1>4. QED
    BY <1>1, <1>3 DEF StatisticsInv

\* A record that is sent gets the next number, and waits or is lost.
LEMMA RecordKeeps ==
  ASSUME StatisticsInv, NEW t \in Triggers, RecordStats(t)
  PROVE  StatisticsInv'
  <1> DEFINE n == Len(names) + 1
  <1>1. /\ names' = Append(names, t) /\ Len(names') = n /\ names' \in Seq(Triggers)
        /\ Len(names) \in Nat /\ DOMAIN names = 1..Len(names) /\ DOMAIN names' = 1..n
        /\ \A i \in DOMAIN names : names'[i] = names[i]
    BY DEF RecordStats, StatisticsInv, InboxOK
  <1> HIDE DEF n
  <1>2. n \in Nat /\ DOMAIN names' = DOMAIN names \cup {n} /\ \A i \in DOMAIN names : i < n
    BY <1>1 DEF n
  <1>3. /\ inbox \in Seq(DOMAIN names) /\ Len(inbox) \in Nat /\ DOMAIN inbox = 1..Len(inbox)
        /\ \A i \in DOMAIN inbox : inbox[i] \in DOMAIN names
    BY DEF StatisticsInv, InboxOK
  <1>4. Kept' = Kept /\ UNCHANGED <<triggers, expansions, writer, selected>>
    BY DEF RecordStats, Kept, Records, tableVars
  <1>5. /\ InboxOK' /\ (writer = "selected" => inbox # <<>> /\ Head(inbox') = Head(inbox))
        /\ \/ Pending' = Pending /\ gone' = gone \cup {n}
           \/ Pending' = Pending \cup {n} /\ gone' = gone
    <2>1. CASE inbox' = inbox /\ gone' = gone \cup {n}
      <3>1. inbox' \in Seq(DOMAIN names')
        BY <1>2, <1>3, <2>1
      <3>2. InboxOK'
        BY <1>1, <1>4, <2>1, <3>1 DEF StatisticsInv, InboxOK
      <3>3. QED
        BY <2>1, <3>2 DEF Pending, StatisticsInv, InboxOK
    <2>2. CASE inbox' = Append(inbox, n) /\ gone' = gone
      <3>1. /\ inbox' \in Seq(DOMAIN names') /\ Len(inbox') = Len(inbox) + 1
            /\ DOMAIN inbox' = 1..(Len(inbox) + 1)
            /\ \A i \in DOMAIN inbox : inbox'[i] = inbox[i]
            /\ inbox'[Len(inbox) + 1] = n
        BY <1>2, <1>3, <2>2
      <3>2. \A i, j \in DOMAIN inbox' : i < j => inbox'[i] < inbox'[j]
        <4>1. SUFFICES ASSUME NEW i \in DOMAIN inbox', NEW j \in DOMAIN inbox', i < j
                       PROVE  inbox'[i] < inbox'[j]
          OBVIOUS
        <4>2. i \in DOMAIN inbox
          BY <1>3, <3>1, <4>1
        <4>3. CASE j \in DOMAIN inbox
          BY <3>1, <4>1, <4>2, <4>3 DEF StatisticsInv, InboxOK
        <4>4. CASE j = Len(inbox) + 1
          BY <1>2, <1>3, <3>1, <4>2, <4>4
        <4>5. QED
          BY <1>3, <3>1, <4>3, <4>4
      <3>3. InboxOK'
        BY <1>1, <1>3, <1>4, <3>1, <3>2 DEF InboxOK
      <3>4. Pending' = Pending \cup {n}
        BY <1>3, <2>2, ToSetAppend DEF Pending
      <3>5. inbox # <<>> => Head(inbox') = Head(inbox)
        BY <1>3, <2>2
      <3>6. QED
        BY <2>2, <3>3, <3>4, <3>5 DEF StatisticsInv, InboxOK
    <2>3. QED
      BY <1>1, <2>1, <2>2 DEF RecordStats
  <1>6. SelectedOK'
    <2>1. SUFFICES ASSUME writer = "selected"
                   PROVE  SelectedOK'
      BY <1>4 DEF SelectedOK
    <2>2. Head(inbox) \in DOMAIN names /\ Head(inbox') = Head(inbox)
      BY <1>3, <1>5, <2>1
    <2>3. Current' = Current
      BY <1>1, <2>2 DEF Current
    <2>4. QED
      BY <1>4, <2>3 DEF StatisticsInv, SelectedOK
  <1>7. /\ Kept \subseteq DOMAIN names /\ Pending \subseteq DOMAIN names
        /\ gone \subseteq DOMAIN names /\ n \notin DOMAIN names
    BY <1>2 DEF StatisticsInv, Attributed
  <1>8. \A row \in expansions : row.record \in DOMAIN names
    BY <1>7 DEF Kept, Records
  <1>9. /\ \A row \in expansions' :
             \E u \in DOMAIN triggers' : u = names'[row.record] /\ triggers'[u] = row.trigger
        /\ \A row, other \in expansions' : row.record = other.record => row = other
    BY <1>1, <1>4, <1>8 DEF StatisticsInv, Attributed
  <1>10. /\ Kept' \cup Pending' \cup gone' = DOMAIN names'
         /\ Kept' \cap Pending' = {} /\ Kept' \cap gone' = {} /\ Pending' \cap gone' = {}
    BY <1>2, <1>4, <1>5, <1>7 DEF StatisticsInv, Attributed
  <1>11. QED
    BY <1>5, <1>6, <1>9, <1>10 DEF StatisticsInv, Attributed

-----------------------------------------------------------------------------
(* Every step                                                              *)

\* The worker starts, sends records and ends.
LEMMA WorkerKeeps ==
  ASSUME StatisticsInv,
         (\E enabled \in BOOLEAN : StartRecorder(enabled)) \/ OpenDatabase
         \/ CreateTriggers \/ CreateExpansions \/ CreateIndexes \/ (\E t \in Triggers : RecordStats(t)) \/ WorkerEnds \/ Prepare
  PROVE  StatisticsInv'
  <1>1. ASSUME UNCHANGED <<triggers, expansions, inbox, names, gone>>,
               writer' \notin {"upserted", "selected"} \/ UNCHANGED <<writer, selected>>
        PROVE  StatisticsInv'
    <2>1. Kept' = Kept /\ Pending' = Pending
      BY <1>1 DEF Kept, Records, Pending
    <2>2. InboxOK' /\ SelectedOK'
      BY <1>1 DEF StatisticsInv, InboxOK, SelectedOK, Current
    <2>3. Attributed'
      BY <1>1, <2>1 DEF StatisticsInv, Attributed
    <2>4. QED
      BY <2>2, <2>3 DEF StatisticsInv
  <1>2. ASSUME UNCHANGED <<triggers, expansions, names>>, inbox' = <<>>,
               gone' = gone \cup Pending, writer' \notin {"upserted", "selected"}
        PROVE  StatisticsInv'
    <2>1. Kept' = Kept /\ Pending' = {}
      BY <1>2 DEF Kept, Records, Pending, ToSet
    <2>2. InboxOK' /\ SelectedOK'
      BY <1>2 DEF StatisticsInv, InboxOK, SelectedOK
    <2>3. Attributed'
      BY <1>2, <2>1 DEF StatisticsInv, Attributed
    <2>4. QED
      BY <2>2, <2>3 DEF StatisticsInv
  <1>3. ASSUME NEW t \in Triggers, RecordStats(t)
        PROVE  StatisticsInv'
    BY <1>3, RecordKeeps
  <1>4. QED
    BY <1>1, <1>2, <1>3
    DEF StartRecorder, OpenDatabase, CreateTriggers, CreateExpansions, CreateTable, CreateIndexes,
        WorkerEnds, Prepare, tableVars, Pending

\* The writer gives ids, looks them up and stores expansions.
LEMMA WriterKeeps ==
  ASSUME StatisticsInv, UpsertTrigger \/ SelectTrigger \/ InsertExpansion
  PROVE  StatisticsInv'
  <1>1. CASE UpsertTrigger
    <2>1. CASE NextRecord(FALSE) /\ UNCHANGED triggers
      BY <1>1, <2>1, RecordLost DEF UpsertTrigger
    <2>2. CASE /\ triggers' = [t \in DOMAIN triggers \cup {Current} |->
                                IF t \in DOMAIN triggers THEN triggers[t] ELSE NewId]
               /\ writer' = "upserted" /\ UNCHANGED <<inbox, selected, gone>>
      <3>1. \A t \in DOMAIN triggers : t \in DOMAIN triggers' /\ triggers'[t] = triggers[t]
        BY <2>2
      <3>2. QED
        BY <1>1, <2>2, <3>1, Attributes DEF UpsertTrigger, SelectedOK
    <2>3. QED
      BY <1>1, <2>1, <2>2 DEF UpsertTrigger
  <1>2. CASE SelectTrigger
    <2>1. inbox # <<>>
      BY <1>2 DEF SelectTrigger, StatisticsInv, InboxOK
    <2>2. CASE NextRecord(FALSE)
      BY <1>2, <2>1, <2>2, RecordLost DEF SelectTrigger, tableVars
    <2>3. CASE /\ Current \in DOMAIN triggers /\ selected' = triggers[Current]
               /\ writer' = "selected" /\ UNCHANGED <<inbox, gone>>
      <3>1. UNCHANGED <<triggers, expansions, names>>
        BY <1>2 DEF SelectTrigger, tableVars
      <3>2. SelectedOK'
        BY <2>3, <3>1 DEF SelectedOK, Current
      <3>3. QED
        BY <2>1, <2>3, <3>1, <3>2, Attributes
    <2>4. QED
      BY <1>2, <2>2, <2>3 DEF SelectTrigger
  <1>3. CASE InsertExpansion
    <2>1. inbox # <<>> /\ writer = "selected"
      BY <1>3 DEF InsertExpansion, StatisticsInv, InboxOK
    <2>2. QED
      BY <1>3, <2>1, RecordLost, RecordStored DEF InsertExpansion
  <1>4. QED
    BY <1>1, <1>2, <1>3

\* A statement of a command removes rows, or triggers that no row is for.
LEMMA CommandsKeep ==
  ASSUME StatisticsInv, Command \/ Statement \/ DaysPass
  PROVE  StatisticsInv'
  <1>1. ASSUME UNCHANGED <<triggers, expansions, writer, inbox, selected, names, gone>>
        PROVE  StatisticsInv'
    BY <1>1 DEF StatisticsInv, InboxOK, SelectedOK, Attributed, Current, Kept, Records, Pending
  <1>2. ASSUME NEW rows \in SUBSET expansions, Deletes(rows),
               UNCHANGED <<triggers, writer, inbox, selected, names>>
        PROVE  StatisticsInv'
    <2>1. Pending' = Pending /\ gone' = gone \cup Records(rows) /\ expansions' \subseteq expansions
      BY <1>2 DEF Deletes, Pending
    <2>2. Records(rows) \subseteq Kept /\ Kept' = Kept \ Records(rows)
      BY <1>2 DEF Deletes, Kept, Records, StatisticsInv, Attributed
    <2>3. InboxOK' /\ SelectedOK'
      BY <1>2 DEF StatisticsInv, InboxOK, SelectedOK, Current
    <2>4. Attributed'
      BY <1>2, <2>1, <2>2 DEF StatisticsInv, Attributed
    <2>5. QED
      BY <2>3, <2>4 DEF StatisticsInv
  <1>3. CASE ClearTriggers
    <2>1. UNCHANGED <<expansions, writer, inbox, selected, names, gone>>
      BY <1>3 DEF ClearTriggers, At, writerVars
    <2>2. CASE UNCHANGED triggers
      BY <1>1, <2>1, <2>2
    <2>3. CASE triggers' = NoTable /\ \A row \in expansions : row.trigger \notin Range(triggers)
      <3>1. expansions = {}
        BY <2>3 DEF StatisticsInv, Attributed, Range
      <3>2. DOMAIN triggers' = {}
        BY <2>3 DEF NoTable
      <3>3. InboxOK' /\ SelectedOK'
        BY <2>1, <3>2 DEF StatisticsInv, InboxOK, SelectedOK
      <3>4. Kept' = Kept /\ Pending' = Pending
        BY <2>1 DEF Kept, Records, Pending
      <3>5. Attributed'
        BY <2>1, <3>1, <3>4 DEF StatisticsInv, Attributed
      <3>6. QED
        BY <3>3, <3>5 DEF StatisticsInv
    <2>4. QED
      BY <1>3, <2>2, <2>3 DEF ClearTriggers
  <1>4. CASE ClearExpansions \/ PruneExpansions
    <2>1. UNCHANGED <<triggers, writer, inbox, selected, names>>
      BY <1>4 DEF ClearExpansions, PruneExpansions, At, writerVars
    <2>2. \E rows \in SUBSET expansions : Deletes(rows)
      BY <1>4 DEF ClearExpansions, PruneExpansions
    <2>3. QED
      BY <1>2, <2>1, <2>2
  <1>5. CASE DaysPass
    <2>1. UNCHANGED <<triggers, writer, inbox, selected, names, gone>>
      BY <1>5 DEF DaysPass, writerVars
    <2> DEFINE Older(row) == [trigger |-> row.trigger, old |-> TRUE, record |-> row.record]
    <2>2. expansions' = {Older(row) : row \in expansions}
      BY <1>5 DEF DaysPass
    <2>3. \A row : Older(row).trigger = row.trigger /\ Older(row).record = row.record
      OBVIOUS
    <2> HIDE DEF Older
    <2>4. Kept' = Kept /\ Pending' = Pending
      BY <2>1, <2>2, <2>3 DEF Kept, Records, Pending
    <2>5. InboxOK' /\ SelectedOK'
      BY <2>1 DEF StatisticsInv, InboxOK, SelectedOK, Current
    <2>6. \A row \in expansions' :
            \E t \in DOMAIN triggers' : t = names'[row.record] /\ triggers'[t] = row.trigger
      BY <2>1, <2>2, <2>3 DEF StatisticsInv, Attributed
    <2>7. \A row, other \in expansions' : row.record = other.record => row = other
      BY <2>2, <2>3 DEF StatisticsInv, Attributed
    <2>8. QED
      BY <2>1, <2>4, <2>5, <2>6, <2>7 DEF StatisticsInv, Attributed
  <1>6. CASE \/ Command \/ StatementFails \/ (\E q \in Questions : QueryTotal(q))
             \/ QueryUnique \/ QueryTop
    BY <1>1, <1>6
    DEF Command, Clear, Prune, Show, Runs, StatementFails, QueryTotal, QueryUnique, QueryTop,
        At, tableVars, writerVars
  <1>7. QED
    BY <1>3, <1>4, <1>5, <1>6 DEF Statement

-----------------------------------------------------------------------------
(* Each expansion that is counted is counted once, for the trigger it was   *)
(* expanded from, and every record waits, is counted or is known to be gone. *)
THEOREM ExpansionsAttributed == StatisticsSpec => []Attributed
  <1>1. StatisticsInit => StatisticsInv
    BY DEF StatisticsInit, StatisticsInv, InboxOK, SelectedOK, Attributed, Kept, Records,
           Pending, ToSet
  <1>2. StatisticsInv /\ [StatisticsNext]_statisticsVars => StatisticsInv'
    <2>1. CASE UNCHANGED statisticsVars
      BY <2>1 DEF statisticsVars, StatisticsInv, InboxOK, SelectedOK, Attributed, Current, Kept,
                  Records, Pending
    <2>2. CASE StatisticsNext /\ StatisticsInv
      BY <2>2, WorkerKeeps, WriterKeeps, CommandsKeep DEF StatisticsNext, Writer
    <2>3. QED
      BY <2>1, <2>2
  <1>3. StatisticsInv => Attributed
    BY DEF StatisticsInv
  <1>4. QED
    BY <1>1, <1>2, <1>3, PTL DEF StatisticsSpec

-----------------------------------------------------------------------------
(* Commands of other processes: one connection after the other.             *)

\* The clients whose connection the worker still has to serve.
Queued == ToSet(backlog) \cup (IF server = "reading" THEN {client} ELSE {})

IpcTypes ==
  /\ phase \in [Clients -> {"idle", "checked", "connected", "written", "done", "failed"}]
  /\ wire \in [Clients -> {"nothing", "line", "part"}]
  /\ connection \in [Clients -> {"none", "open", "closed"}]
  /\ before \in [Clients -> SUBSET Clients]
  /\ backlog \in Seq(Clients)
  /\ server \in {"absent", "accepting", "reading"}
  /\ server = "reading" => client \in Clients
  /\ pipe # "unix" \/ server = "absent" => backlog = <<>>
  /\ handled \in Seq([client : Clients, to : {"exits", "requests"}])

\* What is unread is that of a client that waits or is served, and a line is
\* written once.
LinesOK ==
  /\ \A c \in Clients : wire[c] # "nothing" \/ connection[c] # "none" => c \in Queued
  /\ \A c \in Clients : wire[c] = "line" => phase[c] \in {"written", "done"}
  /\ \A c \in Clients : phase[c] \in {"idle", "checked"} => c \notin Queued
  /\ \A i \in DOMAIN handled : /\ phase[handled[i].client] \in {"written", "done"}
                               /\ wire[handled[i].client] # "line"

\* Who waits is served in the order of the commands.
QueueOK ==
  /\ \A i, j \in DOMAIN backlog : i < j => /\ backlog[i] # backlog[j]
                                           /\ backlog[j] \notin before[backlog[i]]
  /\ server = "reading" =>
       \A i \in DOMAIN backlog : backlog[i] # client /\ backlog[i] \notin before[client]

\* A client starts after those before it are done, and nothing of them is
\* left when it has been handled.
BeforeOK ==
  /\ \A c \in Clients : phase[c] = "idle" => before[c] = {}
  /\ \A c \in Clients : c \notin before[c] /\ \A d \in before[c] : phase[d] = "done"
  /\ \A i \in DOMAIN handled : \A d \in before[handled[i].client] : wire[d] # "line"

IpcInv == IpcTypes /\ LinesOK /\ QueueOK /\ BeforeOK /\ HandledInOrder

LEMMA HandledClients ==
  handled \in Seq([client : Clients, to : {"exits", "requests"}])
    => \A i \in DOMAIN handled : handled[i].client \in Clients
<1>. SUFFICES ASSUME handled \in Seq([client : Clients, to : {"exits", "requests"}]),
                     NEW i \in DOMAIN handled
              PROVE  handled[i].client \in Clients
  OBVIOUS
<1>1. ASSUME NEW S, NEW s \in Seq(S), NEW j \in DOMAIN s PROVE s[j] \in S
  OBVIOUS
<1>2. handled[i] \in [client : Clients, to : {"exits", "requests"}]
  BY <1>1
<1>. QED BY <1>2

LEMMA IpcStart == IpcInit => IpcInv
<1>. SUFFICES ASSUME IpcInit PROVE IpcInv
  OBVIOUS
<1>1. IpcTypes
  BY DEF IpcInit, IpcTypes
<1>2. LinesOK /\ QueueOK /\ BeforeOK /\ HandledInOrder
  BY DEF IpcInit, LinesOK, QueueOK, BeforeOK, HandledInOrder, Queued, ToSet
<1>. QED BY <1>1, <1>2 DEF IpcInv

LEMMA HeadAndTail ==
  ASSUME NEW S, NEW s \in Seq(S), s # <<>>
  PROVE  /\ Tail(s) \in Seq(S) /\ Head(s) \in S /\ Head(s) = s[1]
         /\ Len(s) \in Nat \ {0} /\ DOMAIN s = 1 .. Len(s) /\ 1 \in DOMAIN s
         /\ DOMAIN Tail(s) = 1 .. (Len(s) - 1)
         /\ \A i \in DOMAIN Tail(s) : i + 1 \in DOMAIN s /\ Tail(s)[i] = s[i + 1]
         /\ ToSet(s) = ToSet(Tail(s)) \cup {Head(s)}
<1>1. /\ Tail(s) \in Seq(S) /\ Head(s) \in S /\ Head(s) = s[1]
      /\ Len(s) \in Nat \ {0} /\ DOMAIN s = 1 .. Len(s) /\ 1 \in DOMAIN s
      /\ DOMAIN Tail(s) = 1 .. (Len(s) - 1)
      /\ \A i \in DOMAIN Tail(s) : i + 1 \in DOMAIN s /\ Tail(s)[i] = s[i + 1]
  OBVIOUS
<1>2. \A i \in DOMAIN s : i = 1 \/ (i - 1 \in DOMAIN Tail(s) /\ i = (i - 1) + 1)
  BY <1>1
<1>3. ASSUME NEW x \in ToSet(s) PROVE x \in ToSet(Tail(s)) \cup {Head(s)}
  <2>1. PICK i \in DOMAIN s : s[i] = x
    BY DEF ToSet
  <2>2. CASE i = 1
    BY <1>1, <2>1, <2>2
  <2>3. CASE i # 1
    <3>1. i - 1 \in DOMAIN Tail(s) /\ Tail(s)[i - 1] = s[i]
      BY <1>1, <1>2, <2>3
    <3>. QED BY <2>1, <3>1 DEF ToSet
  <2>. QED BY <2>2, <2>3
<1>4. ASSUME NEW x \in ToSet(Tail(s)) \cup {Head(s)} PROVE x \in ToSet(s)
  <2>1. CASE x \in ToSet(Tail(s))
    <3>1. PICK i \in DOMAIN Tail(s) : Tail(s)[i] = x
      BY <2>1 DEF ToSet
    <3>. QED BY <1>1, <3>1 DEF ToSet
  <2>2. CASE x = Head(s)
    BY <1>1, <2>2 DEF ToSet
  <2>. QED BY <2>1, <2>2
<1>. QED BY <1>1, <1>3, <1>4

\* The worker and the phases of a client that is not connected.
LEMMA WorkerKeepsOrder ==
  IpcInv /\ (StartWorker \/ Bind \/ WorkerExits) => IpcInv'
<1>. SUFFICES ASSUME IpcInv, StartWorker \/ Bind \/ WorkerExits PROVE IpcInv'
  OBVIOUS
<1>1. CASE StartWorker
  BY <1>1 DEF IpcInv, IpcTypes, LinesOK, QueueOK, BeforeOK, HandledInOrder, Queued,
              StartWorker, serverVars, clientVars
<1>2. CASE Bind \/ WorkerExits
  <2>1. /\ server' # "reading" /\ backlog' = <<>> /\ server' \in {"absent", "accepting"}
        /\ UNCHANGED <<pipe, phase, before, handled>>
        /\ connection' \in [Clients -> {"none", "open", "closed"}]
        /\ \A c \in Clients : wire'[c] = "nothing" /\ connection'[c] = "none"
        /\ wire' \in [Clients -> {"nothing", "line", "part"}]
    <3>1. CASE Bind
      <4>1. /\ worker = "up" /\ server = "absent" /\ server' = "accepting" /\ backlog' = <<>>
            /\ UNCHANGED <<pipe, phase, before, handled, connection, wire>>
        BY <3>1 DEF Bind, clientVars
      <4>2. backlog = <<>>
        BY <4>1 DEF IpcInv, IpcTypes
      <4>3. Queued = {}
        BY <4>1, <4>2 DEF Queued, ToSet
      <4>4. \A c \in Clients : wire[c] = "nothing" /\ connection[c] = "none"
        BY <4>3 DEF IpcInv, LinesOK
      <4>. QED BY <4>1, <4>4 DEF IpcInv, IpcTypes
    <3>2. CASE WorkerExits
      BY <3>2 DEF WorkerExits, clientVars
    <3>. QED BY <1>2, <3>1, <3>2
  <2>2. IpcTypes'
    BY <2>1 DEF IpcInv, IpcTypes
  <2>3. Queued' = {}
    BY <2>1 DEF Queued, ToSet
  <2>4. \A i \in DOMAIN handled : handled[i].client \in Clients
    BY HandledClients DEF IpcInv, IpcTypes
  <2>5. LinesOK'
    BY <2>1, <2>3, <2>4 DEF IpcInv, LinesOK
  <2>6. QueueOK'
    BY <2>1 DEF QueueOK
  <2>7. BeforeOK' /\ HandledInOrder'
    BY <2>1, <2>4 DEF IpcInv, IpcTypes, BeforeOK, HandledInOrder
  <2>. QED BY <2>2, <2>5, <2>6, <2>7 DEF IpcInv
<1>. QED BY <1>1, <1>2


\* The steps of a client, apart from that by which it is connected.
LEMMA ClientKeepsOrder ==
  ASSUME IpcInv, NEW c \in Clients,
         CheckLock(c) \/ ConnectRefused(c) \/ SendAsync(c) \/ ClientExits(c) \/ ClientKilled(c)
  PROVE  IpcInv'
<1>1. /\ UNCHANGED <<pipe, event, server, client, backlog, handled>>
      /\ \A d \in Clients \ {c} : /\ phase'[d] = phase[d] /\ wire'[d] = wire[d]
                                   /\ before'[d] = before[d]
      /\ connection' \in [Clients -> {"none", "open", "closed"}]
  BY DEF IpcInv, IpcTypes, CheckLock, ConnectRefused, SendAsync, ClientExits, ClientKilled,
         Phase, Closed, serverVars
<1>2. /\ phase \in [Clients -> {"idle", "checked", "connected", "written", "done", "failed"}]
      /\ wire \in [Clients -> {"nothing", "line", "part"}]
      /\ connection \in [Clients -> {"none", "open", "closed"}]
      /\ before \in [Clients -> SUBSET Clients]
  BY DEF IpcInv, IpcTypes
<1>3. /\ \/ phase[c] = "idle" /\ phase'[c] \in {"checked", "failed"} /\ wire' = wire
            /\ before'[c] = {d \in Clients : phase[d] = "done"}
         \/ /\ phase[c] # "idle" /\ before' = before
            /\ phase'[c] \in {"written", "done", "failed"}
            /\ phase[c] \in {"written", "done"} => phase'[c] = "done"
            /\ phase[c] # "done"
      /\ phase' \in [Clients -> {"idle", "checked", "connected", "written", "done", "failed"}]
      /\ before' \in [Clients -> SUBSET Clients]
      /\ wire' \in [Clients -> {"nothing", "line", "part"}]
      /\ wire'[c] # wire[c] => connection[c] = "open" /\ phase[c] \in {"checked", "connected"}
      /\ wire'[c] = "line" /\ wire[c] # "line" => phase'[c] = "written"
      /\ connection'[c] # "none" => connection[c] # "none"
  <2>1. CASE CheckLock(c)
    BY <1>2, <2>1 DEF CheckLock, Phase
  <2>2. CASE ConnectRefused(c)
    BY <1>2, <2>2 DEF ConnectRefused, Phase
  <2>3. CASE SendAsync(c)
    BY <1>2, <2>3 DEF SendAsync, Phase
  <2>4. CASE ClientExits(c)
    BY <1>2, <2>4 DEF ClientExits, Phase, Closed
  <2>5. CASE ClientKilled(c)
    BY <1>2, <2>5 DEF ClientKilled, Phase, Closed
  <2>. QED BY <2>1, <2>2, <2>3, <2>4, <2>5
<1>4. \A i \in DOMAIN handled : handled[i].client \in Clients
  BY HandledClients DEF IpcInv, IpcTypes
<1>5. \A d \in Clients \ {c} : connection'[d] = connection[d]
  BY <1>2 DEF CheckLock, ConnectRefused, SendAsync, ClientExits, ClientKilled, Closed
<1>6. Queued' = Queued
  BY <1>1 DEF Queued
<1>7. phase[c] = "idle" => c \notin Queued /\ wire[c] = "nothing"
  BY DEF IpcInv, LinesOK
<1>8. phase[c] = "idle" => \A i \in DOMAIN handled : handled[i].client # c
  BY DEF IpcInv, LinesOK
<1>9. IpcTypes'
  BY <1>1, <1>3 DEF IpcInv, IpcTypes
<1>10. LinesOK'
  <2>1. ASSUME NEW d \in Clients, wire'[d] # "nothing" \/ connection'[d] # "none"
        PROVE  d \in Queued
    BY <1>1, <1>3, <1>5, <2>1 DEF IpcInv, LinesOK
  <2>2. ASSUME NEW d \in Clients, wire'[d] = "line" PROVE phase'[d] \in {"written", "done"}
    <3>1. CASE d = c
      BY <1>3, <2>2, <3>1 DEF IpcInv, LinesOK
    <3>2. CASE d # c
      BY <1>1, <2>2, <3>2 DEF IpcInv, LinesOK
    <3>. QED BY <3>1, <3>2
  <2>3. ASSUME NEW d \in Clients, phase'[d] \in {"idle", "checked"} PROVE d \notin Queued
    BY <1>1, <1>3, <1>7, <2>3 DEF IpcInv, LinesOK
  <2>4. ASSUME NEW i \in DOMAIN handled
        PROVE  /\ phase'[handled[i].client] \in {"written", "done"}
               /\ wire'[handled[i].client] # "line"
    <3>1. /\ phase[handled[i].client] \in {"written", "done"}
          /\ wire[handled[i].client] # "line"
      BY DEF IpcInv, LinesOK
    <3>. QED BY <1>1, <1>3, <1>4, <3>1
  <2>. QED BY <1>1, <1>6, <2>1, <2>2, <2>3, <2>4 DEF LinesOK
<1>11. QueueOK'
  <2>1. \A i \in DOMAIN backlog : backlog[i] \in Queued /\ backlog[i] \in Clients
    BY DEF Queued, ToSet, IpcInv, IpcTypes
  <2>2. server = "reading" => client \in Queued /\ client \in Clients
    BY DEF Queued, IpcInv, IpcTypes
  <2>3. \A d \in Queued \cap Clients : before'[d] = before[d]
    BY <1>1, <1>3, <1>7
  <2>. QED BY <1>1, <2>1, <2>2, <2>3 DEF IpcInv, QueueOK
<1>12. BeforeOK'
  <2>1. \A d \in Clients : phase'[d] = "idle" => before'[d] = {}
    BY <1>1, <1>3 DEF IpcInv, BeforeOK
  <2>2. ASSUME NEW d \in Clients
        PROVE  d \notin before'[d] /\ \A e \in before'[d] : phase'[e] = "done"
    <3>1. ASSUME NEW e \in Clients, phase[e] = "done" PROVE phase'[e] = "done" /\ e # c
      BY <1>1, <1>3, <3>1
    <3>2. CASE before'[d] = before[d]
      BY <1>2, <3>1, <3>2 DEF IpcInv, BeforeOK
    <3>3. CASE d = c /\ before'[c] = {e \in Clients : phase[e] = "done"}
      BY <3>1, <3>3
    <3>. QED BY <1>1, <1>3, <3>2, <3>3
  <2>3. ASSUME NEW i \in DOMAIN handled, NEW d \in before'[handled[i].client]
        PROVE  wire'[d] # "line"
    <3>1. d \in before[handled[i].client] /\ d \in Clients
      BY <1>1, <1>2, <1>3, <1>4, <1>8
    <3>2. wire[d] # "line" /\ phase[d] = "done"
      BY <1>4, <3>1 DEF IpcInv, BeforeOK
    <3>. QED BY <1>1, <1>3, <3>1, <3>2
  <2>. QED BY <1>1, <2>1, <2>2, <2>3 DEF BeforeOK
<1>13. HandledInOrder'
  <2>1. \A i \in DOMAIN handled : before'[handled[i].client] = before[handled[i].client]
    BY <1>1, <1>3, <1>4, <1>8
  <2>. QED BY <1>1, <2>1 DEF IpcInv, HandledInOrder
<1>. QED BY <1>9, <1>10, <1>11, <1>12, <1>13 DEF IpcInv

\* A connection waits behind those that are there.
LEMMA ConnectKeepsOrder ==
  ASSUME IpcInv, NEW c \in Clients, Connect(c)
  PROVE  IpcInv'
<1>1. /\ phase[c] = "checked" /\ phase' = [phase EXCEPT ![c] = "connected"]
      /\ connection' = [connection EXCEPT ![c] = "open"]
      /\ \/ /\ pipe = "unix" /\ backlog' = Append(backlog, c)
            /\ server \in {"accepting", "reading"} /\ UNCHANGED <<server, client>>
         \/ /\ server = "accepting" /\ backlog = <<>>
            /\ server' = "reading" /\ client' = c /\ UNCHANGED backlog
      /\ UNCHANGED <<pipe, wire, before, handled>>
  <2>1. pipe # "unix" => server = "accepting"
    BY DEF Connect
  <2>2. backlog = <<>> \/ pipe = "unix"
    BY DEF IpcInv, IpcTypes
  <2>. QED BY <2>1, <2>2 DEF Connect, Phase
<1>2. /\ phase \in [Clients -> {"idle", "checked", "connected", "written", "done", "failed"}]
      /\ connection \in [Clients -> {"none", "open", "closed"}]
      /\ backlog \in Seq(Clients)
      /\ c \notin Queued
      /\ \A d \in Clients : wire[d] # "nothing" \/ connection[d] # "none" => d \in Queued
  BY <1>1 DEF IpcInv, IpcTypes, LinesOK
<1>3. IpcTypes'
  <2>0. \A s \in Seq(Clients) : Append(s, c) \in Seq(Clients)
    OBVIOUS
  <2>1. /\ backlog' \in Seq(Clients) /\ server' \in {"absent", "accepting", "reading"}
        /\ server' # "absent"
        /\ pipe # "unix" => backlog' = <<>>
        /\ server' = "reading" => client' \in Clients
    BY <1>1, <1>2, <2>0 DEF IpcInv, IpcTypes
  <2>2. /\ phase' \in [Clients -> {"idle", "checked", "connected", "written", "done", "failed"}]
        /\ connection' \in [Clients -> {"none", "open", "closed"}]
    BY <1>1, <1>2
  <2>. QED BY <1>1, <2>1, <2>2 DEF IpcInv, IpcTypes
<1>4. Queued' = Queued \cup {c}
  <2>1. CASE backlog' = Append(backlog, c) /\ UNCHANGED <<server, client>>
    BY <1>2, <2>1, ToSetAppend DEF Queued
  <2>2. CASE server = "accepting" /\ backlog = <<>> /\ server' = "reading" /\ client' = c
             /\ UNCHANGED backlog
    BY <2>2 DEF Queued, ToSet
  <2>. QED BY <1>1, <2>1, <2>2
<1>5. \A i \in DOMAIN handled : handled[i].client \in Clients
  BY HandledClients DEF IpcInv, IpcTypes
<1>6. LinesOK'
  <2>1. \A d \in Clients : wire[d] # "nothing" \/ connection'[d] # "none" => d \in Queued'
    BY <1>1, <1>2, <1>4
  <2>2. \A d \in Clients : wire[d] = "line" => phase'[d] \in {"written", "done"}
    BY <1>1, <1>2 DEF IpcInv, LinesOK
  <2>3. \A d \in Clients : phase'[d] \in {"idle", "checked"} => d \notin Queued'
    BY <1>1, <1>2, <1>4 DEF IpcInv, LinesOK
  <2>4. \A i \in DOMAIN handled : /\ phase'[handled[i].client] \in {"written", "done"}
                                  /\ wire[handled[i].client] # "line"
    BY <1>1, <1>2, <1>5 DEF IpcInv, LinesOK
  <2>. QED BY <1>1, <2>1, <2>2, <2>3, <2>4 DEF LinesOK
<1>7. \A d \in Clients : c \notin before[d]
  BY <1>1 DEF IpcInv, BeforeOK
<1>8. QueueOK'
  <2>1. CASE backlog' = Append(backlog, c) /\ UNCHANGED <<server, client>>
    <3>1. /\ Len(backlog) \in Nat /\ DOMAIN backlog = 1 .. Len(backlog)
          /\ DOMAIN backlog' = 1 .. Len(backlog) + 1 /\ backlog'[Len(backlog) + 1] = c
          /\ \A i \in DOMAIN backlog : backlog'[i] = backlog[i]
      BY <1>2, <2>1
    <3>2. /\ \A i \in DOMAIN backlog : backlog[i] # c /\ backlog[i] \in Clients
          /\ server = "reading" => client # c /\ client \in Clients
      BY <1>2 DEF IpcInv, IpcTypes, Queued, ToSet
    <3>3. ASSUME NEW i \in DOMAIN backlog', NEW j \in DOMAIN backlog', i < j
          PROVE  backlog'[i] # backlog'[j] /\ backlog'[j] \notin before[backlog'[i]]
      <4>1. i \in DOMAIN backlog /\ (j \in DOMAIN backlog \/ j = Len(backlog) + 1)
        BY <3>1, <3>3
      <4>. QED BY <1>7, <3>1, <3>2, <3>3, <4>1 DEF IpcInv, QueueOK
    <3>4. ASSUME server = "reading", NEW i \in DOMAIN backlog'
          PROVE  backlog'[i] # client /\ backlog'[i] \notin before[client]
      <4>1. i \in DOMAIN backlog \/ i = Len(backlog) + 1
        BY <3>1
      <4>. QED BY <1>7, <3>1, <3>2, <3>4, <4>1 DEF IpcInv, QueueOK
    <3>. QED BY <1>1, <2>1, <3>3, <3>4 DEF QueueOK
  <2>2. CASE backlog = <<>> /\ UNCHANGED backlog
    BY <2>2 DEF QueueOK
  <2>. QED BY <1>1, <2>1, <2>2
<1>9. BeforeOK'
  <2>1. \A d \in Clients : phase'[d] = "idle" => phase[d] = "idle"
    BY <1>1, <1>2
  <2>2. \A d \in Clients : phase[d] = "done" => phase'[d] = "done"
    BY <1>1, <1>2
  <2>3. \A d \in Clients : before[d] \subseteq Clients
    BY DEF IpcInv, IpcTypes
  <2>. QED BY <1>1, <2>1, <2>2, <2>3 DEF IpcInv, BeforeOK
<1>10. HandledInOrder'
  BY <1>1 DEF IpcInv, HandledInOrder
<1>. QED BY <1>3, <1>6, <1>8, <1>9, <1>10 DEF IpcInv

\* The first connection is served first.
LEMMA AcceptKeepsOrder == IpcInv /\ Accept => IpcInv'
<1>. SUFFICES ASSUME IpcInv, Accept PROVE IpcInv'
  OBVIOUS
<1>1. /\ server # "reading" /\ backlog # <<>> /\ backlog \in Seq(Clients)
      /\ server' = "reading" /\ client' = Head(backlog) /\ backlog' = Tail(backlog)
      /\ UNCHANGED <<pipe, phase, before, connection, wire, handled>>
  BY DEF Accept, clientVars, IpcInv, IpcTypes
<1>2. /\ Tail(backlog) \in Seq(Clients) /\ Head(backlog) \in Clients
      /\ Head(backlog) = backlog[1]
      /\ Len(backlog) \in Nat \ {0} /\ DOMAIN backlog = 1 .. Len(backlog)
      /\ 1 \in DOMAIN backlog
      /\ DOMAIN Tail(backlog) = 1 .. (Len(backlog) - 1)
      /\ \A i \in DOMAIN Tail(backlog) : i + 1 \in DOMAIN backlog
                                        /\ Tail(backlog)[i] = backlog[i + 1]
      /\ ToSet(backlog) = ToSet(Tail(backlog)) \cup {Head(backlog)}
  BY <1>1, HeadAndTail
<1>3. Queued' = Queued
  BY <1>1, <1>2 DEF Queued
<1>4. IpcTypes'
  BY <1>1, <1>2 DEF IpcInv, IpcTypes, Accept
<1>5. LinesOK' /\ BeforeOK' /\ HandledInOrder'
  BY <1>1, <1>3 DEF IpcInv, LinesOK, BeforeOK, HandledInOrder
<1>6. QueueOK'
  <2>1. ASSUME NEW i \in DOMAIN backlog', NEW j \in DOMAIN backlog', i < j
        PROVE  backlog'[i] # backlog'[j] /\ backlog'[j] \notin before[backlog'[i]]
    <3>1. i + 1 < j + 1
      BY <1>1, <1>2, <2>1
    <3>. QED BY <1>1, <1>2, <3>1 DEF IpcInv, QueueOK
  <2>2. ASSUME NEW i \in DOMAIN backlog'
        PROVE  backlog'[i] # client' /\ backlog'[i] \notin before[client']
    <3>1. 1 < i + 1
      BY <1>1, <1>2
    <3>. QED BY <1>1, <1>2, <3>1 DEF IpcInv, QueueOK
  <2>. QED BY <1>1, <2>1, <2>2 DEF QueueOK
<1>. QED BY <1>4, <1>5, <1>6 DEF IpcInv

\* What is handled comes after all that was before it.
LEMMA ReadKeepsOrder == IpcInv /\ ReadLine => IpcInv'
<1>. SUFFICES ASSUME IpcInv, ReadLine PROVE IpcInv'
  OBVIOUS
<1>. DEFINE h == [client |-> client, to |-> IF event[client] = "exit" THEN "exits" ELSE "requests"]
<1>1. /\ server = "reading" /\ wire[client] = "line" /\ client \in Clients
      /\ wire' = [wire EXCEPT ![client] = "nothing"]
      /\ handled' = Append(handled, h)
      /\ UNCHANGED <<pipe, server, client, backlog, phase, before, connection>>
  BY DEF ReadLine, Handle, serverVars, clientVars, IpcInv, IpcTypes
<1>2. /\ wire \in [Clients -> {"nothing", "line", "part"}]
      /\ handled \in Seq([client : Clients, to : {"exits", "requests"}])
      /\ h \in [client : Clients, to : {"exits", "requests"}] /\ h.client = client
      /\ phase[client] \in {"written", "done"}
  BY <1>1 DEF IpcInv, IpcTypes, LinesOK
<1>. HIDE DEF h
<1>3. /\ handled' \in Seq([client : Clients, to : {"exits", "requests"}])
      /\ Len(handled) \in Nat /\ DOMAIN handled = 1 .. Len(handled)
      /\ DOMAIN handled' = 1 .. Len(handled) + 1
      /\ handled'[Len(handled) + 1] = h
      /\ \A i \in DOMAIN handled : handled'[i] = handled[i]
  <2>1. ASSUME NEW S, NEW s \in Seq(S), NEW x \in S
        PROVE  /\ Append(s, x) \in Seq(S) /\ Len(s) \in Nat /\ DOMAIN s = 1 .. Len(s)
               /\ DOMAIN Append(s, x) = 1 .. Len(s) + 1 /\ Append(s, x)[Len(s) + 1] = x
               /\ \A i \in DOMAIN s : Append(s, x)[i] = s[i]
    OBVIOUS
  <2>. HIDE DEF h
  <2>. QED BY <1>1, <1>2, <2>1
<1>4. \A i \in DOMAIN handled : /\ handled[i].client \in Clients
                                /\ handled[i].client # client
  <2>1. \A i \in DOMAIN handled : handled[i].client \in Clients
    BY <1>2, HandledClients
  <2>. QED BY <1>1, <2>1 DEF IpcInv, LinesOK
<1>5. IpcTypes'
  BY <1>1, <1>2, <1>3 DEF IpcInv, IpcTypes
<1>6. Queued' = Queued /\ client \in Queued
  BY <1>1 DEF Queued
<1>7. \A i \in DOMAIN handled' : i \in DOMAIN handled \/ i = Len(handled) + 1
  BY <1>3
<1>8. LinesOK'
  <2>1. \A d \in Clients : wire'[d] # "nothing" => wire'[d] = wire[d]
    BY <1>1, <1>2
  <2>2. \A i \in DOMAIN handled' : /\ phase[handled'[i].client] \in {"written", "done"}
                                   /\ wire'[handled'[i].client] # "line"
    <3>1. ASSUME NEW i \in DOMAIN handled
          PROVE  /\ phase[handled'[i].client] \in {"written", "done"}
                 /\ wire'[handled'[i].client] # "line"
      BY <1>1, <1>2, <1>3, <1>4 DEF IpcInv, LinesOK
    <3>2. /\ phase[handled'[Len(handled) + 1].client] \in {"written", "done"}
          /\ wire'[handled'[Len(handled) + 1].client] # "line"
      BY <1>1, <1>2, <1>3
    <3>. QED BY <1>7, <3>1, <3>2
  <2>. QED BY <1>1, <1>6, <2>1, <2>2 DEF IpcInv, LinesOK
<1>9. QueueOK'
  BY <1>1 DEF IpcInv, QueueOK
<1>10. BeforeOK'
  <2>1. ASSUME NEW i \in DOMAIN handled', NEW d \in before[handled'[i].client]
        PROVE  wire'[d] # "line"
    <3>0. handled'[i].client \in Clients /\ d \in Clients
      BY <1>1, <1>2, <1>3, <1>4, <1>7 DEF IpcInv, IpcTypes
    <3>1. CASE i \in DOMAIN handled
      BY <1>1, <1>2, <1>3, <3>0, <3>1 DEF IpcInv, BeforeOK
    <3>2. CASE i = Len(handled) + 1
      <4>1. d \in before[client] /\ d # client
        BY <1>1, <1>2, <1>3, <3>2 DEF IpcInv, BeforeOK
      <4>2. d \notin Queued
        BY <1>1, <4>1 DEF Queued, ToSet, IpcInv, QueueOK
      <4>. QED BY <1>1, <1>2, <3>0, <4>1, <4>2 DEF IpcInv, LinesOK
    <3>. QED BY <1>7, <3>1, <3>2
  <2>. QED BY <1>1, <2>1 DEF IpcInv, BeforeOK
<1>11. HandledInOrder'
  <2>1. ASSUME NEW i \in DOMAIN handled', NEW j \in DOMAIN handled', i < j
        PROVE  /\ handled'[i].client # handled'[j].client
               /\ handled'[j].client \notin before[handled'[i].client]
    <3>1. i \in DOMAIN handled
      BY <1>3, <2>1
    <3>2. CASE j \in DOMAIN handled
      BY <1>3, <2>1, <3>1, <3>2 DEF IpcInv, HandledInOrder
    <3>3. CASE j = Len(handled) + 1
      <4>1. handled'[j].client = client /\ handled'[i].client = handled[i].client
        BY <1>2, <1>3, <3>1, <3>3
      <4>2. client \notin before[handled[i].client]
        BY <1>1, <3>1 DEF IpcInv, BeforeOK
      <4>. QED BY <1>4, <3>1, <4>1, <4>2
    <3>. QED BY <1>7, <3>2, <3>3
  <2>. QED BY <1>1, <2>1 DEF HandledInOrder
<1>. QED BY <1>5, <1>8, <1>9, <1>10, <1>11 DEF IpcInv

\* A connection that is dropped leaves nothing.
LEMMA DropKeepsOrder == IpcInv /\ (Malformed \/ EndOfStream) => IpcInv'
<1>. SUFFICES ASSUME IpcInv, Malformed \/ EndOfStream PROVE IpcInv'
  OBVIOUS
<1>1. /\ server = "reading" /\ client \in Clients /\ server' = "accepting"
      /\ wire' \in {wire, [wire EXCEPT ![client] = "nothing"]} /\ wire'[client] = "nothing"
      /\ connection' = [connection EXCEPT ![client] = "none"]
      /\ UNCHANGED <<pipe, backlog, phase, before, handled>>
  BY DEF Malformed, EndOfStream, DropClient, clientVars, IpcInv, IpcTypes
<1>2. /\ wire \in [Clients -> {"nothing", "line", "part"}]
      /\ connection \in [Clients -> {"none", "open", "closed"}]
  BY DEF IpcInv, IpcTypes
<1>3. \A d \in Clients : /\ wire'[d] # "nothing" => d # client /\ wire'[d] = wire[d]
                         /\ connection'[d] # "none" => d # client /\ connection'[d] = connection[d]
  BY <1>1, <1>2
<1>4. IpcTypes'
  BY <1>1, <1>2 DEF IpcInv, IpcTypes
<1>5. Queued = ToSet(backlog) \cup {client} /\ Queued' = ToSet(backlog)
  BY <1>1 DEF Queued
<1>6. \A i \in DOMAIN handled : handled[i].client \in Clients
  BY HandledClients DEF IpcInv, IpcTypes
<1>7. LinesOK'
  BY <1>1, <1>3, <1>5, <1>6 DEF IpcInv, LinesOK
<1>8. QueueOK'
  BY <1>1 DEF IpcInv, QueueOK
<1>9. BeforeOK'
  <2>1. \A d \in Clients : before[d] \subseteq Clients
    BY DEF IpcInv, IpcTypes
  <2>. QED BY <1>1, <1>3, <1>6, <2>1 DEF IpcInv, BeforeOK
<1>10. HandledInOrder'
  BY <1>1 DEF IpcInv, HandledInOrder
<1>. QED BY <1>4, <1>7, <1>8, <1>9, <1>10 DEF IpcInv

\* Commands are handled once and in their order.
THEOREM CommandsInOrder == IpcSpec => []HandledInOrder
<1>1. IpcInv /\ [IpcNext]_ipcVars => IpcInv'
  <2>. SUFFICES ASSUME IpcInv, [IpcNext]_ipcVars PROVE IpcInv'
    OBVIOUS
  <2>1. CASE UNCHANGED ipcVars
    BY <2>1 DEF ipcVars, IpcInv, IpcTypes, LinesOK, QueueOK, BeforeOK, HandledInOrder, Queued
  <2>2. ASSUME NEW c \in Clients, Client(c) \/ ClientKilled(c) PROVE IpcInv'
    BY <2>2, ClientKeepsOrder, ConnectKeepsOrder DEF Client
  <2>. QED
    BY <2>1, <2>2, WorkerKeepsOrder, AcceptKeepsOrder, ReadKeepsOrder, DropKeepsOrder
    DEF IpcNext, Server
<1>2. IpcInv => HandledInOrder
  BY DEF IpcInv
<1>. QED BY IpcStart, <1>1, <1>2, PTL DEF IpcSpec

-----------------------------------------------------------------------------
(* Alt codes.                                                               *)

\* The buffer of the middleware is what was typed, if it has seen it all.
AltCodesInv ==
  /\ altDown \in Nat /\ missed \in Nat /\ steady \in BOOLEAN
  /\ code = NoBuffer \/ code = Open(code.digits)
  /\ steady => buffer = code

LEMMA OpenIs ==
  \A d : /\ Open(d).digits = d /\ Open(d) # NoBuffer
         /\ Open(d) = Open(Open(d).digits)
<1>. SUFFICES ASSUME NEW d PROVE Open(d).digits = d /\ Open(d).is = "open"
  <2>1. NoBuffer.is = "none"
    BY DEF NoBuffer
  <2>. QED BY <2>1
<1>. QED BY DEF Open

\* What Alt types.
THEOREM AltCodesHold == AltCodesSpec => AltCodesAsTyped
<1>. DEFINE AsTyped ==
       altDown' < altDown /\ steady /\ missed' = missed =>
         IF code = NoBuffer \/ code = Open(<<>>) THEN injected' = NoText
         ELSE PlainCode(code.digits, NumberOf(code.digits))
                => injected' = Promised(code.digits)
<1>1. AltCodesInit => AltCodesInv
  BY DEF AltCodesInit, AltCodesInv
<1>2. AltCodesInv /\ [AltCodesNext]_altCodeVars => AltCodesInv'
  <2>. SUFFICES ASSUME AltCodesInv, [AltCodesNext]_altCodeVars PROVE AltCodesInv'
    OBVIOUS
  <2>1. CASE UNCHANGED altCodeVars
    BY <2>1 DEF altCodeVars, AltCodesInv
  <2>2. ASSUME NEW sees \in BOOLEAN, AltPressed(sees) PROVE AltCodesInv'
    BY <2>2, OpenIs DEF AltPressed, Seen, AltCodesInv
  <2>3. ASSUME NEW sees \in BOOLEAN, AltReleased(sees) PROVE AltCodesInv'
    BY <2>3 DEF AltReleased, Seen, AltCodesInv
  <2>4. ASSUME NEW sees \in BOOLEAN, NEW d \in PadDigits, DigitPressed(d, sees) PROVE AltCodesInv'
    BY <2>4, OpenIs DEF DigitPressed, Seen, AltCodesInv, Collected
  <2>. QED BY <2>1, <2>2, <2>3, <2>4 DEF AltCodesNext
<1>3. AltCodesInv /\ [AltCodesNext]_altCodeVars => [AsTyped]_altCodeVars
  <2>. SUFFICES ASSUME AltCodesInv, AltCodesNext, altDown' < altDown, steady, missed' = missed
                PROVE  IF code = NoBuffer \/ code = Open(<<>>) THEN injected' = NoText
                       ELSE PlainCode(code.digits, NumberOf(code.digits))
                              => injected' = Promised(code.digits)
    OBVIOUS
  <2>1. PICK sees \in BOOLEAN : AltReleased(sees)
    <3>1. altDown \in Nat
      BY DEF AltCodesInv
    <3>2. \A sees : ~AltPressed(sees)
      BY <3>1 DEF AltPressed
    <3>3. \A sees, d : ~DigitPressed(d, sees)
      BY <3>1 DEF DigitPressed
    <3>. QED BY <3>2, <3>3 DEF AltCodesNext
  <2>2. sees /\ buffer = code
    BY <2>1 DEF AltReleased, Seen, AltCodesInv
  <2>3. injected' = IF code # NoBuffer THEN ConvertBuffer(code.digits) ELSE NoText
    BY <2>1, <2>2 DEF AltReleased
  <2>4. ASSUME code # NoBuffer, code # Open(<<>>), PlainCode(code.digits, NumberOf(code.digits))
        PROVE  injected' = Promised(code.digits)
    <3>1. code.digits # <<>>
      BY <2>4 DEF AltCodesInv
    <3>. DEFINE n == NumberOf(code.digits)
    <3>2. injected' = ConvertBuffer(code.digits)
      BY <2>3, <2>4
    <3>. HIDE DEF n
    <3>3. n >= 256 \/ n \in 32..126 \/ (Head(code.digits) = 0 /\ n \in 160..255)
      BY <2>4 DEF n, PlainCode
    <3>4. n \in 32..126 \/ n \in 160..255 => ~(n >= 256) /\ IsChar(n) /\ n \notin 128..159
      BY DEF IsChar
    <3>5. n \notin 128..159 => n \notin Cp1252Missing /\ Cp1252(n) = n
      BY DEF Cp1252, Cp1252Missing
    <3>6. n \in 32..126 => Cp437(n) = n
      BY DEF Cp437
    <3>7. ConvertBuffer(code.digits) =
            IF n >= 256 THEN IF IsChar(n) THEN Text(n) ELSE NoText
            ELSE IF Head(code.digits) = 0 THEN IF n \in Cp1252Missing THEN NoText ELSE Text(Cp1252(n))
            ELSE Text(Cp437(n))
      BY <3>1 DEF ConvertBuffer, n
    <3>8. Promised(code.digits) = IF IsChar(n) THEN Text(n) ELSE NoText
      BY DEF Promised, n
    <3>. QED BY <3>2, <3>3, <3>4, <3>5, <3>6, <3>7, <3>8
  <2>5. code = NoBuffer \/ code = Open(<<>>) => injected' = NoText
    BY <2>3, OpenIs DEF ConvertBuffer
  <2>. QED BY <2>4, <2>5
<1>. QED BY <1>1, <1>2, <1>3, PTL DEF AltCodesSpec, AltCodesAsTyped

-----------------------------------------------------------------------------
(* Hotkeys: the codes of keys.                                              *)

Numberings == {"mac", "win32", "linux"}

\* A code is none or a number.
LEMMA CodeForm ==
  ASSUME NEW n \in Numberings, NEW k
  PROVE  /\ \/ InjectorCode(n, k) = NoCode
            \/ InjectorCode(n, k) = Code(InjectorCode(n, k).code)
         /\ \/ ShortcutCode(n, k) = NoCode
            \/ ShortcutCode(n, k) = Code(ShortcutCode(n, k).code)
<1>0. \A c : Code(c) = Code(Code(c).code)
  BY DEF Code
<1>1. MacVkey(k) = NoCode \/ \E c : MacVkey(k) = Code(c)
  BY DEF MacVkey
<1>2. WinVkey(k) = NoCode \/ \E c : WinVkey(k) = Code(c)
  BY DEF WinVkey
<1>3. LinuxSym(k) = NoCode \/ \E c : LinuxSym(k) = Code(c)
  BY DEF LinuxSym
<1>4. MacShortcutCode(k) = NoCode \/ \E c : MacShortcutCode(k) = Code(c)
  BY DEF MacShortcutCode
<1>5. WinShortcutCode(k) = NoCode \/ \E c : WinShortcutCode(k) = Code(c)
  BY DEF WinShortcutCode
<1>6. LinuxShortcutCode(k) = NoCode \/ \E c : LinuxShortcutCode(k) = Code(c)
  BY DEF LinuxShortcutCode
<1>7. InjectorCode(n, k) = NoCode \/ \E c : InjectorCode(n, k) = Code(c)
  BY <1>1, <1>2, <1>3 DEF InjectorCode, Numberings
<1>8. ShortcutCode(n, k) = NoCode \/ \E c : ShortcutCode(n, k) = Code(c)
  BY <1>4, <1>5, <1>6 DEF ShortcutCode, Numberings
<1>. QED BY <1>0, <1>7, <1>8

LEMMA CodesDiffer ==
  \A c, d : /\ Code(c) # NoCode /\ Code(c).is = "code" /\ Code(c).code = c
            /\ NoCode.is = "none" /\ (Code(c) = Code(d) => c = d)
  BY DEF Code, NoCode

\* The names and the sides of keys.
LEMMA KeySets ==
  /\ ShortcutKeys \subseteq InjectorKeys
  /\ Single(KeyModifiers) \subseteq ShortcutKeys
  /\ \A k \in ShortcutKeys : <<k, "left">> \in PhysicalKeys /\ k[1] # "Raw"
  /\ \A p \in PhysicalKeys : /\ p = <<p[1], p[2]>> /\ p[1][1] # "Raw" /\ p[1] # NoKey
                             /\ p[2] \in {"left", "right"}
<1>1. /\ Single(CommonNames) \subseteq Single(CommonNames \cup {"CapsLock", "NumLock", "Escape", "Backspace", "Delete"})
      /\ Single(KeyModifiers) \subseteq Single(CommonNames)
  BY DEF Single, CommonNames
<1>2. ShortcutKeys \subseteq InjectorKeys /\ Single(KeyModifiers) \subseteq ShortcutKeys
  BY <1>1 DEF ShortcutKeys, InjectorKeys
<1>3. \A k \in InjectorKeys : k[1] # "Raw" /\ k[1] # "None"
  BY DEF InjectorKeys, Single, Families, CommonNames, KeyModifiers
<1>4. \A p \in PhysicalKeys : p[1] \in InjectorKeys
  BY <1>2 DEF PhysicalKeys
<1>5. \A k \in ShortcutKeys : <<k, "left">> \in PhysicalKeys
  BY <1>2 DEF PhysicalKeys
<1>6. NoKey[1] = "None"
  BY DEF NoKey
<1>7. \A p \in PhysicalKeys : p = <<p[1], p[2]>> /\ p[2] \in {"left", "right"}
  BY DEF PhysicalKeys
<1>. QED BY <1>2, <1>3, <1>4, <1>5, <1>6, <1>7

\* A shortcut is registered with the code of the key at the left.
LEMMA ShortcutCodeIs ==
  ASSUME NEW n \in Numberings, NEW k \in ShortcutKeys
  PROVE  ShortcutCode(n, k) = SystemCode(n, <<k, "left">>)
<1>1. k \in InjectorKeys
  BY KeySets
<1>2. \E s \in {"mac", "win32", "x11", "evdev"} : Numbering(s) = n
  BY DEF Numberings, Numbering
<1>3. ShortcutCode(n, k) = InjectorCode(n, k)
  BY <1>1, <1>2, TablesAgree DEF TablesAgree
<1>4. SystemCode(n, <<k, "left">>) = InjectorCode(n, k)
  BY DEF SystemCode
<1>. QED BY <1>3, <1>4

LEMMA OneKeyPerCode ==
  ASSUME NEW n \in {"mac", "win32"}, NEW k \in ShortcutKeys, NEW p \in PhysicalKeys,
         SystemCode(n, p) # NoCode, ShortcutCode(n, k) = SystemCode(n, p)
  PROVE  p = <<k, "left">>
<1>1. SystemCode(n, <<k, "left">>) = SystemCode(n, p) /\ <<k, "left">> \in PhysicalKeys
  BY ShortcutCodeIs, KeySets DEF Numberings
<1>. QED BY <1>1, CodesDistinct DEF CodesDistinct

\* On Linux every key has a symbol.
LEMMA LinuxCoded == \A k : LinuxShortcutCode(k) = Code(LinuxShortcutCode(k).code)
<1>1. \A k : \E c : LinuxShortcutCode(k) = Code(c)
  BY DEF LinuxShortcutCode
<1>2. \A c : Code(c) = Code(Code(c).code)
  BY DEF Code
<1>. QED BY <1>1, <1>2

\* A symbol is found where the keymap has it.
LEMMA SymbolFound ==
  ASSUME OnLinux, NEW sym, KeycodesOf(sym) # {}
  PROVE  \E c \in KeycodesOf(sym) : KeycodeForSym(sym) = Code(c)
<1>1. /\ DOMAIN Keymap = 1 .. Len(Keymap) /\ Len(Keymap) \in Nat
      /\ \A c \in DOMAIN Keymap : Keymap[c].syms \in Seq(Nat)
  <2>. DEFINE Keys == {NoPress} \cup PhysicalKeys
              Rows == [key : Keys, syms : Seq(Nat)]
  <2>1. Keymap \in Seq(Rows)
    BY HotKeysAssumption DEF HotKeysAssumption
  <2>. HIDE DEF Rows
  <2>2. /\ DOMAIN Keymap = 1 .. Len(Keymap) /\ Len(Keymap) \in Nat
        /\ \A c \in DOMAIN Keymap : Keymap[c] \in Rows
    BY <2>1
  <2>. HIDE DEF Keys
  <2>3. \A row \in Rows : row.syms \in Seq(Nat)
    BY DEF Rows
  <2>. QED BY <2>2, <2>3
<1>2. KeycodesOf(sym) \in SUBSET (1 .. Len(Keymap))
  BY <1>1 DEF KeycodesOf
<1>3. CASE system = "evdev"
  <2>1. KeycodeForSym(sym) = Code(Max(KeycodesOf(sym)))
    BY <1>3 DEF KeycodeForSym
  <2>2. Max(KeycodesOf(sym)) \in KeycodesOf(sym)
    BY <1>1, <1>2, LastPosition
  <2>. QED BY <2>1, <2>2
<1>4. CASE system # "evdev"
  <2>. DEFINE levels == UNION {LevelsOf(c, sym) : c \in DOMAIN Keymap}
              there == {c \in DOMAIN Keymap : Min(levels) \in LevelsOf(c, sym)}
  <2>1. levels \in SUBSET Nat
    <3>1. \A c \in DOMAIN Keymap : LevelsOf(c, sym) \subseteq DOMAIN Keymap[c].syms
      BY DEF LevelsOf
    <3>2. \A c \in DOMAIN Keymap : DOMAIN Keymap[c].syms \subseteq Nat
      BY <1>1
    <3>. QED BY <3>1, <3>2
  <2>2. levels # {}
    <3>1. PICK c \in DOMAIN Keymap : LevelsOf(c, sym) # {}
      BY DEF KeycodesOf
    <3>. QED BY <3>1
  <2>3. KeycodeForSym(sym) = Code(Min(there))
    BY <1>4 DEF KeycodeForSym
  <2>. HIDE DEF levels
  <2>4. Min(levels) \in levels
    BY <2>1, <2>2, FirstPosition
  <2>5. there # {} /\ there \in SUBSET Nat
    BY <1>1, <2>4 DEF levels
  <2>6. there \subseteq KeycodesOf(sym)
    BY DEF KeycodesOf
  <2>. HIDE DEF there
  <2>7. Min(there) \in there
    BY <2>5, FirstPosition
  <2>. QED BY <2>3, <2>6, <2>7
<1>. QED BY <1>3, <1>4

-----------------------------------------------------------------------------
(* Hotkeys: what a shortcut is read as.                                     *)

\* The key that a token is read as.
KeyOf(t) == IF t[1] \in DOMAIN Aliases THEN <<Aliases[t[1]], 0>> ELSE t

LEMMA TokenRead ==
  ASSUME NEW t \in STRING \X Nat
  PROVE  /\ ParseKey(t) \in {{}, {KeyOf(t)}}
         /\ KeyOf(t) \in ShortcutKeys \/ KeyOf(t)[1] = "Raw" => ParseKey(t) = {KeyOf(t)}
<1>1. DOMAIN Aliases = {"Option", "Cmd"}
  BY DEF Aliases
<1>2. CASE t[1] \in DOMAIN Aliases
  <2>1. KeyOf(t) = <<Aliases[t[1]], 0>>
    BY <1>2 DEF KeyOf
  <2>2. ParseKey(t) = {<<Aliases[t[1]], 0>>}
    BY <1>1, <1>2 DEF ParseKey
  <2>. QED BY <2>1, <2>2
<1>3. CASE t[1] = "Raw"
  <2>1. KeyOf(t) = t
    BY <1>1, <1>3 DEF KeyOf
  <2>2. ParseKey(t) = {t}
    BY <1>1, <1>3 DEF ParseKey
  <2>. QED BY <2>1, <2>2
<1>4. CASE t[1] \notin DOMAIN Aliases /\ t[1] # "Raw"
  <2>1. KeyOf(t) = t
    BY <1>4 DEF KeyOf
  <2>2. ParseKey(t) = {t} \cap ShortcutKeys
    BY <1>4 DEF ParseKey
  <2>. QED BY <1>4, <2>1, <2>2
<1>. QED BY <1>2, <1>3, <1>4

\* What a well formed shortcut is read as.
LEMMA HotKeyRead ==
  ASSUME NEW tokens \in Shortcuts, WellFormed(tokens)
  PROVE  \E key \in MainKeys(tokens) :
            /\ MainKeys(tokens) = {key}
            /\ NewHotKey(tokens) =
                 {[key |-> key, modifiers |-> Written(tokens) \cap Single(KeyModifiers)]}
<1>. DEFINE keyAt == [i \in DOMAIN tokens |-> ParseKey(tokens[i])]
            keysFound == UNION {keyAt[i] : i \in DOMAIN tokens}
            mains == {i \in DOMAIN tokens : \E k \in keyAt[i] : ~IsModifier(k)}
            modifiers == {k \in keysFound : IsModifier(k)}
<1>1. /\ tokens \in Seq(STRING \X Nat)
      /\ \A i \in DOMAIN tokens : tokens[i] \in STRING \X Nat
  BY HotKeysAssumption DEF HotKeysAssumption
<1>2. Written(tokens) = {KeyOf(tokens[i]) : i \in DOMAIN tokens}
  BY DEF Written, KeyOf
<1>3. \A i \in DOMAIN tokens : keyAt[i] = {KeyOf(tokens[i])}
  <2>. SUFFICES ASSUME NEW i \in DOMAIN tokens PROVE ParseKey(tokens[i]) = {KeyOf(tokens[i])}
    OBVIOUS
  <2>1. KeyOf(tokens[i]) \in ShortcutKeys \/ KeyOf(tokens[i])[1] = "Raw"
    BY <1>2 DEF WellFormed
  <2>. QED BY <1>1, <2>1, TokenRead
<1>4. keysFound = Written(tokens)
  BY <1>2, <1>3
<1>5. modifiers = Written(tokens) \cap Single(KeyModifiers)
  BY <1>4 DEF IsModifier
<1>6. PICK key : MainKeys(tokens) = {key}
  <2>1. Cardinality(MainKeys(tokens)) = 1
    BY DEF WellFormed
  <2>2. IsFiniteSet(MainKeys(tokens))
    <3>. DEFINE f == [i \in DOMAIN tokens |-> KeyOf(tokens[i])]
    <3>0. DOMAIN tokens = 1 .. Len(tokens) /\ Len(tokens) \in Int /\ 1 \in Int
      BY <1>1
    <3>1. IsFiniteSet(DOMAIN tokens)
      BY <3>0, FS_Interval
    <3>2. IsFiniteSet(Written(tokens))
      <4>1. f \in Surjection(DOMAIN tokens, Written(tokens))
        BY <1>2 DEF Surjection
      <4>. QED BY <3>1, <4>1, FS_Surjection DEF ExistsSurjection
    <3>. QED BY <3>2, FS_Subset DEF MainKeys
  <2>. QED BY <2>1, <2>2, FS_Singleton
<1>7. mains = {i \in DOMAIN tokens : KeyOf(tokens[i]) = key}
  <2>1. \A i \in DOMAIN tokens : (\E k \in keyAt[i] : ~IsModifier(k)) <=> KeyOf(tokens[i]) = key
    <3>. SUFFICES ASSUME NEW i \in DOMAIN tokens
                  PROVE  ~IsModifier(KeyOf(tokens[i])) <=> KeyOf(tokens[i]) = key
      BY <1>3
    <3>1. KeyOf(tokens[i]) \in Written(tokens)
      BY <1>2
    <3>. QED BY <1>6, <3>1 DEF MainKeys, IsModifier
  <2>. QED BY <2>1
<1>8. mains # {}
  <2>1. key \in Written(tokens)
    BY <1>6 DEF MainKeys
  <2>. QED BY <1>2, <1>7, <2>1
<1>. DEFINE last == CHOOSE i \in mains : \A j \in mains : j <= i
<1>9. last \in mains
  <2>1. mains \in SUBSET (1 .. Len(tokens)) /\ Len(tokens) \in Nat
    BY <1>1
  <2>. HIDE DEF mains
  <2>2. \E i \in mains : \A j \in mains : j <= i
    BY <1>8, <2>1, LastPosition
  <2>. QED BY <2>2
<1>10. (CHOOSE k \in keyAt[last] : TRUE) = key
  <2>1. keyAt[last] = {key}
    BY <1>3, <1>7, <1>9
  <2>. QED BY <2>1
<1>11. ~ \E i \in DOMAIN tokens : keyAt[i] = {}
  BY <1>3
<1>12. modifiers # {}
  BY <1>5 DEF WellFormed
<1>13. NewHotKey(tokens) =
         IF (\E i \in DOMAIN tokens : keyAt[i] = {}) \/ modifiers = {} \/ mains = {} THEN {}
         ELSE {[key |-> CHOOSE k \in keyAt[last] : TRUE, modifiers |-> modifiers]}
  BY DEF NewHotKey
<1>. HIDE DEF keyAt, mains, modifiers, last
<1>14. NewHotKey(tokens) = {[key |-> key, modifiers |-> modifiers]}
  BY <1>8, <1>10, <1>11, <1>12, <1>13
<1>. QED BY <1>5, <1>6, <1>14

-----------------------------------------------------------------------------
(* Hotkeys: the inductive invariant and the registration.                   *)

\* What is fixed, and the keys that are down.
KeysOK ==
  /\ system \in Systems
  /\ \E n \in Nat : DOMAIN shortcuts = 1 .. n
  /\ \A i \in DOMAIN shortcuts : shortcuts[i] \in Shortcuts
  /\ toRegister \in Seq(DOMAIN shortcuts)
  /\ \A p \in held : p \in PhysicalKeys /\ PhysicalCode(p).is = "code"

\* What is registered is what the shortcuts say, and no shortcut that can be
\* registered is missing, except where another one has its combination.
RegisteredOK ==
  /\ \A r \in registered :
       /\ r.id \in DOMAIN shortcuts
       /\ \E hk \in NewHotKey(shortcuts[r.id]) : r \in RawHotKey(r.id, hk)
  /\ \A i \in DOMAIN shortcuts :
       \/ i \in ToSet(toRegister)
       \/ \A hk \in NewHotKey(shortcuts[i]) : \A r \in RawHotKey(i, hk) :
            \E s \in registered : SameCombination(r, s)

\* The memory holds keys that are down, and all of them unless one has lapsed.
MemoryOK ==
  /\ memory \in Seq({PhysicalCode(p).code : p \in held})
  /\ system = "evdev" /\ ~lapsed => \A p \in held : PhysicalCode(p).code \in ToSet(memory)

HotKeysInv == KeysOK /\ RegisteredOK /\ MemoryOK /\ FiredAsWritten

LEMMA HotKeysStart == HotKeysInit => HotKeysInv
<1>. SUFFICES ASSUME HotKeysInit PROVE HotKeysInv
  OBVIOUS
<1>1. PICK n \in 0 .. MaxShortcuts : shortcuts \in [1 .. n -> Shortcuts]
  BY DEF HotKeysInit
<1>2. n \in Nat
  BY HotKeysAssumption DEF HotKeysAssumption
<1>3. /\ toRegister \in Seq(DOMAIN shortcuts)
      /\ \A i \in DOMAIN shortcuts : i \in ToSet(toRegister)
  <2>1. toRegister = [i \in 1 .. n |-> i]
    BY <1>1 DEF HotKeysInit
  <2>. QED BY <1>1, <1>2, <2>1 DEF ToSet
<1>4. KeysOK
  BY <1>1, <1>2, <1>3 DEF HotKeysInit, KeysOK
<1>5. RegisteredOK
  BY <1>3 DEF HotKeysInit, RegisteredOK
<1>6. MemoryOK
  BY DEF HotKeysInit, MemoryOK
<1>7. FiredAsWritten
  BY DEF HotKeysInit, FiredAsWritten
<1>. QED BY <1>4, <1>5, <1>6, <1>7 DEF HotKeysInv

\* What depends on the system alone.
LEMMA KeysUnchanged ==
  system' = system =>
    /\ \A p : PhysicalCode(p)' = PhysicalCode(p)
    /\ \A p, k : (IsKey(p, k)' <=> IsKey(p, k)) /\ (IsOnlyKey(p, k)' <=> IsOnlyKey(p, k))
    /\ \A i, hk : RawHotKey(i, hk)' = RawHotKey(i, hk)
<1>. SUFFICES ASSUME system' = system
              PROVE  /\ \A p : PhysicalCode(p)' = PhysicalCode(p)
                     /\ \A p, k : /\ IsKey(p, k)' <=> IsKey(p, k)
                                  /\ IsOnlyKey(p, k)' <=> IsOnlyKey(p, k)
                     /\ \A i, hk : RawHotKey(i, hk)' = RawHotKey(i, hk)
  OBVIOUS
<1>1. OnLinux' <=> OnLinux
  BY DEF OnLinux
<1>2. \A c, sym : LevelsOf(c, sym)' = LevelsOf(c, sym)
  BY DEF LevelsOf
<1>3. \A sym : KeycodesOf(sym)' = KeycodesOf(sym)
  BY <1>2 DEF KeycodesOf
<1>4. \A sym : KeycodeForSym(sym)' = KeycodeForSym(sym)
  BY <1>2, <1>3 DEF KeycodeForSym
<1>5. \A p : PhysicalCode(p)' = PhysicalCode(p)
  BY <1>1 DEF PhysicalCode
<1>6. \A p, k : IsKey(p, k)' <=> IsKey(p, k)
  BY <1>1, <1>3, <1>5 DEF IsKey
<1>7. \A p, k : IsOnlyKey(p, k)' <=> IsOnlyKey(p, k)
  BY <1>1, <1>3, <1>5, <1>6 DEF IsOnlyKey
<1>8. \A k : HotKeyCode(k)' = HotKeyCode(k)
  BY <1>1, <1>4 DEF HotKeyCode
<1>9. \A i, hk : RawHotKey(i, hk)' = RawHotKey(i, hk)
  BY <1>8 DEF RawHotKey
<1>. QED BY <1>5, <1>6, <1>7, <1>9

\* FiredAsWritten is about these only.
LEMMA FiredUnchanged ==
  FiredAsWritten /\ UNCHANGED <<system, shortcuts, held, lapsed, pressed, fired>>
    => FiredAsWritten'
<1>. SUFFICES ASSUME FiredAsWritten, UNCHANGED <<system, shortcuts, held, lapsed, pressed, fired>>
              PROVE  FiredAsWritten'
  OBVIOUS
<1>1. \A p, k : (IsKey(p, k)' <=> IsKey(p, k)) /\ (IsOnlyKey(p, k)' <=> IsOnlyKey(p, k))
  BY KeysUnchanged
<1>2. \A k : KeyDown(k)' <=> KeyDown(k)
  BY <1>1 DEF KeyDown
<1>3. \A keys : Completed(keys)' <=> Completed(keys)
  BY <1>1 DEF Completed
<1>. QED BY <1>1, <1>2, <1>3 DEF FiredAsWritten

LEMMA Registering == HotKeysInv /\ RegisterHotKey => HotKeysInv'
<1>. SUFFICES ASSUME HotKeysInv, RegisterHotKey PROVE HotKeysInv'
  OBVIOUS
<1>. DEFINE id == Head(toRegister)
            raw == UNION {RawHotKey(id, hk) : hk \in NewHotKey(shortcuts[id])}
            one == CHOOSE r \in raw : TRUE
<1>1. /\ toRegister # <<>> /\ toRegister' = Tail(toRegister)
      /\ registered' = IF raw = {} THEN registered ELSE Registration(one)
      /\ UNCHANGED <<system, shortcuts, held, memory, lapsed, pressed, fired>>
  BY DEF RegisterHotKey
<1>2. /\ id \in DOMAIN shortcuts /\ Tail(toRegister) \in Seq(DOMAIN shortcuts)
      /\ ToSet(toRegister) = {id} \cup ToSet(Tail(toRegister))
  <2>1. toRegister \in Seq(DOMAIN shortcuts) /\ toRegister # <<>>
    BY <1>1 DEF HotKeysInv, KeysOK
  <2>2. /\ Len(toRegister) \in Nat /\ Len(toRegister) # 0
        /\ Len(Tail(toRegister)) = Len(toRegister) - 1
        /\ \A i \in 1 .. Len(Tail(toRegister)) : Tail(toRegister)[i] = toRegister[i + 1]
    BY <2>1
  <2>3. \A i \in 1 .. Len(toRegister) : i # 1 => /\ i - 1 \in 1 .. Len(Tail(toRegister))
                                                 /\ Tail(toRegister)[i - 1] = toRegister[i]
    BY <2>2
  <2>4. \A i \in 1 .. Len(Tail(toRegister)) : i + 1 \in 1 .. Len(toRegister)
    BY <2>2
  <2>5. id = toRegister[1] /\ 1 \in 1 .. Len(toRegister)
    BY <2>1, <2>2
  <2>6. ToSet(toRegister) = {id} \cup ToSet(Tail(toRegister))
    <3>1. DOMAIN toRegister = 1 .. Len(toRegister) /\ DOMAIN Tail(toRegister) = 1 .. Len(Tail(toRegister))
      BY <2>1
    <3>2. ASSUME NEW i \in DOMAIN toRegister
          PROVE  toRegister[i] \in {id} \cup ToSet(Tail(toRegister))
      BY <2>3, <2>5, <3>1 DEF ToSet
    <3>3. ASSUME NEW i \in DOMAIN Tail(toRegister)
          PROVE  Tail(toRegister)[i] \in ToSet(toRegister)
      BY <2>2, <2>4, <3>1 DEF ToSet
    <3>4. id \in ToSet(toRegister)
      BY <2>5, <3>1 DEF ToSet
    <3>. HIDE DEF id
    <3>5. ToSet(toRegister) \subseteq {id} \cup ToSet(Tail(toRegister))
      BY <3>2 DEF ToSet
    <3>6. ToSet(Tail(toRegister)) \subseteq ToSet(toRegister)
      BY <3>3 DEF ToSet
    <3>. QED BY <3>4, <3>5, <3>6
  <2>. QED BY <2>1, <2>5, <2>6
<1>3. ASSUME NEW i, NEW hk PROVE RawHotKey(i, hk)' = RawHotKey(i, hk)
  BY <1>1, KeysUnchanged
<1>4. ASSUME NEW r, NEW s, NEW t, SameCombination(r, s), SameCombination(s, t)
      PROVE  SameCombination(r, t)
  BY <1>4 DEF SameCombination
<1>5. /\ \A r \in registered' : r \in registered \/ (raw # {} /\ r = one)
      /\ \A r \in registered : \E s \in registered' : SameCombination(r, s)
      /\ raw # {} => \E s \in registered' : SameCombination(one, s)
  <2>1. CASE raw = {}
    <3>1. registered' = registered
      BY <1>1, <2>1
    <3>. QED BY <2>1, <3>1 DEF SameCombination
  <2>2. CASE raw # {}
    <3>. DEFINE same == {s \in registered : SameCombination(one, s)}
    <3>1. registered' = Registration(one)
      BY <1>1, <2>2
    <3>2. registered' \in {registered, registered \cup {one}, (registered \ same) \cup {one}}
      <4>1. system \in {"mac", "win32", "x11", "evdev"}
        BY HotKeysAssumption DEF HotKeysInv, KeysOK, HotKeysAssumption
      <4>. QED BY <3>1, <4>1 DEF Registration
    <3>3. registered' = registered => same # {}
      <4>1. system \in {"mac", "win32", "x11", "evdev"}
        BY HotKeysAssumption DEF HotKeysInv, KeysOK, HotKeysAssumption
      <4>2. SameCombination(one, one)
        BY DEF SameCombination
      <4>. QED BY <3>1, <4>1, <4>2 DEF Registration
    <3>4. \A r \in same : SameCombination(one, r) /\ SameCombination(r, one)
      BY DEF SameCombination
    <3>5. SameCombination(one, one) /\ \A r \in registered : SameCombination(r, r)
      BY DEF SameCombination
    <3>. HIDE DEF one
    <3>. QED BY <2>2, <3>2, <3>3, <3>4, <3>5
  <2>. QED BY <2>1, <2>2
<1>6. raw # {} => one \in raw
  OBVIOUS
<1>7. ASSUME NEW r \in raw
      PROVE  r.id = id /\ \E hk \in NewHotKey(shortcuts[id]) : r \in RawHotKey(id, hk)
  <2>1. PICK hk \in NewHotKey(shortcuts[id]) : r \in RawHotKey(id, hk)
    OBVIOUS
  <2>2. r.id = id
    BY <2>1 DEF RawHotKey
  <2>. QED BY <2>1, <2>2
<1>8. \A r \in raw : r = one
  <2>1. \E x : NewHotKey(shortcuts[id]) \subseteq {x}
    BY DEF NewHotKey
  <2>2. \A hk : \E x : RawHotKey(id, hk) \subseteq {x}
    BY DEF RawHotKey
  <2>3. \E x : raw \subseteq {x}
    BY <2>1, <2>2
  <2>. QED BY <1>6, <2>3
<1>. HIDE DEF raw, one, id
<1>9. KeysOK'
  BY <1>1, <1>2, KeysUnchanged DEF HotKeysInv, KeysOK
<1>10. ASSUME NEW r \in registered'
       PROVE  /\ r.id \in DOMAIN shortcuts'
              /\ \E hk \in NewHotKey(shortcuts'[r.id]) : r \in RawHotKey(r.id, hk)'
  <2>1. CASE r \in registered
    BY <1>1, <1>3, <2>1 DEF HotKeysInv, RegisteredOK
  <2>2. CASE raw # {} /\ r = one
    BY <1>1, <1>2, <1>3, <1>6, <1>7, <2>2
  <2>. QED BY <1>5, <2>1, <2>2
<1>11. ASSUME NEW i \in DOMAIN shortcuts', i \notin ToSet(toRegister'),
              NEW hk \in NewHotKey(shortcuts'[i]), NEW r \in RawHotKey(i, hk)'
       PROVE  \E s \in registered' : SameCombination(r, s)
  <2>1. i \in DOMAIN shortcuts /\ hk \in NewHotKey(shortcuts[i]) /\ r \in RawHotKey(i, hk)
    BY <1>1, <1>3, <1>11
  <2>2. CASE i = id
    <3>1. r \in raw
      BY <2>1, <2>2 DEF raw
    <3>. QED BY <1>5, <1>8, <3>1
  <2>3. CASE i # id
    <3>1. i \notin ToSet(toRegister)
      BY <1>1, <1>2, <1>11, <2>3
    <3>2. PICK s \in registered : SameCombination(r, s)
      BY <2>1, <3>1 DEF HotKeysInv, RegisteredOK
    <3>. QED BY <1>4, <1>5, <3>2
  <2>. QED BY <2>2, <2>3
<1>12. RegisteredOK'
  <2>1. \A r, s : SameCombination(r, s)' <=> SameCombination(r, s)
    BY DEF SameCombination
  <2>2. \A t : NewHotKey(t)' = NewHotKey(t)
    BY DEF NewHotKey
  <2>. QED BY <1>10, <1>11 DEF RegisteredOK
<1>13. MemoryOK'
  BY <1>1, KeysUnchanged DEF HotKeysInv, MemoryOK
<1>14. FiredAsWritten'
  BY <1>1, FiredUnchanged DEF HotKeysInv
<1>. QED BY <1>9, <1>12, <1>13, <1>14 DEF HotKeysInv

-----------------------------------------------------------------------------
(* Hotkeys: from the code that is registered to the key that is pressed.    *)

\* The codes of macOS fit.
LEMMA MacCodesFit ==
  ASSUME NEW k \in ShortcutKeys, MacShortcutCode(k) # NoCode
  PROVE  ~(MacShortcutCode(k).code > MaxMacCode)
<1>1. /\ \A i \in 1 .. 20 : ~(MacFunctionKeys[i] > MaxMacCode)
      /\ \A i \in 1 .. 26 : ~(MacLetters[i] > MaxMacCode)
      /\ \A i \in 1 .. 10 : ~(MacDigits[i] > MaxMacCode)
      /\ \A i \in 1 .. 10 : ~(MacNumpad[i] > MaxMacCode)
  BY DEF MacFunctionKeys, MacLetters, MacDigits, MacNumpad, MaxMacCode
<1>2. \A name \in CommonNames \ {"Insert"} : ~(MacShortcutNames[name] > MaxMacCode)
  BY DEF CommonNames, KeyModifiers, MacShortcutNames, MaxMacCode
<1>3. \A name \in CommonNames : name \notin {"F", "Letter", "Digit", "Numpad", "Raw"}
  BY DEF CommonNames, KeyModifiers
<1>4. CASE k \in Single(CommonNames)
  <2>1. k[1] \in CommonNames
    BY <1>4 DEF Single
  <2>2. k[1] # "Insert"
    BY <1>3, <2>1 DEF MacShortcutCode
  <2>3. MacShortcutCode(k) = Code(MacShortcutNames[k[1]])
    BY <1>3, <2>1, <2>2 DEF MacShortcutCode
  <2>. QED BY <1>2, <2>1, <2>2, <2>3 DEF Code
<1>5. CASE k \in Families
  <2>1. \/ k[1] = "F" /\ k[2] \in 1 .. 20
        \/ k[1] = "Letter" /\ k[2] \in 1 .. 26
        \/ k[1] = "Digit" /\ k[2] \in 0 .. 9
        \/ k[1] = "Numpad" /\ k[2] \in 0 .. 9
    BY <1>5 DEF Families
  <2>2. CASE k[1] = "F" /\ k[2] \in 1 .. 20
    BY <1>1, <2>2 DEF MacShortcutCode, Code
  <2>3. CASE k[1] = "Letter" /\ k[2] \in 1 .. 26
    BY <1>1, <2>3 DEF MacShortcutCode, Code
  <2>4. CASE k[1] \in {"Digit", "Numpad"} /\ k[2] \in 0 .. 9
    <3>1. k[2] + 1 \in 1 .. 10
      BY <2>4
    <3>. QED BY <1>1, <2>4, <3>1 DEF MacShortcutCode, Code
  <2>. QED BY <2>1, <2>2, <2>3, <2>4
<1>. QED BY <1>4, <1>5 DEF ShortcutKeys

\* The systems without a keymap number the keys themselves.
LEMMA SystemIs ==
  ASSUME system \in Systems
  PROVE  /\ system \in {"mac", "win32", "x11", "evdev"}
         /\ OnLinux <=> system \in {"x11", "evdev"}
         /\ OnLinux => Numbering(system) = "linux"
         /\ ~OnLinux => system \in {"mac", "win32"} /\ Numbering(system) = system
  BY HotKeysAssumption DEF HotKeysAssumption, OnLinux, Numbering

\* The code that the system gives a key of a shortcut.
LEMMA HotKeyCodeIs ==
  ASSUME system \in Systems, NEW k
  PROVE  /\ HotKeyCode(k) # NoCode => HotKeyCode(k) = Code(HotKeyCode(k).code)
         /\ OnLinux => HotKeyCode(k) = KeycodeForSym(LinuxShortcutCode(k).code)
         /\ ~OnLinux => HotKeyCode(k) \in {NoCode, ShortcutCode(system, k)}
         /\ ~OnLinux /\ k \in ShortcutKeys => HotKeyCode(k) = ShortcutCode(system, k)
<1>. DEFINE sym == LinuxShortcutCode(k).code
<1>1. CASE OnLinux
  <2>1. ShortcutCode(Numbering(system), k) = Code(sym) /\ system # "mac"
    BY <1>1, SystemIs, LinuxCoded DEF ShortcutCode
  <2>2. Code(sym).code = sym /\ Code(sym) # NoCode
    BY CodesDiffer
  <2>3. HotKeyCode(k) = KeycodeForSym(sym)
    BY <1>1, <2>1, <2>2 DEF HotKeyCode
  <2>. HIDE DEF sym
  <2>4. KeycodeForSym(sym) = NoCode \/ \E c : KeycodeForSym(sym) = Code(c)
    BY <1>1, SymbolFound DEF KeycodeForSym
  <2>. QED BY <1>1, <2>3, <2>4, CodesDiffer DEF sym
<1>2. CASE ~OnLinux
  <2>. DEFINE kcode == ShortcutCode(system, k)
  <2>1. Numbering(system) = system /\ system \in Numberings
    BY <1>2, SystemIs DEF Numberings
  <2>2. kcode = NoCode \/ kcode = Code(kcode.code)
    BY <2>1, CodeForm
  <2>3. HotKeyCode(k) = IF kcode = NoCode \/ (system = "mac" /\ kcode.code > MaxMacCode)
                        THEN NoCode ELSE kcode
    BY <1>2, <2>1 DEF HotKeyCode
  <2>4. ASSUME k \in ShortcutKeys PROVE HotKeyCode(k) = kcode
    <3>1. system = "mac" => kcode = MacShortcutCode(k)
      BY DEF ShortcutCode
    <3>. HIDE DEF kcode
    <3>2. kcode # NoCode /\ system = "mac" => ~(kcode.code > MaxMacCode)
      BY <2>4, <3>1, MacCodesFit
    <3>. QED BY <2>3, <3>2
  <2>. HIDE DEF kcode
  <2>. QED BY <1>2, <2>2, <2>3, <2>4 DEF kcode
<1>. QED BY <1>1, <1>2

EvdevCodes(modifiers) == {HotKeyCode(m).code : m \in modifiers}

\* What a hotkey is registered as.
LEMMA RawIs ==
  ASSUME system \in Systems, NEW i, NEW hk
  PROVE  /\ \A r \in RawHotKey(i, hk) :
              /\ r.id = i /\ HotKeyCode(hk.key) = Code(r.code)
              /\ r.modifiers = IF system = "evdev" THEN EvdevCodes(hk.modifiers)
                               ELSE hk.modifiers
              /\ system = "evdev" => \A m \in hk.modifiers : HotKeyCode(m) # NoCode
         /\ /\ HotKeyCode(hk.key) # NoCode
            /\ system = "evdev" => \A m \in hk.modifiers : HotKeyCode(m) # NoCode
            => RawHotKey(i, hk) # {}
<1>. DEFINE coded == system = "evdev" => \A m \in hk.modifiers : HotKeyCode(m) # NoCode
            kcode == HotKeyCode(hk.key)
            mods == IF system = "evdev" THEN EvdevCodes(hk.modifiers) ELSE hk.modifiers
<1>1. {c.code : c \in {HotKeyCode(m) : m \in hk.modifiers}} = EvdevCodes(hk.modifiers)
  BY DEF EvdevCodes
<1>2. RawHotKey(i, hk) =
        IF kcode = NoCode \/ ~coded THEN {}
        ELSE {[id |-> i, code |-> kcode.code, modifiers |-> mods]}
  BY <1>1, Zenon DEF RawHotKey, ModifierFlags
<1>3. kcode # NoCode => kcode = Code(kcode.code)
  BY HotKeyCodeIs
<1>. HIDE DEF coded, kcode, mods
<1>4. ASSUME NEW r \in RawHotKey(i, hk)
      PROVE  r.id = i /\ kcode = Code(r.code) /\ r.modifiers = mods /\ coded
  BY <1>2, <1>3
<1>5. kcode # NoCode /\ coded => RawHotKey(i, hk) # {}
  BY <1>2
<1>. QED BY <1>4, <1>5 DEF coded, kcode, mods

\* The physical keys of a system.
LEMMA PhysicalCodeIs ==
  ASSUME system \in Systems, NEW p \in PhysicalKeys, PhysicalCode(p).is = "code"
  PROVE  /\ PhysicalCode(p) # NoCode /\ PhysicalCode(p) = Code(PhysicalCode(p).code)
         /\ ~OnLinux => PhysicalCode(p) = SystemCode(system, p)
         /\ OnLinux => /\ PhysicalCode(p).code \in DOMAIN Keymap
                       /\ Keymap[PhysicalCode(p).code].key = p
<1>1. PhysicalCode(p) # NoCode
  BY CodesDiffer
<1>2. CASE ~OnLinux
  <2>1. PhysicalCode(p) = SystemCode(system, p)
    BY <1>2 DEF PhysicalCode
  <2>2. (\E c : PhysicalCode(p) = Code(c)) \/ PhysicalCode(p) = InjectorCode(system, p[1])
    BY <2>1 DEF SystemCode
  <2>3. system \in Numberings
    BY <1>2, SystemIs DEF Numberings
  <2>. QED BY <1>1, <1>2, <2>1, <2>2, <2>3, CodeForm, CodesDiffer
<1>3. CASE OnLinux
  <2>. DEFINE c == CHOOSE x \in DOMAIN Keymap : Keymap[x].key = p
  <2>1. PhysicalCode(p) = KeycodeOf(p)
    BY <1>3 DEF PhysicalCode
  <2>2. PhysicalCode(p) = Code(c) /\ \E x \in DOMAIN Keymap : Keymap[x].key = p
    BY <1>1, <2>1 DEF KeycodeOf
  <2>3. c \in DOMAIN Keymap /\ Keymap[c].key = p
    BY <2>2
  <2>. HIDE DEF c
  <2>. QED BY <1>1, <1>3, <2>2, <2>3, CodesDiffer
<1>. QED BY <1>2, <1>3

LEMMA DistinctKeys ==
  ASSUME system \in Systems, NEW p \in PhysicalKeys, NEW q \in PhysicalKeys,
         PhysicalCode(p).is = "code", PhysicalCode(q).is = "code",
         PhysicalCode(p).code = PhysicalCode(q).code
  PROVE  p = q
<1>1. PhysicalCode(p) = PhysicalCode(q) /\ PhysicalCode(p) # NoCode
  BY PhysicalCodeIs
<1>2. CASE ~OnLinux
  <2>1. SystemCode(system, p) = SystemCode(system, q) /\ SystemCode(system, p) # NoCode
    BY <1>1, <1>2, PhysicalCodeIs
  <2>. QED BY <1>2, <2>1, SystemIs, CodesDistinct DEF CodesDistinct
<1>3. CASE OnLinux
  BY <1>3, PhysicalCodeIs
<1>. QED BY <1>2, <1>3

\* A key that is down and has the code of a key of a shortcut is that key.
LEMMA KeyFound ==
  ASSUME system \in Systems, NEW p \in PhysicalKeys, PhysicalCode(p).is = "code",
         NEW k, k \in ShortcutKeys \/ k[1] = "Raw", system = "x11" => ~IsModifier(k),
         HotKeyCode(k) = Code(PhysicalCode(p).code)
  PROVE  IsKey(p, k)
<1>1. /\ PhysicalCode(p) # NoCode /\ HotKeyCode(k) = PhysicalCode(p)
      /\ ~OnLinux => PhysicalCode(p) = SystemCode(system, p)
  BY PhysicalCodeIs
<1>2. CASE ~OnLinux
  <2>1. /\ PhysicalCode(p) = SystemCode(system, p) /\ system \in {"mac", "win32"}
        /\ ShortcutCode(system, k) = PhysicalCode(p)
    BY <1>1, <1>2, SystemIs, HotKeyCodeIs
  <2>2. CASE k \in ShortcutKeys
    <3>1. p = <<k, "left">>
      BY <1>1, <2>1, <2>2, OneKeyPerCode
    <3>. QED BY <1>2, <3>1 DEF IsKey
  <2>3. CASE k[1] = "Raw"
    <3>1. ShortcutCode(system, k) = Code(k[2])
      BY <2>1, <2>3 DEF ShortcutCode, MacShortcutCode, WinShortcutCode
    <3>. QED BY <1>2, <2>1, <2>3, <3>1 DEF IsKey
  <2>. QED BY <2>2, <2>3
<1>3. CASE OnLinux
  <2>. DEFINE sym == LinuxShortcutCode(k).code
  <2>1. HotKeyCode(k) = KeycodeForSym(sym)
    BY <1>3, HotKeyCodeIs
  <2>. HIDE DEF sym
  <2>2. KeycodesOf(sym) # {}
    BY <1>1, <2>1 DEF KeycodeForSym
  <2>3. PICK c \in KeycodesOf(sym) : KeycodeForSym(sym) = Code(c)
    BY <1>3, <2>2, SymbolFound
  <2>4. PhysicalCode(p) = Code(c)
    BY <1>1, <2>1, <2>3
  <2>. QED BY <1>3, <2>4 DEF IsKey, sym
<1>. QED BY <1>2, <1>3

\* A shortcut is registered with the code of the only key it can mean.
LEMMA OnlyKeyFound ==
  ASSUME system \in Systems, NEW p \in PhysicalKeys, PhysicalCode(p).is = "code",
         NEW k, k \in ShortcutKeys \/ k[1] = "Raw", system = "x11" => ~IsModifier(k),
         IsOnlyKey(p, k)
  PROVE  HotKeyCode(k) = PhysicalCode(p) /\ HotKeyCode(k) # NoCode
<1>1. PhysicalCode(p) # NoCode
  BY PhysicalCodeIs
<1>2. CASE ~OnLinux
  <2>1. p = <<k, "left">> /\ k \in ShortcutKeys
    <3>1. p = <<k, "left">>
      BY <1>2 DEF IsOnlyKey
    <3>2. k = p[1]
      BY <3>1
    <3>. QED BY <3>1, <3>2, KeySets
  <2>2. PhysicalCode(p) = SystemCode(system, p) /\ system \in Numberings
    BY <1>2, PhysicalCodeIs, SystemIs DEF Numberings
  <2>3. ShortcutCode(system, k) = PhysicalCode(p)
    BY <2>1, <2>2, ShortcutCodeIs
  <2>. QED BY <1>1, <1>2, <2>1, <2>3, HotKeyCodeIs
<1>3. CASE OnLinux
  <2>. DEFINE sym == LinuxShortcutCode(k).code
  <2>1. HotKeyCode(k) = KeycodeForSym(sym)
    BY <1>3, HotKeyCodeIs
  <2>2. system = "evdev" \/ ~IsModifier(k)
    BY <1>3, SystemIs
  <2>3. IsKey(p, k) /\ \A c \in KeycodesOf(sym) : PhysicalCode(p) = Code(c)
    BY <1>3, <2>2 DEF IsOnlyKey
  <2>4. KeycodesOf(sym) # {}
    BY <1>3, <2>2, <2>3 DEF IsKey
  <2>. HIDE DEF sym
  <2>5. PICK c \in KeycodesOf(sym) : KeycodeForSym(sym) = Code(c)
    BY <1>3, <2>4, SymbolFound
  <2>. QED BY <1>1, <2>1, <2>3, <2>5
<1>. QED BY <1>2, <1>3

\* What a press does, apart from firing.
LEMMA PressTaken ==
  ASSUME HotKeysInv, NEW p \in PhysicalKeys, PressKey(p)
  PROVE  /\ KeysOK' /\ RegisteredOK' /\ MemoryOK'
         /\ UNCHANGED <<system, shortcuts, registered>> /\ toRegister = <<>>
         /\ p \notin held /\ PhysicalCode(p).is = "code"
         /\ held' = held \cup {p} /\ pressed' = p
<1>1. /\ p \notin held /\ PhysicalCode(p).is = "code" /\ held' = held \cup {p} /\ pressed' = p
      /\ UNCHANGED <<system, shortcuts, toRegister, registered>> /\ toRegister = <<>>
  BY DEF PressKey
<1>2. \A q : PhysicalCode(q)' = PhysicalCode(q)
  BY <1>1, KeysUnchanged
<1>3. KeysOK'
  BY <1>1, <1>2 DEF HotKeysInv, KeysOK
<1>4. RegisteredOK'
  BY <1>1, KeysUnchanged DEF HotKeysInv, RegisteredOK, SameCombination
<1>5. MemoryOK'
  <2>. DEFINE codes == {PhysicalCode(q).code : q \in held}
              now == {PhysicalCode(q).code : q \in held'}
              c == PhysicalCode(p).code
  <2>1. PICK old \in 0 .. Len(memory) :
          /\ memory' = IF system = "evdev" THEN Append(SubSeq(memory, old + 1, Len(memory)), c)
                                           ELSE <<>>
          /\ lapsed' = (held # {} /\ (lapsed \/ old > 0))
    BY DEF PressKey
  <2>2. codes \subseteq now /\ c \in now /\ memory \in Seq(codes)
    BY <1>1 DEF HotKeysInv, MemoryOK
  <2>. HIDE DEF codes, now, c
  <2>3. SubSeq(memory, old + 1, Len(memory)) \in Seq(codes)
    BY <2>2
  <2>4. SubSeq(memory, old + 1, Len(memory)) \in Seq(now)
    BY <2>2, <2>3
  <2>5. memory' \in Seq(now)
    BY <2>1, <2>2, <2>4
  <2>6. ASSUME system = "evdev", ~lapsed', NEW q \in held'
        PROVE  PhysicalCode(q).code \in ToSet(memory')
    <3>. DEFINE s == SubSeq(memory, old + 1, Len(memory))
    <3>1. memory' = Append(s, c)
      BY <2>1, <2>6
    <3>0. s \in Seq(codes)
      BY <2>3
    <3>. HIDE DEF s
    <3>2. Len(s) \in Nat /\ DOMAIN memory' = 1 .. Len(s) + 1 /\ memory'[Len(s) + 1] = c
      BY <3>0, <3>1
    <3>3. c \in ToSet(memory')
      <4>1. Len(s) + 1 \in DOMAIN memory'
        BY <3>2
      <4>. QED BY <3>2, <4>1 DEF ToSet
    <3>4. CASE q = p
      BY <3>3, <3>4 DEF c
    <3>5. CASE q # p
      <4>0. q \in held /\ held # {}
        BY <1>1, <2>6, <3>5
      <4>a. ~(lapsed \/ old > 0)
        BY Zenon, <2>1, <2>6, <4>0
      <4>b. old \in Nat /\ (~(old > 0) => old = 0)
        BY <2>2
      <4>1. q \in held /\ ~lapsed /\ old = 0
        BY Zenon, <4>0, <4>a, <4>b
      <4>2. PhysicalCode(q).code \in ToSet(memory)
        BY <2>6, <4>1 DEF HotKeysInv, MemoryOK
      <4>3. s = memory
        BY <2>2, <4>1 DEF s
      <4>4. PICK i \in DOMAIN memory : memory[i] = PhysicalCode(q).code
        BY <4>2 DEF ToSet
      <4>5. i \in DOMAIN memory' /\ memory'[i] = memory[i]
        BY <2>2, <3>1, <3>2, <4>3
      <4>. QED BY <4>4, <4>5 DEF ToSet
    <3>. QED BY <3>4, <3>5
  <2>7. now = {PhysicalCode(q)'.code : q \in held'}
    BY <1>2 DEF now
  <2>. QED BY <1>1, <1>2, <2>5, <2>6, <2>7 DEF MemoryOK
<1>. QED BY <1>1, <1>3, <1>4, <1>5

\* What fires is what was written.
LEMMA PressFires ==
  ASSUME HotKeysInv, NEW p \in PhysicalKeys, PressKey(p), fired' # 0,
         WellFormed(shortcuts[fired'])
  PROVE  LET keys == Written(shortcuts[fired']) IN
         /\ \A k \in keys : KeyDown(k)'
         /\ system # "evdev" =>
              /\ ModifiersHeld(held) = keys \cap Single(KeyModifiers)
              /\ \E k \in MainKeys(shortcuts[fired']) : IsKey(p, k)
<1>. DEFINE tokens == shortcuts[fired']
<1>1. PICK r \in registered : fired' = r.id /\ FiresOn(r, PhysicalCode(p))
  <2>. DEFINE hit == {r \in registered : FiresOn(r, PhysicalCode(p))}
  <2>1. fired' \in IF hit = {} THEN {0} ELSE {r.id : r \in hit}
    BY DEF PressKey
  <2>. HIDE DEF hit
  <2>2. hit # {} /\ fired' \in {r.id : r \in hit}
    BY <2>1
  <2>. QED BY <2>2 DEF hit
<1>2. /\ KeysOK /\ RegisteredOK /\ system \in Systems
      /\ system \in {"mac", "win32", "x11", "evdev"}
  BY SystemIs DEF HotKeysInv, KeysOK
<1>3. fired' \in DOMAIN shortcuts /\ tokens \in Shortcuts
  BY <1>1, <1>2 DEF KeysOK, RegisteredOK
<1>4. PICK hk \in NewHotKey(tokens) : r \in RawHotKey(fired', hk)
  BY <1>1, <1>2 DEF RegisteredOK
<1>5. PICK key \in MainKeys(tokens) :
        /\ MainKeys(tokens) = {key}
        /\ hk = [key |-> key, modifiers |-> Written(tokens) \cap Single(KeyModifiers)]
  BY <1>3, <1>4, HotKeyRead
<1>. DEFINE mods == Written(tokens) \cap Single(KeyModifiers)
<1>6. /\ hk.key = key /\ hk.modifiers = mods
      /\ Written(tokens) = {key} \cup mods
      /\ key \in ShortcutKeys \/ key[1] = "Raw"
  BY <1>5 DEF MainKeys, WellFormed
<1>. HIDE DEF mods
<1>7. /\ HotKeyCode(key) = Code(r.code)
      /\ r.modifiers = IF system = "evdev" THEN EvdevCodes(mods) ELSE mods
      /\ system = "evdev" => \A m \in mods : HotKeyCode(m) # NoCode
  <2>1. PICK i : i = fired'
    OBVIOUS
  <2>2. system \in Systems /\ r \in RawHotKey(i, hk)
    BY <1>2, <1>4, <2>1
  <2>3. /\ HotKeyCode(hk.key) = Code(r.code)
        /\ r.modifiers = IF system = "evdev" THEN EvdevCodes(hk.modifiers)
                         ELSE hk.modifiers
        /\ system = "evdev" => \A m \in hk.modifiers : HotKeyCode(m) # NoCode
    BY <2>2, RawIs
  <2>. QED BY <1>6, <2>3
<1>8. /\ held' = held \cup {p} /\ p \notin held /\ PhysicalCode(p).is = "code" /\ system' = system
      /\ MemoryOK'
      /\ \A q \in held' : q \in PhysicalKeys /\ PhysicalCode(q).is = "code"
  BY <1>2, PressTaken DEF KeysOK
<1>9. \A q, k : (IsKey(q, k)' <=> IsKey(q, k)) /\ PhysicalCode(q)' = PhysicalCode(q)
  BY <1>8, KeysUnchanged
<1>. HIDE DEF tokens, mods
<1>10. mods \subseteq Single(KeyModifiers) /\ mods \subseteq ShortcutKeys
  BY KeySets DEF mods
<1>11. CASE system = "evdev"
  <2>1. {r.code} \cup r.modifiers \subseteq ToSet(memory')
    BY <1>1, <1>11 DEF FiresOn
  <2>2. \A c \in ToSet(memory') : \E q \in held' : c = PhysicalCode(q).code
    <3>1. memory' \in Seq({PhysicalCode(q)'.code : q \in held'})
      BY <1>8 DEF MemoryOK
    <3>. QED BY <1>9, <3>1 DEF ToSet
  <2>4. ASSUME NEW k \in {key} \cup mods
        PROVE  \E c \in ToSet(memory') : HotKeyCode(k) = Code(c)
    <3>1. CASE k = key
      BY <1>7, <2>1, <3>1
    <3>2. CASE k \in mods
      <4>1. HotKeyCode(k).code \in r.modifiers
        BY <1>7, <1>11, <3>2 DEF EvdevCodes
      <4>2. HotKeyCode(k) # NoCode
        BY <1>7, <1>11, <3>2
      <4>3. HotKeyCode(k) = Code(HotKeyCode(k).code)
        BY <1>2, <4>2, HotKeyCodeIs
      <4>. QED BY <2>1, <4>1, <4>3
    <3>. QED BY <3>1, <3>2
  <2>5. ASSUME NEW k \in {key} \cup mods PROVE KeyDown(k)'
    <3>1. PICK c \in ToSet(memory') : HotKeyCode(k) = Code(c)
      BY <2>4
    <3>2. PICK q \in held' : c = PhysicalCode(q).code
      BY <2>2
    <3>3. k \in ShortcutKeys \/ k[1] = "Raw"
      BY <1>6, <1>10
    <3>4. IsKey(q, k)
      BY <1>2, <1>8, <1>11, <3>1, <3>2, <3>3, KeyFound
    <3>. QED BY <1>9, <3>4 DEF KeyDown
  <2>. QED BY <1>6, <1>11, <2>5 DEF tokens
<1>12. CASE system # "evdev"
  <2>1. r.code = PhysicalCode(p).code /\ mods = ModifiersHeld(held)
    BY <1>1, <1>7, <1>12 DEF FiresOn
  <2>2. IsKey(p, key)
    <3>1. ~IsModifier(key)
      BY <1>5 DEF MainKeys, IsModifier
    <3>. QED BY <1>2, <1>6, <1>7, <1>8, <2>1, <3>1, KeyFound
  <2>3. KeyDown(key)'
    BY <1>8, <1>9, <2>2 DEF KeyDown
  <2>4. ASSUME NEW k \in mods PROVE KeyDown(k)'
    <3>1. PICK q \in held : q[1] = k
      BY <2>1 DEF ModifiersHeld
    <3>2. IsKey(q, k) /\ q \in held'
      <4>1. k \in Single(KeyModifiers) /\ (OnLinux => system = "x11")
        BY <1>2, <1>10, <1>12, SystemIs
      <4>. QED BY <1>8, <3>1, <4>1 DEF IsKey, IsModifier
    <3>. QED BY <1>9, <3>2 DEF KeyDown
  <2>. QED BY <1>5, <1>6, <1>12, <2>1, <2>2, <2>3, <2>4 DEF tokens, mods
<1>. QED BY <1>11, <1>12

\* A press that completes the keys of a shortcut fires.
LEMMA PressCompletes ==
  ASSUME HotKeysInv, NEW p \in PhysicalKeys, PressKey(p), ~lapsed', ~IsModifier(p[1]),
         NEW i \in DOMAIN shortcuts, WellFormed(shortcuts[i]),
         Completed(Written(shortcuts[i]))'
  PROVE  fired' # 0
<1>. DEFINE tokens == shortcuts[i]
            mods == Written(tokens) \cap Single(KeyModifiers)
<1>1. /\ KeysOK' /\ RegisteredOK /\ MemoryOK'
      /\ UNCHANGED <<system, shortcuts, registered>> /\ toRegister = <<>>
      /\ p \notin held /\ PhysicalCode(p).is = "code" /\ held' = held \cup {p}
  BY PressTaken DEF HotKeysInv
<1>2. system \in Systems /\ tokens \in Shortcuts /\ (OnLinux <=> system \in {"x11", "evdev"})
  BY SystemIs DEF HotKeysInv, KeysOK
<1>3. /\ \A q : PhysicalCode(q)' = PhysicalCode(q)
      /\ \A q \in held' : q \in PhysicalKeys /\ PhysicalCode(q).is = "code"
  <2>1. \A q : PhysicalCode(q)' = PhysicalCode(q)
    BY <1>1, KeysUnchanged
  <2>. QED BY <1>1, <2>1 DEF KeysOK
<1>4. PICK key \in MainKeys(tokens) :
        /\ MainKeys(tokens) = {key}
        /\ NewHotKey(tokens) = {[key |-> key, modifiers |-> mods]}
  BY <1>2, HotKeyRead
<1>5. /\ key \in Written(tokens) /\ ~IsModifier(key) /\ mods \subseteq Written(tokens)
      /\ \A k \in Written(tokens) : k = key \/ (k \in mods /\ IsModifier(k))
      /\ \A k \in Written(tokens) : k \in ShortcutKeys \/ k[1] = "Raw"
  BY <1>4 DEF MainKeys, IsModifier, WellFormed
<1>6. /\ \A k \in Written(tokens) : \E q \in held' : IsOnlyKey(q, k)
      /\ \A q \in held' : \E k \in Written(tokens) : IsOnlyKey(q, k)
  <2>1. \A q, k : IsOnlyKey(q, k)' <=> IsOnlyKey(q, k)
    BY <1>1, KeysUnchanged
  <2>2. Written(shortcuts'[i]) = Written(tokens)
    BY <1>1
  <2>. QED BY <2>1, <2>2 DEF Completed
<1>. HIDE DEF tokens, mods
\* The keys of the shortcut that are looked up are down, with its codes.
<1>7. ASSUME NEW k \in Written(tokens), system = "x11" => k = key
      PROVE  /\ HotKeyCode(k) # NoCode
             /\ \E q \in held' : IsOnlyKey(q, k) /\ HotKeyCode(k) = Code(PhysicalCode(q).code)
  <2>1. PICK q \in held' : IsOnlyKey(q, k)
    BY <1>6
  <2>2. q \in PhysicalKeys /\ PhysicalCode(q).is = "code"
    BY <1>3
  <2>3. system = "x11" => ~IsModifier(k)
    BY <1>5, <1>7
  <2>4. k \in ShortcutKeys \/ k[1] = "Raw"
    BY <1>5
  <2>5. HotKeyCode(k) = PhysicalCode(q) /\ HotKeyCode(k) # NoCode
    BY <1>2, <2>1, <2>2, <2>3, <2>4, OnlyKeyFound
  <2>6. PhysicalCode(q) = Code(PhysicalCode(q).code)
    BY <1>2, <2>2, PhysicalCodeIs
  <2>. QED BY <2>1, <2>5, <2>6
\* Two keys are not both the only one.
<1>8. ASSUME system # "evdev", NEW q \in held', IsOnlyKey(q, key)
      PROVE  q = p
  <2>1. PICK k \in Written(tokens) : IsOnlyKey(p, k)
    BY <1>1, <1>6
  <2>2. k = key
    <3>1. CASE k \in mods /\ IsModifier(k)
      <4>1. p[1] = k
        <5>1. CASE OnLinux
          <6>1. IsKey(p, k) /\ system = "x11"
            BY <1>2, <1>8, <2>1, <5>1 DEF IsOnlyKey
          <6>2. k[1] # "Raw"
            BY <3>1 DEF IsModifier, Single, KeyModifiers
          <6>. QED BY <3>1, <6>1, <6>2 DEF IsKey
        <5>2. CASE ~OnLinux
          BY <2>1, <5>2 DEF IsOnlyKey
        <5>. QED BY <5>1, <5>2
      <4>. QED BY <3>1, <4>1
    <3>. QED BY <1>5, <3>1
  <2>3. /\ p \in PhysicalKeys /\ PhysicalCode(p).is = "code"
        /\ q \in PhysicalKeys /\ PhysicalCode(q).is = "code"
        /\ key \in ShortcutKeys \/ key[1] = "Raw"
    BY <1>1, <1>3, <1>5
  <2>4. HotKeyCode(key) = PhysicalCode(p)
    BY <1>2, <1>5, <2>1, <2>2, <2>3, OnlyKeyFound
  <2>5. HotKeyCode(key) = PhysicalCode(q)
    BY <1>2, <1>5, <1>8, <2>3, OnlyKeyFound
  <2>. QED BY <1>2, <2>3, <2>4, <2>5, DistinctKeys
<1>. DEFINE hk == [key |-> key, modifiers |-> mods]
<1>9. hk.key = key /\ hk.modifiers = mods
  OBVIOUS
<1>. HIDE DEF hk
<1>10. PICK r \in RawHotKey(i, hk) : TRUE
  <2>1. HotKeyCode(key) # NoCode
    BY <1>5, <1>7
  <2>2. system = "evdev" => \A m \in mods : HotKeyCode(m) # NoCode
    BY <1>5, <1>7
  <2>3. RawHotKey(i, hk) # {}
    BY <1>2, <1>9, <2>1, <2>2, RawIs
  <2>. QED BY <2>3
<1>11. /\ HotKeyCode(key) = Code(r.code)
       /\ r.modifiers = IF system = "evdev" THEN EvdevCodes(mods) ELSE mods
  BY <1>2, <1>9, <1>10, RawIs
<1>12. PICK s \in registered : s.code = r.code /\ s.modifiers = r.modifiers
  <2>1. i \notin ToSet(toRegister)
    BY <1>1 DEF ToSet
  <2>2. hk \in NewHotKey(shortcuts[i])
    BY <1>4 DEF hk, tokens
  <2>. QED BY <1>1, <1>10, <2>1, <2>2 DEF RegisteredOK, SameCombination
<1>13. ASSUME system = "evdev" PROVE FiresOn(s, PhysicalCode(p))
  <2>1. \A q \in held' : PhysicalCode(q).code \in ToSet(memory')
    BY <1>1, <1>3, <1>13 DEF MemoryOK
  <2>2. ASSUME NEW k \in Written(tokens) PROVE HotKeyCode(k).code \in ToSet(memory')
    <3>1. PICK q \in held' : HotKeyCode(k) = Code(PhysicalCode(q).code)
      BY <1>7, <1>13
    <3>. QED BY <2>1, <3>1, CodesDiffer
  <2>3. s.code \in ToSet(memory')
    <3>1. HotKeyCode(key).code = s.code
      BY <1>11, <1>12, CodesDiffer
    <3>. QED BY <1>5, <2>2, <3>1
  <2>4. s.modifiers \subseteq ToSet(memory')
    BY <1>5, <1>11, <1>12, <1>13, <2>2 DEF EvdevCodes
  <2>. QED BY <1>13, <2>3, <2>4 DEF FiresOn
<1>14. ASSUME system # "evdev" PROVE FiresOn(s, PhysicalCode(p))
  <2>1. s.code = PhysicalCode(p).code
    <3>1. PICK q \in held' : IsOnlyKey(q, key) /\ HotKeyCode(key) = Code(PhysicalCode(q).code)
      BY <1>5, <1>7
    <3>2. q = p
      BY <1>8, <1>14, <3>1
    <3>. QED BY <1>11, <1>12, <3>1, <3>2, CodesDiffer
  <2>2. ASSUME NEW q, NEW m \in mods, IsOnlyKey(q, m) PROVE q[1] = m
    <3>1. IsModifier(m) /\ m[1] # "Raw"
      BY DEF mods, IsModifier, Single, KeyModifiers
    <3>2. CASE OnLinux
      BY <1>2, <1>14, <2>2, <3>1, <3>2 DEF IsOnlyKey, IsKey
    <3>3. CASE ~OnLinux
      BY <2>2, <3>3 DEF IsOnlyKey
    <3>. QED BY <3>2, <3>3
  <2>3. ASSUME NEW m \in mods PROVE m \in ModifiersHeld(held)
    <3>1. IsModifier(m)
      BY DEF mods, IsModifier
    <3>2. PICK q \in held' : IsOnlyKey(q, m)
      BY <1>5, <1>6
    <3>3. q[1] = m /\ q # p
      BY <2>2, <3>1, <3>2
    <3>4. q \in held
      BY <1>1, <3>3
    <3>. QED BY <3>1, <3>3, <3>4 DEF ModifiersHeld
  <2>4. ASSUME NEW m \in ModifiersHeld(held) PROVE m \in mods
    <3>1. PICK q \in held : IsModifier(q[1]) /\ q[1] = m
      BY DEF ModifiersHeld
    <3>2. q \in held' /\ q # p
      BY <1>1
    <3>3. PICK k \in Written(tokens) : IsOnlyKey(q, k)
      BY <1>6, <3>2
    <3>4. k # key
      BY <1>8, <1>14, <3>2, <3>3
    <3>5. k \in mods
      BY <1>5, <3>4
    <3>. QED BY <2>2, <3>1, <3>3, <3>5
  <2>5. s.modifiers = ModifiersHeld(held)
    BY <1>11, <1>12, <1>14, <2>3, <2>4
  <2>. QED BY <1>14, <2>1, <2>5 DEF FiresOn
<1>15. FiresOn(s, PhysicalCode(p))
  BY <1>13, <1>14
<1>16. \A x \in registered : x.id # 0
  BY <1>1 DEF RegisteredOK, HotKeysInv, KeysOK
<1>. DEFINE hit == {x \in registered : FiresOn(x, PhysicalCode(p))}
<1>17. fired' \in IF hit = {} THEN {0} ELSE {x.id : x \in hit}
  BY DEF PressKey
<1>18. hit # {} /\ hit \subseteq registered
  BY <1>15
<1>. HIDE DEF hit
<1>. QED BY <1>16, <1>17, <1>18

LEMMA Pressing ==
  ASSUME HotKeysInv, NEW p \in PhysicalKeys, PressKey(p)
  PROVE  HotKeysInv'
<1>1. /\ KeysOK' /\ RegisteredOK' /\ MemoryOK'
      /\ UNCHANGED <<system, shortcuts, registered>>
      /\ p \notin held /\ held' = held \cup {p} /\ pressed' = p
  BY PressTaken
<1>2. held' \ {pressed'} = held
  BY <1>1
<1>3. \A q, k : IsKey(q, k)' <=> IsKey(q, k)
  BY <1>1, KeysUnchanged
<1>4. ModifiersHeld(held' \ {pressed'}) = ModifiersHeld(held)
  BY <1>2
<1>5. ASSUME fired' # 0, WellFormed(shortcuts'[fired'])
      PROVE  LET keys == Written(shortcuts'[fired']) IN
             /\ \A k \in keys : KeyDown(k)'
             /\ system' # "evdev" =>
                  /\ ModifiersHeld(held' \ {pressed'}) = keys \cap Single(KeyModifiers)
                  /\ \E k \in MainKeys(shortcuts'[fired']) : IsKey(pressed, k)'
  <2>1. WellFormed(shortcuts[fired'])
    BY <1>1, <1>5
  <2>2. LET keys == Written(shortcuts[fired']) IN
        /\ \A k \in keys : KeyDown(k)'
        /\ system # "evdev" =>
             /\ ModifiersHeld(held) = keys \cap Single(KeyModifiers)
             /\ \E k \in MainKeys(shortcuts[fired']) : IsKey(p, k)
    BY <1>5, <2>1, PressFires
  <2>. QED BY <1>1, <1>3, <1>4, <2>2
<1>6. ASSUME ~lapsed', NEW i \in DOMAIN shortcuts', WellFormed(shortcuts'[i]),
             Completed(Written(shortcuts[i]))', ~IsModifier(pressed'[1])
      PROVE  fired' # 0
  BY <1>1, <1>6, PressCompletes
<1>7. FiredAsWritten'
  BY <1>5, <1>6 DEF FiredAsWritten
<1>. QED BY <1>1, <1>7 DEF HotKeysInv

\* A release forgets the code of its key, which no other key that is down has.
LEMMA Releasing ==
  ASSUME HotKeysInv, NEW p \in PhysicalKeys, ReleaseKey(p)
  PROVE  HotKeysInv'
<1>1. /\ p \in held /\ held' = held \ {p} /\ pressed' = NoPress /\ fired' = 0
      /\ memory' = Without(memory, PhysicalCode(p).code)
      /\ UNCHANGED <<system, shortcuts, toRegister, registered, lapsed>>
  BY DEF ReleaseKey
<1>2. \A q : PhysicalCode(q)' = PhysicalCode(q)
  BY <1>1, KeysUnchanged
<1>3. KeysOK'
  BY <1>1, <1>2 DEF HotKeysInv, KeysOK
<1>4. RegisteredOK'
  BY <1>1, KeysUnchanged DEF HotKeysInv, RegisteredOK, SameCombination
<1>5. MemoryOK'
  <2>. DEFINE pcode(q) == PhysicalCode(q).code
              c == pcode(p)
              codes == {pcode(q) : q \in held}
              now == {pcode(q) : q \in held'}
              parts == [i \in DOMAIN memory |-> IF memory[i] = c THEN <<>> ELSE <<memory[i]>>]
  <2>1. now = codes \ {c}
    <3>1. ASSUME NEW q \in held, pcode(q) = c PROVE q = p
      BY <1>1, <3>1, DistinctKeys DEF HotKeysInv, KeysOK
    <3>. QED BY <1>1, <3>1
  <2>2. memory \in Seq(codes)
    BY DEF HotKeysInv, MemoryOK
  <2>3. memory' = FlattenSeq(parts)
    BY <1>1 DEF Without
  <2>4. \A i \in DOMAIN memory : memory[i] \in codes
    BY <2>2
  <2>5. DOMAIN parts = DOMAIN memory /\ DOMAIN memory = 1 .. Len(memory) /\ Len(memory) \in Nat
    BY <2>2
  <2>6. \A i \in DOMAIN memory :
          /\ memory[i] = c => parts[i] = <<>>
          /\ memory[i] # c => parts[i] = <<memory[i]>>
    BY <2>5
  <2>7. now = {PhysicalCode(q)'.code : q \in held'}
    BY <1>2
  <2>8. parts = [i \in 1 .. Len(memory) |-> parts[i]]
    BY <2>5
  <2>. HIDE DEF parts, codes, now, c, pcode
  <2>9. ASSUME NEW i \in DOMAIN memory PROVE parts[i] \in Seq(now)
    <3>1. CASE memory[i] = c
      <4>1. parts[i] = <<>>
        BY <2>6, <3>1
      <4>. QED BY <4>1
    <3>2. CASE memory[i] # c
      <4>1. parts[i] = <<memory[i]>> /\ memory[i] \in now
        BY <2>1, <2>4, <2>6, <3>2
      <4>2. \A x \in now : <<x>> \in Seq(now)
        OBVIOUS
      <4>. QED BY <4>1, <4>2
    <3>. QED BY <3>1, <3>2
  <2>10. parts \in Seq(Seq(now))
    BY <2>5, <2>8, <2>9
  <2>11. memory' \in Seq(now)
    BY <2>3, <2>10, FlattenType
  <2>12. ASSUME NEW x \in ToSet(memory), x # c PROVE x \in ToSet(memory')
    <3>1. PICK i \in DOMAIN memory : memory[i] = x
      BY DEF ToSet
    <3>2. parts[i] = <<x>>
      BY <2>6, <2>12, <3>1
    <3>3. x \in ToSet(parts[i])
      BY <3>2 DEF ToSet
    <3>. QED BY <2>3, <2>5, <2>10, <3>3, FlattenElements
  <2>13. ASSUME system' = "evdev", ~lapsed', NEW q \in held'
         PROVE  PhysicalCode(q)'.code \in ToSet(memory')
    <3>1. pcode(q) \in ToSet(memory) /\ pcode(q) \in now
      BY <1>1, <2>13 DEF HotKeysInv, MemoryOK, pcode, now
    <3>2. pcode(q) # c
      BY <2>1, <3>1
    <3>. QED BY <1>2, <2>12, <3>1, <3>2 DEF pcode
  <2>. QED BY <2>7, <2>11, <2>13 DEF MemoryOK
<1>6. FiredAsWritten'
  BY <1>1 DEF FiredAsWritten
<1>. QED BY <1>3, <1>4, <1>5, <1>6 DEF HotKeysInv

\* HotKeys fire as they were written.
THEOREM HotKeysFire == HotKeysSpec => []FiredAsWritten
<1>1. HotKeysInv /\ [HotKeysNext]_hotKeyVars => HotKeysInv'
  <2>. SUFFICES ASSUME HotKeysInv, [HotKeysNext]_hotKeyVars PROVE HotKeysInv'
    OBVIOUS
  <2>1. CASE RegisterHotKey
    BY <2>1, Registering
  <2>2. ASSUME NEW p \in PhysicalKeys, PressKey(p) PROVE HotKeysInv'
    BY <2>2, Pressing
  <2>3. ASSUME NEW p \in PhysicalKeys, ReleaseKey(p) PROVE HotKeysInv'
    BY <2>3, Releasing
  <2>4. CASE UNCHANGED hotKeyVars
    <3>1. UNCHANGED <<system, shortcuts, toRegister, registered, held, memory, lapsed, pressed,
                      fired>>
      BY <2>4 DEF hotKeyVars
    <3>2. KeysOK' /\ MemoryOK'
      BY <3>1, KeysUnchanged DEF HotKeysInv, KeysOK, MemoryOK
    <3>3. RegisteredOK'
      BY <3>1, KeysUnchanged DEF HotKeysInv, RegisteredOK, SameCombination
    <3>. QED BY <3>1, <3>2, <3>3, FiredUnchanged DEF HotKeysInv
  <2>. QED BY <2>1, <2>2, <2>3, <2>4 DEF HotKeysNext
<1>2. HotKeysInv => FiredAsWritten
  BY DEF HotKeysInv
<1>. QED BY HotKeysStart, <1>1, <1>2, PTL DEF HotKeysSpec

-----------------------------------------------------------------------------
(* The tree of the rolling matcher, for every set of matches and every      *)
(* order in which they are inserted.                                        *)

Inserted == Rules \ pending

\* No position lies below another.
Antichain == \A p, q \in DOMAIN tree : ~StrictPrefix(p, q)

\* A match that was inserted is at its position, or hidden by a shorter one.
HeldOrHidden ==
    \A q \in Inserted : q.items # <<>> =>
        q.items \in DOMAIN tree \/ \E p \in DOMAIN tree : StrictPrefix(p, q.items)

RuleIds == {r.id : r \in Rules}

\* The ids at a position are those of the matches of S that have it.
Holds(ids, p, S) ==
    /\ ids \in Seq(RuleIds)
    /\ \A i \in 1 .. Len(ids) : \E r \in S : r.items = p /\ r.id = ids[i]
    /\ \A r \in S : r.items = p => \E i \in 1 .. Len(ids) : ids[i] = r.id

Contents == \A p \in DOMAIN tree : Holds(tree[p], p, Inserted)

\* The inductive invariant.  TreeHoldsVisible alone does not say that a hidden match
\* is hidden by one that is in the tree, which is what a later insertion looks at.
TreeInv ==
    /\ pending \subseteq Rules
    /\ \A p \in DOMAIN tree : p # <<>> /\ \E r \in Inserted : r.items = p
    /\ Antichain
    /\ HeldOrHidden
    /\ Contents

-----------------------------------------------------------------------------

\* What the tree contains depends on the tree alone.
LEMMA ContentsPrime ==
    (\A p \in DOMAIN tree' : Holds(tree'[p], p, Inserted')) => Contents'
BY DEF Contents, Holds

\* A trigger that hides one that hides a third hides the third.
LEMMA PrefixTransitive ==
    ASSUME NEW p \in Seq(Item), NEW q \in Seq(Item), NEW s \in Seq(Item),
           StrictPrefix(p, q), StrictPrefix(q, s)
    PROVE  StrictPrefix(p, s)
BY DEF StrictPrefix

\* No trigger hides itself.
LEMMA PrefixIrreflexive ==
    ASSUME NEW p \in Seq(Item)
    PROVE  ~StrictPrefix(p, p)
BY DEF StrictPrefix

\* The positions of the tree are sequences of items.
LEMMA PositionsAreItems == TreeInv => \A p \in DOMAIN tree : p \in Seq(Item)
BY RulesAssumption DEF TreeInv, RulesAssumption, Inserted

\* The empty tree of RollingMatcherTree::new satisfies the invariant.
LEMMA InitTree == TreeInit => TreeInv
BY DEF TreeInit, TreeInv, Inserted, Antichain, HeldOrHidden, Contents

\* The tree holds what is visible.
LEMMA InvariantSuffices == TreeInv => TreeHoldsVisible
<1>. SUFFICES ASSUME TreeInv
              PROVE  TreeHoldsVisible
  OBVIOUS
<1>1. \A p \in DOMAIN tree : p \in Seq(Item)
  BY PositionsAreItems
<1>2. \A r \in Inserted : r.items \in Seq(Item)
  BY RulesAssumption DEF RulesAssumption, Inserted
<1>3. ASSUME NEW p \in DOMAIN tree
      PROVE  \E r \in Visible(Inserted) : r.items = p
  <2>1. PICK r \in Inserted : r.items = p
    BY DEF TreeInv
  <2>2. p # <<>>
    BY DEF TreeInv
  <2>3. ASSUME NEW q \in Inserted, q.items # <<>>, StrictPrefix(q.items, p)
        PROVE  FALSE
    <3>1. CASE q.items \in DOMAIN tree
      BY <2>3, <3>1 DEF TreeInv, Antichain
    <3>2. CASE \E s \in DOMAIN tree : StrictPrefix(s, q.items)
      <4>1. PICK s \in DOMAIN tree : StrictPrefix(s, q.items)
        BY <3>2
      <4>2. StrictPrefix(s, p)
        BY <4>1, <2>3, <1>1, <1>2, PrefixTransitive
      <4>. QED
        BY <4>2 DEF TreeInv, Antichain
    <3>. QED
      BY <2>3, <3>1, <3>2 DEF TreeInv, HeldOrHidden
  <2>. QED
    BY <2>1, <2>2, <2>3 DEF Visible
<1>4. ASSUME NEW r \in Visible(Inserted)
      PROVE  r.items \in DOMAIN tree
  <2>1. r \in Inserted /\ r.items # <<>>
    BY DEF Visible
  <2>2. ASSUME NEW p \in DOMAIN tree, StrictPrefix(p, r.items)
        PROVE  FALSE
    <3>1. p # <<>> /\ \E q \in Inserted : q.items = p
      BY DEF TreeInv
    <3>. QED
      BY <2>2, <3>1 DEF Visible
  <2>. QED
    BY <2>1, <2>2 DEF TreeInv, HeldOrHidden
<1>5. DOMAIN tree = {r.items : r \in Visible(Inserted)}
  BY <1>3, <1>4
<1>6. ASSUME NEW p \in DOMAIN tree
      PROVE  Ids(tree[p]) = {r.id : r \in {q \in Inserted : q.items = p}}
  <2>1. Holds(tree[p], p, Inserted)
    BY DEF TreeInv, Contents
  <2>2. \A x \in Ids(tree[p]) : x \in {r.id : r \in {q \in Inserted : q.items = p}}
    BY <2>1 DEF Holds, Ids
  <2>3. \A r \in Inserted : r.items = p => r.id \in Ids(tree[p])
    BY <2>1 DEF Holds, Ids
  <2>. QED
    BY <2>2, <2>3
<1>. QED
  BY <1>5, <1>6 DEF TreeHoldsVisible, Inserted

\* A match that goes nowhere: it has no items, or a shorter one hides it.
LEMMA InsertHidden ==
    ASSUME TreeInv, NEW r \in pending, pending' = pending \ {r}, tree' = tree,
           r.items = <<>> \/ \E p \in DOMAIN tree : StrictPrefix(p, r.items)
    PROVE  TreeInv'
<1>1. r \in Rules /\ Inserted' = Inserted \cup {r}
  BY DEF TreeInv, Inserted
<1>2. pending' \subseteq Rules /\ DOMAIN tree' = DOMAIN tree
  BY DEF TreeInv
<1>3. \A p \in DOMAIN tree : p # r.items
  <2>1. \A p, q \in DOMAIN tree : p # <<>> /\ ~StrictPrefix(p, q)
    BY DEF TreeInv, Antichain
  <2>. QED
    BY <2>1
<1>4. \A p \in DOMAIN tree' : p # <<>> /\ \E q \in Inserted' : q.items = p
  BY <1>1, <1>2 DEF TreeInv
<1>5. Antichain'
  BY <1>2 DEF TreeInv, Antichain
<1>6. HeldOrHidden'
  BY <1>1, <1>2 DEF TreeInv, HeldOrHidden
<1>7. Contents'
  <2>. SUFFICES ASSUME NEW p \in DOMAIN tree
                PROVE  Holds(tree[p], p, Inserted \cup {r})
    BY <1>1, <1>2, ContentsPrime
  <2>1. Holds(tree[p], p, Inserted)
    BY DEF TreeInv, Contents
  <2>. QED
    BY <2>1, <1>3 DEF Holds
<1>. QED
  BY <1>2, <1>4, <1>5, <1>6, <1>7 DEF TreeInv

\* A match at a position of its own: what lies below is gone.
LEMMA InsertVisible ==
    ASSUME TreeInv, NEW r \in pending, pending' = pending \ {r}, r.items # <<>>,
           \A p \in DOMAIN tree : ~StrictPrefix(p, r.items),
           tree' = [p \in {q \in DOMAIN tree : ~StrictPrefix(r.items, q)} \cup {r.items} |->
                      IF p # r.items THEN tree[p]
                      ELSE Append(IF IsLeaf(p) THEN tree[p] ELSE <<>>, r.id)]
    PROVE  TreeInv'
<1>1. r \in Rules /\ Inserted' = Inserted \cup {r} /\ r.items \in Seq(Item)
  BY RulesAssumption DEF TreeInv, Inserted, RulesAssumption
<1>2. DOMAIN tree' = {q \in DOMAIN tree : ~StrictPrefix(r.items, q)} \cup {r.items}
  OBVIOUS
<1>3. \A p \in DOMAIN tree : p \in Seq(Item)
  BY PositionsAreItems
<1>4. \A p \in DOMAIN tree' : p # <<>> /\ \E q \in Inserted' : q.items = p
  BY <1>1, <1>2 DEF TreeInv
<1>5. Antichain'
  BY <1>1, <1>2, PrefixIrreflexive DEF TreeInv, Antichain
<1>6. HeldOrHidden'
  <2>. SUFFICES ASSUME NEW q \in Inserted', q.items # <<>>
                PROVE  q.items \in DOMAIN tree' \/ \E p \in DOMAIN tree' : StrictPrefix(p, q.items)
    BY DEF HeldOrHidden
  <2>1. CASE q = r
    BY <2>1, <1>2
  <2>2. CASE q \in Inserted /\ q.items \in DOMAIN tree
    BY <2>2, <1>2
  <2>3. CASE q \in Inserted /\ \E p \in DOMAIN tree : StrictPrefix(p, q.items)
    <3>1. PICK p \in DOMAIN tree : StrictPrefix(p, q.items)
      BY <2>3
    <3>2. q.items \in Seq(Item)
      BY <2>3, RulesAssumption DEF RulesAssumption, Inserted
    <3>3. CASE StrictPrefix(r.items, p)
      BY <3>1, <3>2, <3>3, <1>1, <1>2, <1>3, PrefixTransitive
    <3>. QED
      BY <3>1, <3>3, <1>2
  <2>. QED
    BY <2>1, <2>2, <2>3, <1>1 DEF TreeInv, HeldOrHidden
<1>7. Contents'
  <2>. SUFFICES ASSUME NEW p \in DOMAIN tree'
                PROVE  Holds(tree'[p], p, Inserted \cup {r})
    BY <1>1, ContentsPrime
  <2>1. CASE p # r.items
    <3>1. p \in DOMAIN tree /\ tree'[p] = tree[p]
      BY <2>1, <1>2
    <3>2. Holds(tree[p], p, Inserted)
      BY <3>1 DEF TreeInv, Contents
    <3>3. Holds(tree[p], p, Inserted \cup {r})
      BY <2>1, <3>2 DEF Holds
    <3>. QED
      BY <3>1, <3>3
  <2>2. CASE p = r.items
    <3>. DEFINE idsThere == IF IsLeaf(p) THEN tree[p] ELSE <<>>
    <3>1. tree'[p] = Append(idsThere, r.id)
      BY <2>2, <1>2
    <3>2. Holds(idsThere, p, Inserted)
      <4>1. CASE IsLeaf(p)
        BY <4>1 DEF TreeInv, Contents, IsLeaf
      <4>2. CASE ~IsLeaf(p)
        <5>1. \A s \in Inserted : s.items # p
          BY <4>2, <2>2 DEF TreeInv, HeldOrHidden, IsLeaf
        <5>2. idsThere = <<>>
          BY <4>2
        <5>3. Holds(<<>>, p, Inserted)
          BY <5>1 DEF Holds
        <5>. QED
          BY <5>2, <5>3
      <4>. QED
        BY <4>1, <4>2
    <3>. HIDE DEF idsThere
    <3>3. r.id \in RuleIds /\ idsThere \in Seq(RuleIds)
      BY <3>2, <1>1 DEF Holds, RuleIds
    <3>4. /\ Append(idsThere, r.id) \in Seq(RuleIds)
          /\ Len(Append(idsThere, r.id)) = Len(idsThere) + 1 /\ Len(idsThere) \in Nat
          /\ \A i \in 1 .. Len(idsThere) : Append(idsThere, r.id)[i] = idsThere[i]
          /\ Append(idsThere, r.id)[Len(idsThere) + 1] = r.id
      BY <3>3
    <3>. DEFINE after == Append(idsThere, r.id)
                m == Len(idsThere)
    <3>. HIDE DEF after, m
    <3>5. \A i \in 1 .. Len(after) : \E s \in Inserted \cup {r} : s.items = p /\ s.id = after[i]
      <4>. SUFFICES ASSUME NEW i \in 1 .. (m + 1)
                    PROVE  \E s \in Inserted \cup {r} : s.items = p /\ s.id = after[i]
        BY <3>4 DEF after, m
      <4>1. CASE i = m + 1
        BY <4>1, <2>2, <3>4 DEF after, m
      <4>2. CASE i \in 1 .. m
        BY <4>2, <3>2, <3>4 DEF after, m, Holds
      <4>. QED
        BY <4>1, <4>2, <3>4 DEF m
    <3>6. \A s \in Inserted \cup {r} : s.items = p => \E i \in 1 .. Len(after) : after[i] = s.id
      <4>. SUFFICES ASSUME NEW s \in Inserted \cup {r}, s.items = p
                    PROVE  \E i \in 1 .. (m + 1) : after[i] = s.id
        BY <3>4 DEF after, m
      <4>1. CASE s = r
        BY <4>1, <3>4 DEF after, m
      <4>2. CASE s \in Inserted
        <5>1. PICK i \in 1 .. m : idsThere[i] = s.id
          BY <4>2, <3>2 DEF Holds, m
        <5>2. i \in 1 .. (m + 1) /\ after[i] = s.id
          BY <5>1, <3>4 DEF after, m
        <5>. QED
          BY <5>2
      <4>. QED
        BY <4>1, <4>2
    <3>7. after \in Seq(RuleIds)
      BY <3>4 DEF after
    <3>8. Holds(after, p, Inserted \cup {r})
      BY <3>5, <3>6, <3>7 DEF Holds
    <3>. QED
      BY <3>1, <3>8 DEF after
  <2>. QED
    BY <2>1, <2>2
<1>8. pending' \subseteq Rules
  BY DEF TreeInv
<1>. QED
  BY <1>4, <1>5, <1>6, <1>7, <1>8 DEF TreeInv

\* Inserting the next match of from_matches, hidden or not, keeps it.
LEMMA BuildKeeps == TreeInv /\ Build => TreeInv'
<1>. SUFFICES ASSUME TreeInv, NEW r \in pending, Insert(r)
              PROVE  TreeInv'
  BY DEF Build
<1>1. CASE r.items = <<>> \/ \E p \in DOMAIN tree : StrictPrefix(p, r.items)
  BY <1>1, InsertHidden DEF Insert
<1>2. CASE r.items # <<>> /\ \A p \in DOMAIN tree : ~StrictPrefix(p, r.items)
  BY <1>2, InsertVisible DEF Insert
<1>. QED
  BY <1>1, <1>2

\* What does not touch the tree keeps it.
LEMMA IdleKeeps == TreeInv /\ UNCHANGED treeVars => TreeInv'
<1>. SUFFICES ASSUME TreeInv, UNCHANGED treeVars
              PROVE  TreeInv'
  OBVIOUS
<1>1. pending' = pending /\ tree' = tree /\ Inserted' = Inserted
  BY DEF treeVars, Inserted
<1>2. Antichain' /\ HeldOrHidden'
  BY <1>1 DEF TreeInv, Antichain, HeldOrHidden
<1>3. Contents'
  BY <1>1, ContentsPrime DEF TreeInv, Contents
<1>. QED
  BY <1>1, <1>2, <1>3 DEF TreeInv

-----------------------------------------------------------------------------

\* The tree by itself: whatever the matches and the order of their insertion, it
\* holds those that no shorter trigger hides, with all that share a trigger.
THEOREM TreeIsExact == TreeSpec => []TreeHoldsVisible
BY InitTree, BuildKeeps, IdleKeeps, InvariantSuffices, PTL DEF TreeSpec

\* No step of the matchers disturbs the tree built at the start.
LEMMA MatchingStep == TreeInv /\ [Next]_vars => TreeInv'
<1>1. Build => (TreeInv => TreeInv')
  BY BuildKeeps
<1>2. [Next]_vars => Build \/ UNCHANGED treeVars
  BY DEF Next, vars, treeVars, BuildTree, Process, Backspace, Invalidate
<1>. QED
  BY <1>1, <1>2, IdleKeeps

\* The matchers never disturb the tree: the same holds while they run.
THEOREM MatchingTreeIsExact == Spec => []TreeHoldsVisible
<1>1. Init => TreeInv
  BY InitTree DEF Init
<1>. QED
  BY <1>1, MatchingStep, InvariantSuffices, PTL DEF Spec

-----------------------------------------------------------------------------
(* The buffer of the regex matcher, for any texts and any widths.           *)

\* What IsSuffix says, place by place.
LEMMA SuffixIs ==
  ASSUME NEW X, NEW s \in Seq(X), NEW t \in Seq(X), Len(s) <= Len(t),
         \A i \in 1 .. Len(s) : s[i] = t[Len(t) - Len(s) + i]
  PROVE  IsSuffix(s, t)
<1>. DEFINE r == Reverse(s)
            u == Reverse(t)
<1>1. /\ r \in Seq(X) /\ Len(r) = Len(s) /\ u \in Seq(X) /\ Len(u) = Len(t)
      /\ \A i \in 1 .. Len(s) : r[i] = s[Len(s) - i + 1]
      /\ \A i \in 1 .. Len(t) : u[i] = t[Len(t) - i + 1]
  BY DEF Reverse
<1>2. ASSUME NEW i \in 1 .. Len(s) PROVE r[i] = u[i]
  <2>1. Len(s) - i + 1 \in 1 .. Len(s) /\ i \in 1 .. Len(t)
    OBVIOUS
  <2>2. r[i] = t[Len(t) - Len(s) + (Len(s) - i + 1)]
    BY <1>1, <2>1
  <2>3. Len(t) - Len(s) + (Len(s) - i + 1) = Len(t) - i + 1
    OBVIOUS
  <2>. QED BY <1>1, <2>1, <2>2, <2>3
<1>. HIDE DEF r, u
<1>3. SubSeq(r, 1, Len(r)) = SubSeq(u, 1, Len(r))
  BY <1>1, <1>2
<1>4. IsPrefix(r, u)
  BY <1>1, <1>3 DEF IsPrefix
<1>. QED BY <1>4 DEF IsSuffix, r, u

\* A part that reaches to the end is a suffix, also of a longer such part.
LEMMA PartIsSuffix ==
  ASSUME NEW X, NEW t \in Seq(X), NEW j \in 1 .. Len(t) + 1, NEW k \in j .. Len(t) + 1
  PROVE  IsSuffix(SubSeq(t, k, Len(t)), SubSeq(t, j, Len(t)))
<1>. DEFINE n == Len(t)
            s == SubSeq(t, k, n)
            u == SubSeq(t, j, n)
<1>1. /\ n \in Nat /\ k \in Nat /\ j \in Nat /\ j <= k /\ k <= n + 1 /\ 1 <= j
      /\ s \in Seq(X) /\ Len(s) = n - k + 1
      /\ u \in Seq(X) /\ Len(u) = n - j + 1
  OBVIOUS
<1>2. \A i \in 1 .. n - k + 1 : s[i] = t[k + i - 1]
  BY <1>1
<1>3. \A i \in 1 .. n - j + 1 : u[i] = t[j + i - 1]
  BY <1>1
<1>. HIDE DEF n, s, u
<1>4. ASSUME NEW i \in 1 .. Len(s) PROVE s[i] = u[Len(u) - Len(s) + i]
  <2>1. Len(u) - Len(s) + i \in 1 .. n - j + 1
    BY <1>1
  <2>2. u[Len(u) - Len(s) + i] = t[j + (Len(u) - Len(s) + i) - 1]
    BY <1>3, <2>1
  <2>3. j + (Len(u) - Len(s) + i) - 1 = k + i - 1 /\ i \in 1 .. n - k + 1
    BY <1>1
  <2>. QED BY <1>2, <2>2, <2>3
<1>5. IsSuffix(s, u)
  <2>1. Len(s) <= Len(u) /\ s \in Seq(X) /\ u \in Seq(X)
    BY <1>1
  <2>. QED BY <1>4, <2>1, SuffixIs
<1>. QED BY <1>5 DEF s, u, n

\* A text is as wide as it was, or wider, after more was typed.
LEMMA WidthGrows ==
  ASSUME NEW s \in Seq(Letters), NEW c \in Seq(Letters)
  PROVE  /\ Width(s) \in Nat
         /\ Width(s) <= Width(s \o c)
<1>0. ASSUME NEW A, NEW B, IsFiniteSet(A), IsFiniteSet(B) PROVE IsFiniteSet(A \X B)
  BY <1>0, FS_Product, Zenon
<1>1. \A t \in Seq(Letters) : IsFiniteSet(Octets(t))
  <2>. SUFFICES ASSUME NEW t \in Seq(Letters) PROVE IsFiniteSet(Octets(t))
    OBVIOUS
  <2>1. IsFiniteSet(1 .. Len(t)) /\ IsFiniteSet(1 .. 4)
    <3>1. 1 \in Int /\ 4 \in Int /\ Len(t) \in Int
      OBVIOUS
    <3>2. \A i, j \in Int : IsFiniteSet(i .. j)
      BY FS_Interval, Zenon
    <3>. QED BY <3>1, <3>2
  <2>2. IsFiniteSet((DOMAIN t) \X (1 .. 4))
    <3>1. DOMAIN t = 1 .. Len(t)
      OBVIOUS
    <3>2. IsFiniteSet((1 .. Len(t)) \X (1 .. 4))
      BY <1>0, <2>1
    <3>. QED BY <3>1, <3>2
  <2>3. Octets(t) \in SUBSET ((DOMAIN t) \X (1 .. 4))
    BY DEF Octets
  <2>. QED BY <2>2, <2>3, FS_Subset
<1>2. \A i \in DOMAIN s : i \in DOMAIN (s \o c) /\ (s \o c)[i] = s[i]
  OBVIOUS
<1>3. Octets(s) \in SUBSET Octets(s \o c)
  BY <1>2 DEF Octets
<1>4. s \o c \in Seq(Letters)
  OBVIOUS
<1>. QED BY <1>1, <1>3, <1>4, FS_CardinalityType, FS_Subset DEF Width

\* Nothing is of no width.
LEMMA WidthOfNothing == Width(<<>>) = 0
<1>1. Octets(<<>>) = {}
  BY DEF Octets
<1>. QED BY <1>1, FS_EmptySet DEF Width

\* The buffer is what was typed from some letter on, and what is gone was too wide.
StartsAt(window, text, k) ==
  /\ k \in 1 .. Len(text) + 1
  /\ window = SubSeq(text, k, Len(text))
  /\ \A j \in 1 .. k - 1 : Width(SubSeq(text, j, Len(text))) > MaxBuffer

RegexAgrees(window, text) ==
  /\ window \in Seq(Letters) /\ text \in Seq(Letters)
  /\ \E k \in 1 .. Len(text) + 1 : StartsAt(window, text, k)

\* Nothing in the buffer agrees with nothing typed.
LEMMA RegexStart == RegexAgrees(<<>>, <<>>)
<1>1. <<>> \in Seq(Letters) /\ Len(<<>>) = 0 /\ SubSeq(<<>>, 1, 0) = <<>> /\ 1 \in 1 .. 0 + 1
  OBVIOUS
<1>. QED BY <1>1 DEF RegexAgrees, StartsAt

\* A part that begins later ends in the same letters.
LEMMA PartGrows ==
  ASSUME NEW t \in Seq(Letters), NEW c \in Seq(Letters), NEW k \in 1 .. Len(t) + 1
  PROVE  SubSeq(t \o c, k, Len(t \o c)) = SubSeq(t, k, Len(t)) \o c
<1>. DEFINE u == t \o c
            a == SubSeq(t, k, Len(t))
            b == SubSeq(u, k, Len(u))
<1>1. /\ u \in Seq(Letters) /\ Len(u) = Len(t) + Len(c) /\ Len(t) \in Nat /\ Len(c) \in Nat
      /\ \A i \in 1 .. Len(t) + Len(c) : u[i] = IF i <= Len(t) THEN t[i] ELSE c[i - Len(t)]
  OBVIOUS
<1>2. /\ a \in Seq(Letters) /\ Len(a) = Len(t) - k + 1
      /\ \A i \in 1 .. Len(t) - k + 1 : a[i] = t[k + i - 1]
  BY <1>1
<1>. HIDE DEF u, a
<1>3. /\ b \in Seq(Letters) /\ Len(b) = Len(u) - k + 1
      /\ \A i \in 1 .. Len(u) - k + 1 : b[i] = u[k + i - 1]
  BY <1>1
<1>. HIDE DEF b
<1>. DEFINE d == a \o c
<1>4. /\ d \in Seq(Letters) /\ Len(d) = Len(a) + Len(c)
      /\ \A i \in 1 .. Len(a) + Len(c) : d[i] = IF i <= Len(a) THEN a[i] ELSE c[i - Len(a)]
  <2>1. a \in Seq(Letters)
    BY <1>2
  <2>. QED BY <2>1, ConcatProperties
<1>. HIDE DEF d
<1>5. Len(b) = Len(d)
  <2>1. /\ Len(b) = Len(u) - k + 1 /\ Len(u) = Len(t) + Len(c)
        /\ Len(d) = Len(a) + Len(c) /\ Len(a) = Len(t) - k + 1
        /\ Len(t) \in Nat /\ Len(c) \in Nat
    BY <1>1, <1>2, <1>3, <1>4, Zenon
  <2>. QED BY <2>1
<1>6. ASSUME NEW i \in 1 .. Len(b) PROVE b[i] = d[i]
  <2>1. CASE i <= Len(a)
    <3>1. d[i] = a[i] /\ a[i] = t[k + i - 1]
      BY <2>1, <1>2, <1>3, <1>4, <1>5
    <3>2. b[i] = u[k + i - 1] /\ k + i - 1 <= Len(t) /\ k + i - 1 \in 1 .. Len(t) + Len(c)
      BY <2>1, <1>1, <1>2, <1>3
    <3>3. u[k + i - 1] = t[k + i - 1]
      BY <3>2, <1>1
    <3>. QED BY <3>1, <3>2, <3>3
  <2>2. CASE i > Len(a)
    <3>1. d[i] = c[i - Len(a)]
      BY <2>2, <1>2, <1>3, <1>4, <1>5
    <3>2. b[i] = u[k + i - 1] /\ k + i - 1 > Len(t) /\ k + i - 1 \in 1 .. Len(t) + Len(c)
      BY <2>2, <1>1, <1>2, <1>3
    <3>3. u[k + i - 1] = c[(k + i - 1) - Len(t)]
      BY <3>2, <1>1
    <3>4. (k + i - 1) - Len(t) = i - Len(a)
      BY <1>1, <1>2
    <3>. QED BY <3>1, <3>2, <3>3, <3>4
  <2>. QED BY <2>1, <2>2, <1>2, <1>3
<1>7. b = d
  BY <1>3, <1>4, <1>5, <1>6, SeqEqual
<1>. QED BY <1>7 DEF a, b, d, u

\* What RegexProcess keeps agrees with what was typed.
LEMMA RegexStep ==
  ASSUME NEW b, NEW t, RegexAgrees(b, t), NEW c \in Seq(Letters),
         MaxBuffer \in Nat
  PROVE  RegexAgrees(IF Width(b \o c) > MaxBuffer THEN Tail(b \o c) ELSE b \o c, t \o c)
<1>. DEFINE u == t \o c
            p == b \o c
<1>1. PICK k \in 1 .. Len(t) + 1 : StartsAt(b, t, k)
  BY DEF RegexAgrees
<1>2. /\ b \in Seq(Letters) /\ t \in Seq(Letters) /\ Len(t) \in Nat /\ Len(c) \in Nat
      /\ u \in Seq(Letters) /\ p \in Seq(Letters) /\ Len(u) = Len(t) + Len(c)
  BY DEF RegexAgrees
<1>3. p = SubSeq(u, k, Len(u))
  BY <1>1, <1>2, PartGrows DEF StartsAt
<1>4. ASSUME NEW j \in 1 .. k - 1 PROVE Width(SubSeq(u, j, Len(u))) > MaxBuffer
  <2>1. j \in 1 .. Len(t) + 1
    BY <1>2
  <2>2. SubSeq(u, j, Len(u)) = SubSeq(t, j, Len(t)) \o c
    BY <1>2, <2>1, PartGrows
  <2>3. SubSeq(t, j, Len(t)) \in Seq(Letters)
    BY <1>2, <2>1
  <2>4. Width(SubSeq(t, j, Len(t))) > MaxBuffer
    BY <1>1 DEF StartsAt
  <2>5. /\ Width(SubSeq(t, j, Len(t))) \in Nat
        /\ Width(SubSeq(t, j, Len(t))) <= Width(SubSeq(t, j, Len(t)) \o c)
    BY <2>3, WidthGrows
  <2>6. Width(SubSeq(t, j, Len(t)) \o c) \in Nat
    <3>1. SubSeq(t, j, Len(t)) \o c \in Seq(Letters)
      BY <2>3
    <3>. QED BY <3>1, WidthGrows
  <2>. QED BY <2>2, <2>4, <2>5, <2>6
<1>. HIDE DEF u, p
<1>5. CASE Width(p) > MaxBuffer
  <2>1. p # <<>>
    BY <1>5, WidthOfNothing
  <2>2. k <= Len(u)
    BY <1>2, <1>3, <2>1
  <2>3. Tail(p) = SubSeq(u, k + 1, Len(u)) /\ Tail(p) \in Seq(Letters)
    <3>1. k \in 1 .. Len(u) /\ Len(u) \in k .. Len(u)
      BY <1>2, <2>2
    <3>. QED BY <1>2, <1>3, <2>1, <3>1, HeadTailOfSubSeq
  <2>4. \A j \in 1 .. (k + 1) - 1 : Width(SubSeq(u, j, Len(u))) > MaxBuffer
    <3>. SUFFICES ASSUME NEW j \in 1 .. k PROVE Width(SubSeq(u, j, Len(u))) > MaxBuffer
      OBVIOUS
    <3>1. CASE j = k
      BY <1>3, <1>5, <3>1
    <3>2. CASE j < k
      <4>1. j \in 1 .. k - 1
        BY <3>2
      <4>. QED BY <1>4, <4>1 DEF u
    <3>. QED BY <3>1, <3>2
  <2>5. k + 1 \in 1 .. Len(u) + 1
    BY <1>2, <2>2
  <2>6. StartsAt(Tail(p), u, k + 1)
    BY <2>3, <2>4, <2>5 DEF StartsAt
  <2>7. RegexAgrees(Tail(p), u)
    BY <1>2, <2>3, <2>5, <2>6 DEF RegexAgrees
  <2>. QED BY <1>5, <2>7 DEF u, p
<1>6. CASE ~(Width(p) > MaxBuffer)
  <2>1. k \in 1 .. Len(u) + 1
    BY <1>2
  <2>2. StartsAt(p, u, k)
    BY <1>3, <1>4, <2>1 DEF StartsAt, u
  <2>3. RegexAgrees(p, u)
    BY <1>2, <2>1, <2>2 DEF RegexAgrees
  <2>. QED BY <1>6, <2>3 DEF u, p
<1>. QED BY <1>5, <1>6 DEF u, p

\* That is what RegexWindow promises.
LEMMA RegexAgreesWindow ==
  ASSUME NEW b, NEW t, RegexAgrees(b, t), MaxBuffer \in Nat
  PROVE  /\ IsSuffix(b, t)
         /\ \A k \in 1 .. Len(t) + 1 :
              LET recent == SubSeq(t, k, Len(t))
              IN  Width(recent) <= MaxBuffer => IsSuffix(recent, b)
<1>1. PICK j \in 1 .. Len(t) + 1 : StartsAt(b, t, j)
  BY DEF RegexAgrees
<1>2. t \in Seq(Letters) /\ Len(t) \in Nat /\ b = SubSeq(t, j, Len(t))
  BY <1>1 DEF RegexAgrees, StartsAt
<1>3. IsSuffix(b, t)
  <2>1. 1 \in 1 .. Len(t) + 1 /\ j \in 1 .. Len(t) + 1 /\ SubSeq(t, 1, Len(t)) = t
    BY <1>2
  <2>. QED BY <1>2, <2>1, PartIsSuffix
<1>4. ASSUME NEW k \in 1 .. Len(t) + 1, Width(SubSeq(t, k, Len(t))) <= MaxBuffer
      PROVE  IsSuffix(SubSeq(t, k, Len(t)), b)
  <2>1. SubSeq(t, k, Len(t)) \in Seq(Letters)
    BY <1>2
  <2>2. Width(SubSeq(t, k, Len(t))) \in Nat
    BY <2>1, WidthGrows
  <2>3. ~(k \in 1 .. j - 1)
    BY <1>1, <1>4, <2>2 DEF StartsAt
  <2>4. k \in j .. Len(t) + 1
    BY <1>2, <2>3
  <2>. QED BY <1>2, <2>4, PartIsSuffix
<1>. QED BY <1>3, <1>4

-----------------------------------------------------------------------------
(* The steps of the rolling matcher: what it finds below a position.        *)

Ref == [at : Seq(Item), separator : BOOLEAN]
Heard == [event : Inputs, separator : BOOLEAN]
Path == [at : Seq(Item), events : Seq(Heard)]

\* There is something at a position or below it.
Alive(at) == IsLeaf(at) \/ IsNode(at)

RefOf(p, item) == [at |-> Append(p, item), separator |-> item = WordSeparator]

\* The node below a position, at an item.
LEMMA RefOfIs ==
  ASSUME NEW p \in Seq(Item), NEW item \in Item
  PROVE  /\ RefOf(p, item) \in Ref
         /\ RefOf(p, item).at = Append(p, item)
         /\ RefOf(p, item).separator <=> item = WordSeparator
<1>1. Append(p, item) \in Seq(Item) /\ (item = WordSeparator) \in BOOLEAN
  OBVIOUS
<1>. QED BY <1>1 DEF RefOf, Ref

\* The children an event leads to are those whose items accept it.
LEMMA AcceptedAre ==
  ASSUME NEW e \in Inputs
  PROVE  /\ Accepted(e) \in Seq(Item)
         /\ \A item \in Item : item \in ToSet(Accepted(e)) <=> Consumes(e, item)
<1>. DEFINE key == IF e.kind = "key" THEN <<[kind |-> "key", of |-> e.key]>> ELSE <<>>
            chars == IF e.chars # <<>>
                     THEN <<[kind |-> "char", of |-> e.chars],
                            [kind |-> "insensitive", of |-> Fold(e.chars)]>>
                     ELSE <<>>
            space == IF IsWordSeparator(e) THEN <<WordSeparator>> ELSE <<>>
<1>1. e.chars \in Seq(Letters) /\ (e.kind = "key" => e.key \in KeyNames)
  BY MatchingAssumption DEF MatchingAssumption
<1>2. Fold(e.chars) \in Seq(Letters) /\ Len(Fold(e.chars)) = Len(e.chars)
  BY <1>1, MatchingAssumption DEF MatchingAssumption, Fold
<1>3. /\ key \in Seq(Item)
      /\ \A item : item \in ToSet(key) <=> e.kind = "key" /\ item = [kind |-> "key", of |-> e.key]
  <2>1. CASE e.kind = "key"
    <3>1. [kind |-> "key", of |-> e.key] \in Item
      BY <1>1, <2>1 DEF Item
    <3>. QED BY <2>1, <3>1 DEF ToSet
  <2>2. CASE e.kind # "key"
    BY <2>2 DEF ToSet
  <2>. QED BY <2>1, <2>2
<1>4. /\ chars \in Seq(Item)
      /\ \A item : item \in ToSet(chars) <=>
           e.chars # <<>> /\ item \in {[kind |-> "char", of |-> e.chars],
                                       [kind |-> "insensitive", of |-> Fold(e.chars)]}
  <2>1. CASE e.chars # <<>>
    <3>1. Fold(e.chars) # <<>>
      BY <1>1, <1>2, <2>1
    <3>2. /\ [kind |-> "char", of |-> e.chars] \in Item
          /\ [kind |-> "insensitive", of |-> Fold(e.chars)] \in Item
      BY <1>1, <1>2, <2>1, <3>1 DEF Item
    <3>3. \A a, b : ToSet(<<a, b>>) = {a, b}
      BY DEF ToSet
    <3>. HIDE DEF chars
    <3>4. chars = <<[kind |-> "char", of |-> e.chars],
                    [kind |-> "insensitive", of |-> Fold(e.chars)]>>
      BY <2>1 DEF chars
    <3>5. \A a, b \in Item : <<a, b>> \in Seq(Item)
      OBVIOUS
    <3>. QED BY <2>1, <3>2, <3>3, <3>4, <3>5
  <2>2. CASE e.chars = <<>>
    BY <2>2 DEF ToSet
  <2>. QED BY <2>1, <2>2
<1>5. /\ space \in Seq(Item)
      /\ \A item : item \in ToSet(space) <=> IsWordSeparator(e) /\ item = WordSeparator
  <2>1. CASE IsWordSeparator(e)
    <3>1. WordSeparator \in Item
      BY DEF Item, WordSeparator
    <3>. QED BY <2>1, <3>1 DEF ToSet
  <2>2. CASE ~IsWordSeparator(e)
    BY <2>2 DEF ToSet
  <2>. QED BY <2>1, <2>2
<1>6. Accepted(e) = key \o chars \o space
  BY DEF Accepted
<1>. HIDE DEF key, chars, space
<1>7. \A a, b \in Seq(Item) : a \o b \in Seq(Item) /\ ToSet(a \o b) = ToSet(a) \cup ToSet(b)
  BY ToSetConcat
<1>8. /\ Accepted(e) \in Seq(Item)
      /\ ToSet(Accepted(e)) = ToSet(key) \cup ToSet(chars) \cup ToSet(space)
  <2>1. key \o chars \in Seq(Item) /\ ToSet(key \o chars) = ToSet(key) \cup ToSet(chars)
    BY <1>3, <1>4, <1>7
  <2>. DEFINE front == key \o chars
  <2>. HIDE DEF front
  <2>2. front \o space \in Seq(Item) /\ ToSet(front \o space) = ToSet(front) \cup ToSet(space)
    BY <1>5, <1>7, <2>1 DEF front
  <2>. QED BY <1>6, <2>1, <2>2 DEF front
<1>9. ASSUME NEW item \in Item
      PROVE  item \in ToSet(Accepted(e)) <=> Consumes(e, item)
  <2>1. /\ item \in ToSet(key) <=> e.kind = "key" /\ item.kind = "key" /\ item.of = e.key
    BY <1>3 DEF Item
  <2>2. item \in ToSet(chars) <=> \/ item.kind = "char" /\ item.of = e.chars
                                  \/ item.kind = "insensitive" /\ item.of = Fold(e.chars)
    <3>1. e.chars = <<>> => Fold(e.chars) = <<>>
      BY <1>1, <1>2
    <3>2. item.kind \in {"char", "insensitive"} => item.of # <<>>
      BY DEF Item
    <3>3. item = [kind |-> "char", of |-> e.chars] <=> item.kind = "char" /\ item.of = e.chars
      BY DEF Item
    <3>4. item = [kind |-> "insensitive", of |-> Fold(e.chars)]
            <=> item.kind = "insensitive" /\ item.of = Fold(e.chars)
      BY DEF Item
    <3>. QED BY <1>4, <3>1, <3>2, <3>3, <3>4
  <2>3. item \in ToSet(space) <=> IsWordSeparator(e) /\ item.kind = "separator"
    BY <1>5 DEF Item, WordSeparator
  <2>. QED BY <1>8, <2>1, <2>2, <2>3 DEF Consumes
<1>. QED BY <1>8, <1>9

\* The nodes below a position that an event leads to.
LEMMA ChildrenAre ==
  ASSUME NEW e \in Inputs, NEW p \in Seq(Item)
  PROVE  /\ Children(p, e) \in Seq(Ref)
         /\ \A c : c \in ToSet(Children(p, e)) <=>
              \E item \in Item : /\ Consumes(e, item)
                                 /\ Alive(Append(p, item))
                                 /\ c = RefOf(p, item)
<1>. DEFINE all == [i \in DOMAIN Accepted(e) |-> RefOf(p, Accepted(e)[i])]
            kept == [i \in DOMAIN all |-> IF IsLeaf(all[i].at) \/ IsNode(all[i].at)
                                          THEN <<all[i]>> ELSE <<>>]
<1>1. Children(p, e) = FlattenSeq(kept)
  BY DEF Children, RefOf
<1>2. /\ Accepted(e) \in Seq(Item)
      /\ \A item \in Item : item \in ToSet(Accepted(e)) <=> Consumes(e, item)
  BY AcceptedAre
<1>3. \A i \in DOMAIN Accepted(e) : RefOf(p, Accepted(e)[i]) \in Ref
  BY <1>2, RefOfIs
<1>4. all \in Seq(Ref) /\ DOMAIN all = DOMAIN Accepted(e)
  BY <1>2, <1>3
<1>5. \A i \in DOMAIN Accepted(e) : all[i] = RefOf(p, Accepted(e)[i])
  OBVIOUS
<1>. HIDE DEF all
<1>6. \A i \in DOMAIN all : kept[i] = IF Alive(all[i].at) THEN <<all[i]>> ELSE <<>>
  BY DEF Alive
<1>7. kept \in Seq(Seq(Ref)) /\ DOMAIN kept = DOMAIN all
  <2>1. \A i \in DOMAIN all : <<all[i]>> \in Seq(Ref) /\ <<>> \in Seq(Ref)
    BY <1>4
  <2>2. \A i \in DOMAIN all : kept[i] \in Seq(Ref)
    BY <1>6, <2>1
  <2>3. DOMAIN kept = DOMAIN all /\ kept = [i \in DOMAIN all |-> kept[i]]
    OBVIOUS
  <2>. HIDE DEF kept
  <2>. QED BY <1>4, <2>2, <2>3
<1>. HIDE DEF kept
<1>8. FlattenSeq(kept) \in Seq(Ref)
  BY <1>7, FlattenType
<1>9. ToSet(FlattenSeq(kept)) = UNION {ToSet(kept[i]) : i \in DOMAIN kept}
  BY <1>7, FlattenElements
<1>10. \A i \in DOMAIN all : ToSet(kept[i]) = IF Alive(all[i].at) THEN {all[i]} ELSE {}
  <2>1. \A x : ToSet(<<x>>) = {x}
    BY DEF ToSet
  <2>2. ToSet(<<>>) = {}
    BY DEF ToSet
  <2>. SUFFICES ASSUME NEW i \in DOMAIN all
                PROVE  ToSet(kept[i]) = IF Alive(all[i].at) THEN {all[i]} ELSE {}
    OBVIOUS
  <2>3. CASE Alive(all[i].at)
    BY <1>6, <2>1, <2>3
  <2>4. CASE ~Alive(all[i].at)
    BY <1>6, <2>2, <2>4
  <2>. QED BY <2>3, <2>4
<1>11. \A c : c \in ToSet(FlattenSeq(kept)) <=> \E i \in DOMAIN all : Alive(all[i].at) /\ c = all[i]
  <2>1. ASSUME NEW c, c \in ToSet(FlattenSeq(kept))
        PROVE  \E i \in DOMAIN all : Alive(all[i].at) /\ c = all[i]
    <3>1. PICK i \in DOMAIN all : c \in ToSet(kept[i])
      BY <1>7, <1>9, <2>1, Zenon
    <3>. QED BY <1>10, <3>1
  <2>2. ASSUME NEW i \in DOMAIN all, Alive(all[i].at)
        PROVE  all[i] \in ToSet(FlattenSeq(kept))
    <3>1. all[i] \in ToSet(kept[i])
      BY <1>10, <2>2
    <3>. QED BY <1>7, <1>9, <3>1, Zenon
  <2>. QED BY <2>1, <2>2, Zenon
<1>12. ASSUME NEW c, c \in ToSet(FlattenSeq(kept))
       PROVE  \E item \in Item : Consumes(e, item) /\ Alive(Append(p, item)) /\ c = RefOf(p, item)
  <2>1. PICK i \in DOMAIN all : Alive(all[i].at) /\ c = all[i]
    BY <1>11, <1>12
  <2>2. Accepted(e)[i] \in Item /\ Accepted(e)[i] \in ToSet(Accepted(e))
    BY <1>2, <1>4 DEF ToSet
  <2>3. c = RefOf(p, Accepted(e)[i]) /\ Alive(Append(p, Accepted(e)[i]))
    BY <1>4, <1>5, <2>1, <2>2, RefOfIs
  <2>4. Consumes(e, Accepted(e)[i])
    BY <1>2, <2>2
  <2>. QED BY <2>2, <2>3, <2>4
<1>13. ASSUME NEW c, NEW item \in Item, Consumes(e, item), Alive(Append(p, item)), c = RefOf(p, item)
       PROVE  c \in ToSet(FlattenSeq(kept))
  <2>1. item \in ToSet(Accepted(e))
    BY <1>2, <1>13
  <2>2. PICK i \in DOMAIN Accepted(e) : Accepted(e)[i] = item
    BY <2>1 DEF ToSet
  <2>3. i \in DOMAIN all /\ all[i] = c /\ Alive(all[i].at)
    BY <1>4, <1>5, <1>13, <2>2, RefOfIs
  <2>. QED BY <1>11, <2>3
<1>. QED BY <1>1, <1>8, <1>12, <1>13

\* The nodes below a position, also behind the separator that the unknown text
\* before may be.
LEMMA FindRefsAre ==
  ASSUME NEW e \in Inputs, NEW p \in Seq(Item), NEW has \in BOOLEAN
  PROVE  /\ FindRefs(p, e, has) \in Seq(Ref)
         /\ \A c : c \in ToSet(FindRefs(p, e, has)) <=>
              \/ c \in ToSet(Children(p, e))
              \/ /\ ~has /\ IsNode(Append(p, WordSeparator))
                 /\ c \in ToSet(Children(Append(p, WordSeparator), e))
<1>. DEFINE behind == IF ~has /\ IsNode(Append(p, WordSeparator))
                      THEN Children(Append(p, WordSeparator), e) ELSE <<>>
<1>1. Append(p, WordSeparator) \in Seq(Item)
  <2>1. WordSeparator \in Item
    BY DEF Item, WordSeparator
  <2>. QED BY <2>1
<1>2. Children(p, e) \in Seq(Ref) /\ Children(Append(p, WordSeparator), e) \in Seq(Ref)
  BY <1>1, ChildrenAre
<1>3. behind \in Seq(Ref)
  BY <1>2
<1>4. \A c : c \in ToSet(behind) <=> /\ ~has /\ IsNode(Append(p, WordSeparator))
                                     /\ c \in ToSet(Children(Append(p, WordSeparator), e))
  <2>1. ToSet(<<>>) = {}
    BY DEF ToSet
  <2>. QED BY <2>1
<1>5. FindRefs(p, e, has) = Children(p, e) \o behind
  BY DEF FindRefs
<1>. HIDE DEF behind
<1>6. ToSet(Children(p, e) \o behind) = ToSet(Children(p, e)) \cup ToSet(behind)
  BY <1>2, <1>3, ToSetConcat
<1>7. Children(p, e) \o behind \in Seq(Ref)
  BY <1>2, <1>3
<1>. QED BY <1>4, <1>5, <1>6, <1>7

HeardOf(e, separator) == [event |-> e, separator |-> separator]
PathOf(events, c, e) == [at |-> c.at, events |-> Append(events, HeardOf(e, c.separator))]

\* A partial match with one more event.
LEMMA PathOfIs ==
  ASSUME NEW e \in Inputs, NEW events \in Seq(Heard), NEW c \in Ref
  PROVE  /\ PathOf(events, c, e) \in Path
         /\ PathOf(events, c, e).at = c.at
         /\ PathOf(events, c, e).events = Append(events, HeardOf(e, c.separator))
         /\ HeardOf(e, c.separator) \in Heard
         /\ HeardOf(e, c.separator).event = e
         /\ HeardOf(e, c.separator).separator = c.separator
         /\ Len(PathOf(events, c, e).events) = Len(events) + 1
<1>1. HeardOf(e, c.separator) \in Heard
  BY DEF HeardOf, Heard, Ref
<1>2. HeardOf(e, c.separator).event = e /\ HeardOf(e, c.separator).separator = c.separator
  BY DEF HeardOf
<1>3. /\ Append(events, HeardOf(e, c.separator)) \in Seq(Heard)
      /\ Len(Append(events, HeardOf(e, c.separator))) = Len(events) + 1
  BY <1>1
<1>4. c.at \in Seq(Item)
  BY DEF Ref
<1>5. PathOf(events, c, e) \in Path
  BY <1>3, <1>4 DEF PathOf, Path
<1>. QED BY <1>1, <1>2, <1>3, <1>5 DEF PathOf

\* A partial match goes on to each node that was found.
LEMMA ExtendIs ==
  ASSUME NEW e \in Inputs, NEW events \in Seq(Heard), NEW refs \in Seq(Ref)
  PROVE  /\ Extend(events, refs, e) \in Seq(Path)
         /\ \A q : q \in ToSet(Extend(events, refs, e)) <=>
              \E c \in ToSet(refs) : q = PathOf(events, c, e)
<1>. DEFINE all == [i \in DOMAIN refs |-> PathOf(events, refs[i], e)]
<1>1. Extend(events, refs, e) = all
  BY DEF Extend, PathOf, HeardOf
<1>2. \A i \in DOMAIN refs : refs[i] \in Ref
  OBVIOUS
<1>3. \A i \in DOMAIN refs : PathOf(events, refs[i], e) \in Path
  BY <1>2, PathOfIs
<1>4. all \in Seq(Path) /\ DOMAIN all = DOMAIN refs
  BY <1>3
<1>5. \A i \in DOMAIN refs : all[i] = PathOf(events, refs[i], e)
  OBVIOUS
<1>. HIDE DEF all
<1>6. \A q : q \in ToSet(all) <=> \E c \in ToSet(refs) : q = PathOf(events, c, e)
  BY <1>4, <1>5, Zenon DEF ToSet
<1>. QED BY <1>1, <1>4, <1>6

\* The partial matches after an event, before one that arrived is looked for.
NextPaths(paths, has, e) ==
  FlattenSeq([i \in DOMAIN paths |-> Extend(paths[i].events, FindRefs(paths[i].at, e, TRUE), e)])
  \o Extend(<<>>, FindRefs(<<>>, e, has), e)

Longest(paths) ==
  \A i, j \in 1 .. Len(paths) : i <= j => Len(paths[j].events) <= Len(paths[i].events)

\* The partial matches after an event: those before, one step on, and those that
\* begin with it; the longest stay in front.
LEMMA NextAre ==
  ASSUME NEW e \in Inputs, NEW paths \in Seq(Path), NEW has \in BOOLEAN
  PROVE  /\ NextPaths(paths, has, e) \in Seq(Path)
         /\ \A q : q \in ToSet(NextPaths(paths, has, e)) <=>
              \/ \E i \in 1 .. Len(paths) : \E c \in ToSet(Children(paths[i].at, e)) :
                    q = PathOf(paths[i].events, c, e)
              \/ \E c \in ToSet(FindRefs(<<>>, e, has)) : q = PathOf(<<>>, c, e)
         /\ Longest(paths) => Longest(NextPaths(paths, has, e))
<1>. DEFINE Old(i) == Extend(paths[i].events, FindRefs(paths[i].at, e, TRUE), e)
            pieces == [i \in DOMAIN paths |-> Old(i)]
            old == FlattenSeq(pieces)
            new == Extend(<<>>, FindRefs(<<>>, e, has), e)
            next == old \o new
<1>1. \A i \in 1 .. Len(paths) : paths[i].at \in Seq(Item) /\ paths[i].events \in Seq(Heard)
  <2>1. \A i \in 1 .. Len(paths) : paths[i] \in Path
    OBVIOUS
  <2>. QED BY <2>1 DEF Path
<1>2. \A i \in 1 .. Len(paths) : FindRefs(paths[i].at, e, TRUE) \in Seq(Ref)
  BY <1>1, FindRefsAre
<1>3. \A i \in 1 .. Len(paths) : \A c : c \in ToSet(FindRefs(paths[i].at, e, TRUE))
                                         <=> c \in ToSet(Children(paths[i].at, e))
  BY <1>1, FindRefsAre
<1>4. \A i \in 1 .. Len(paths) :
        /\ Old(i) \in Seq(Path)
        /\ \A q : q \in ToSet(Old(i)) <=>
             \E c \in ToSet(Children(paths[i].at, e)) : q = PathOf(paths[i].events, c, e)
  <2>. SUFFICES ASSUME NEW i \in 1 .. Len(paths)
                PROVE  /\ Old(i) \in Seq(Path)
                       /\ \A q : q \in ToSet(Old(i)) <=>
                            \E c \in ToSet(Children(paths[i].at, e)) :
                              q = PathOf(paths[i].events, c, e)
    OBVIOUS
  <2>1. /\ Old(i) \in Seq(Path)
        /\ \A q : q \in ToSet(Old(i)) <=>
             \E c \in ToSet(FindRefs(paths[i].at, e, TRUE)) : q = PathOf(paths[i].events, c, e)
    BY <1>1, <1>2, ExtendIs
  <2>. QED BY <1>3, <2>1, Zenon
<1>5. /\ new \in Seq(Path)
      /\ \A q : q \in ToSet(new) <=> \E c \in ToSet(FindRefs(<<>>, e, has)) : q = PathOf(<<>>, c, e)
  <2>1. <<>> \in Seq(Item) /\ <<>> \in Seq(Heard)
    OBVIOUS
  <2>2. FindRefs(<<>>, e, has) \in Seq(Ref)
    BY <2>1, FindRefsAre
  <2>. QED BY <2>1, <2>2, ExtendIs
<1>6. next = NextPaths(paths, has, e)
  BY DEF NextPaths
<1>7. /\ pieces \in Seq(Seq(Path)) /\ Len(pieces) = Len(paths) /\ DOMAIN pieces = 1 .. Len(paths)
      /\ \A i \in 1 .. Len(paths) : pieces[i] = Old(i)
  <2>. HIDE DEF Old
  <2>1. DOMAIN paths = 1 .. Len(paths) /\ Len(paths) \in Nat
    OBVIOUS
  <2>. QED BY <1>4, <2>1
<1>. HIDE DEF pieces
<1>8. /\ old \in Seq(Path)
      /\ ToSet(old) = UNION {ToSet(pieces[i]) : i \in DOMAIN pieces}
  BY <1>7, FlattenType, FlattenElements
<1>9. PICK f \in [1 .. Len(old) -> 1 .. Len(paths)] :
         /\ \A t \in 1 .. Len(old) : old[t] \in ToSet(pieces[f[t]])
         /\ \A t, u \in 1 .. Len(old) : t <= u => f[t] <= f[u]
  <2>1. \E g \in [1 .. Len(FlattenSeq(pieces)) -> 1 .. Len(pieces)] :
            /\ \A t \in 1 .. Len(FlattenSeq(pieces)) : FlattenSeq(pieces)[t] \in ToSet(pieces[g[t]])
            /\ \A t, u \in 1 .. Len(FlattenSeq(pieces)) : t <= u => g[t] <= g[u]
    BY <1>7, FlattenPlaces
  <2>. QED BY <1>7, <2>1
<1>. HIDE DEF old, new, next
<1>10. \A q : q \in ToSet(old) <=>
          \E i \in 1 .. Len(paths) : \E c \in ToSet(Children(paths[i].at, e)) :
             q = PathOf(paths[i].events, c, e)
  <2>1. \A q : q \in ToSet(old) <=> \E i \in 1 .. Len(paths) : q \in ToSet(pieces[i])
    BY <1>7, <1>8, Zenon
  <2>. HIDE DEF Old
  <2>2. \A i \in 1 .. Len(paths) : \A q : q \in ToSet(pieces[i]) <=>
             \E c \in ToSet(Children(paths[i].at, e)) : q = PathOf(paths[i].events, c, e)
    BY <1>4, <1>7, Zenon
  <2>. SUFFICES ASSUME NEW q
                PROVE  q \in ToSet(old) <=>
                         \E i \in 1 .. Len(paths) : \E c \in ToSet(Children(paths[i].at, e)) :
                            q = PathOf(paths[i].events, c, e)
    OBVIOUS
  <2>3. ASSUME q \in ToSet(old)
        PROVE  \E i \in 1 .. Len(paths) : \E c \in ToSet(Children(paths[i].at, e)) :
                  q = PathOf(paths[i].events, c, e)
    <3>1. PICK i \in 1 .. Len(paths) : q \in ToSet(pieces[i])
      BY <2>1, <2>3
    <3>. QED BY <2>2, <3>1, Zenon
  <2>4. ASSUME NEW i \in 1 .. Len(paths), NEW c \in ToSet(Children(paths[i].at, e)),
               q = PathOf(paths[i].events, c, e)
        PROVE  q \in ToSet(old)
    <3>1. q \in ToSet(pieces[i])
      BY <2>2, <2>4, Zenon
    <3>. QED BY <2>1, <3>1
  <2>. QED BY <2>3, <2>4, Zenon
<1>11. next \in Seq(Path) /\ ToSet(next) = ToSet(old) \cup ToSet(new)
  BY <1>5, <1>8, ToSetConcat DEF next
<1>12. ASSUME Longest(paths) PROVE Longest(next)
  <2>1. \A t \in 1 .. Len(old) : Len(old[t].events) = Len(paths[f[t]].events) + 1
    <3>. SUFFICES ASSUME NEW t \in 1 .. Len(old)
                  PROVE  Len(old[t].events) = Len(paths[f[t]].events) + 1
      OBVIOUS
    <3>1. f[t] \in 1 .. Len(paths) /\ old[t] \in ToSet(pieces[f[t]])
      BY <1>9
    <3>. HIDE DEF Old
    <3>2. PICK c \in ToSet(Children(paths[f[t]].at, e)) : old[t] = PathOf(paths[f[t]].events, c, e)
      BY <1>4, <1>7, <3>1, Zenon
    <3>3. Children(paths[f[t]].at, e) \in Seq(Ref) /\ paths[f[t]].events \in Seq(Heard)
      BY <1>1, <3>1, ChildrenAre
    <3>4. c \in Ref
      BY <3>3 DEF ToSet
    <3>. QED BY <3>2, <3>3, <3>4, PathOfIs
  <2>2. \A t \in 1 .. Len(new) : Len(new[t].events) = 1
    <3>. SUFFICES ASSUME NEW t \in 1 .. Len(new) PROVE Len(new[t].events) = 1
      OBVIOUS
    <3>1. new[t] \in ToSet(new)
      BY <1>5 DEF ToSet
    <3>2. PICK c \in ToSet(FindRefs(<<>>, e, has)) : new[t] = PathOf(<<>>, c, e)
      BY <1>5, <3>1
    <3>3. <<>> \in Seq(Item) /\ <<>> \in Seq(Heard) /\ Len(<<>>) = 0
      OBVIOUS
    <3>4. FindRefs(<<>>, e, has) \in Seq(Ref)
      BY <3>3, FindRefsAre
    <3>5. c \in Ref
      BY <3>4 DEF ToSet
    <3>6. Len(PathOf(<<>>, c, e).events) = 0 + 1
      BY <3>3, <3>5, PathOfIs
    <3>. QED BY <3>2, <3>6
  <2>3. /\ Len(next) = Len(old) + Len(new) /\ Len(old) \in Nat /\ Len(new) \in Nat
        /\ \A t \in 1 .. Len(old) + Len(new) :
             next[t] = IF t <= Len(old) THEN old[t] ELSE new[t - Len(old)]
    BY <1>5, <1>8, ConcatProperties DEF next
  <2>4. \A t \in 1 .. Len(old) : next[t] = old[t]
    BY <2>3
  <2>5. \A t \in 1 .. Len(next) : t > Len(old) => Len(next[t].events) = 1
    <3>. SUFFICES ASSUME NEW t \in 1 .. Len(next), t > Len(old) PROVE Len(next[t].events) = 1
      OBVIOUS
    <3>1. t - Len(old) \in 1 .. Len(new) /\ next[t] = new[t - Len(old)]
      BY <2>3
    <3>. QED BY <2>2, <3>1
  <2>. SUFFICES ASSUME NEW t \in 1 .. Len(next), NEW u \in 1 .. Len(next), t <= u
                PROVE  Len(next[u].events) <= Len(next[t].events)
    BY DEF Longest
  <2>6. CASE u <= Len(old)
    <3>1. t \in 1 .. Len(old) /\ u \in 1 .. Len(old)
      BY <2>3, <2>6
    <3>2. f[t] \in 1 .. Len(paths) /\ f[u] \in 1 .. Len(paths) /\ f[t] <= f[u]
      BY <1>9, <3>1
    <3>3. Len(paths[f[u]].events) <= Len(paths[f[t]].events)
      BY <1>12, <3>2 DEF Longest
    <3>4. Len(paths[f[u]].events) \in Nat /\ Len(paths[f[t]].events) \in Nat
      <4>1. \A i \in 1 .. Len(paths) : paths[i].events \in Seq(Heard)
        BY <1>1
      <4>2. paths[f[u]].events \in Seq(Heard) /\ paths[f[t]].events \in Seq(Heard)
        BY <3>2, <4>1, Zenon
      <4>. QED BY <4>2
    <3>5. /\ Len(next[t].events) = Len(paths[f[t]].events) + 1
          /\ Len(next[u].events) = Len(paths[f[u]].events) + 1
      BY <2>1, <2>4, <3>1
    <3>. QED BY <3>3, <3>4, <3>5
  <2>7. CASE u > Len(old) /\ t <= Len(old)
    <3>1. t \in 1 .. Len(old)
      BY <2>3, <2>7
    <3>2. Len(next[t].events) = Len(paths[f[t]].events) + 1 /\ f[t] \in 1 .. Len(paths)
      BY <1>9, <2>1, <2>4, <3>1
    <3>3. Len(paths[f[t]].events) \in Nat
      BY <1>1, <3>2
    <3>4. Len(next[u].events) = 1
      BY <2>5, <2>7
    <3>. QED BY <3>2, <3>3, <3>4
  <2>8. CASE t > Len(old)
    <3>1. u > Len(old)
      BY <2>3, <2>8
    <3>. QED BY <2>5, <2>8, <3>1
  <2>. QED BY <2>3, <2>6, <2>7, <2>8
<1>13. \A q : q \in ToSet(next) <=>
              \/ \E i \in 1 .. Len(paths) : \E c \in ToSet(Children(paths[i].at, e)) :
                    q = PathOf(paths[i].events, c, e)
              \/ \E c \in ToSet(FindRefs(<<>>, e, has)) : q = PathOf(<<>>, c, e)
  BY <1>5, <1>10, <1>11, Zenon
<1>. QED BY <1>6, <1>11, <1>12, <1>13, Zenon

-----------------------------------------------------------------------------
(* What the partial matches say of the events since the last match.         *)

\* The events from the k-th on lead to a position; with d = 1 the position begins
\* with a separator, and the unknown text before the first event stands for it.
Spells(at, k, d, since, fresh) ==
  /\ Len(at) = Len(since) - k + 1 + d
  /\ \A j \in 1 .. Len(since) - k + 1 : Consumes(since[k + j - 1], at[j + d])
  /\ d = 1 => fresh /\ k = 1 /\ at[1] = WordSeparator

\* A partial match holds those events, and knows which of them were separators.
Came(p, k, d, since, fresh) ==
  /\ Spells(p.at, k, d, since, fresh)
  /\ Len(p.events) = Len(since) - k + 1
  /\ \A j \in 1 .. Len(since) - k + 1 :
       /\ p.events[j].event = since[k + j - 1]
       /\ p.events[j].separator <=> p.at[j + d] = WordSeparator

\* The partial matches are the positions of the tree that the last events lead to,
\* those that began first in front.
Exact(paths, since, fresh) ==
  /\ \A q \in ToSet(paths) :
       Alive(q.at) /\ \E k \in 1 .. Len(since), d \in 0 .. 1 : Came(q, k, d, since, fresh)
  /\ \A at \in Seq(Item), k \in 1 .. Len(since), d \in 0 .. 1 :
       Spells(at, k, d, since, fresh) /\ Alive(at) =>
         \E q \in ToSet(paths) : q.at = at /\ Len(q.events) = Len(since) - k + 1
  /\ Longest(paths)

\* One more event leads one item on.
LEMMA CameAppend ==
  ASSUME NEW p \in Path, NEW since \in Seq(Inputs), NEW fresh \in BOOLEAN, NEW e \in Inputs,
         NEW k \in 1 .. Len(since) + 1, NEW d \in 0 .. 1, Came(p, k, d, since, fresh),
         NEW item \in Item, Consumes(e, item)
  PROVE  Came(PathOf(p.events, RefOf(p.at, item), e), k, d, Append(since, e), fresh)
<1>. DEFINE q == PathOf(p.events, RefOf(p.at, item), e)
            h == HeardOf(e, RefOf(p.at, item).separator)
            n == Len(since)
            m == n - k + 1
            now == Append(since, e)
<1>1. p.at \in Seq(Item) /\ p.events \in Seq(Heard)
  BY DEF Path
<1>2. /\ RefOf(p.at, item) \in Ref
      /\ RefOf(p.at, item).at = Append(p.at, item)
      /\ RefOf(p.at, item).separator <=> item = WordSeparator
  BY <1>1, RefOfIs
<1>3. /\ q.at = Append(p.at, item) /\ q.events = Append(p.events, h)
      /\ h \in Heard /\ h.event = e /\ (h.separator <=> item = WordSeparator)
  <2>. DEFINE c == RefOf(p.at, item)
  <2>. HIDE DEF c
  <2>1. c \in Ref /\ c.at = Append(p.at, item) /\ (c.separator <=> item = WordSeparator)
    BY <1>2 DEF c
  <2>2. /\ PathOf(p.events, c, e).at = c.at
        /\ PathOf(p.events, c, e).events = Append(p.events, HeardOf(e, c.separator))
        /\ HeardOf(e, c.separator) \in Heard
        /\ HeardOf(e, c.separator).event = e
        /\ HeardOf(e, c.separator).separator = c.separator
    BY <1>1, <2>1, PathOfIs
  <2>3. q = PathOf(p.events, c, e) /\ h = HeardOf(e, c.separator)
    BY DEF c
  <2>. HIDE DEF q, h
  <2>. QED BY <2>1, <2>2, <2>3
<1>. HIDE DEF q, h
<1>4. /\ now \in Seq(Inputs) /\ Len(now) = n + 1 /\ n \in Nat
      /\ \A j \in 1 .. n : now[j] = since[j]
      /\ now[n + 1] = e
  OBVIOUS
<1>. HIDE DEF now
<1>5. n \in Nat /\ m \in Nat /\ k + m = n + 1 /\ d \in Nat
  BY <1>4
<1>6. /\ Len(p.at) = m + d
      /\ \A j \in 1 .. m : Consumes(since[k + j - 1], p.at[j + d])
      /\ d = 1 => fresh /\ k = 1 /\ p.at[1] = WordSeparator
      /\ Len(p.events) = m
      /\ \A j \in 1 .. m : p.events[j].event = since[k + j - 1]
      /\ \A j \in 1 .. m : p.events[j].separator <=> p.at[j + d] = WordSeparator
  BY DEF Came, Spells
<1>. HIDE DEF n, m
<1>7. /\ Len(q.at) = m + d + 1
      /\ \A j \in 1 .. m + d : q.at[j] = p.at[j]
      /\ q.at[m + d + 1] = item
  BY <1>1, <1>3, <1>5, <1>6, AppendProperties
<1>8. /\ Len(q.events) = m + 1
      /\ \A j \in 1 .. m : q.events[j] = p.events[j]
      /\ q.events[m + 1] = h
  BY <1>1, <1>3, <1>5, <1>6, AppendProperties
<1>9. ASSUME NEW j \in 1 .. m + 1
      PROVE  /\ Consumes(now[k + j - 1], q.at[j + d])
             /\ q.events[j].event = now[k + j - 1]
             /\ q.events[j].separator <=> q.at[j + d] = WordSeparator
  <2>1. CASE j <= m
    <3>1. j \in 1 .. m /\ k + j - 1 \in 1 .. n /\ j + d \in 1 .. m + d
      BY <1>5, <2>1
    <3>2. now[k + j - 1] = since[k + j - 1] /\ q.at[j + d] = p.at[j + d] /\ q.events[j] = p.events[j]
      BY <1>4, <1>7, <1>8, <3>1
    <3>3. Consumes(since[k + j - 1], p.at[j + d])
      BY <1>6, <3>1
    <3>4. p.events[j].event = since[k + j - 1] /\ (p.events[j].separator <=> p.at[j + d] = WordSeparator)
      BY <1>6, <3>1
    <3>. QED BY <3>2, <3>3, <3>4
  <2>2. CASE j = m + 1
    <3>1. k + j - 1 = n + 1 /\ j + d = m + d + 1
      BY <1>5, <2>2
    <3>2. now[k + j - 1] = e /\ q.at[j + d] = item /\ q.events[j] = h
      BY <1>4, <1>7, <1>8, <2>2, <3>1
    <3>. QED BY <1>3, <3>2
  <2>. QED BY <1>5, <2>1, <2>2
<1>10. d = 1 => fresh /\ k = 1 /\ q.at[1] = WordSeparator
  <2>. SUFFICES ASSUME d = 1 PROVE fresh /\ k = 1 /\ q.at[1] = WordSeparator
    OBVIOUS
  <2>1. 1 \in 1 .. m + d
    BY <1>5
  <2>. QED BY <1>6, <1>7, <2>1
<1>11. Len(now) - k + 1 = m + 1
  BY <1>4, <1>5
<1>12. Spells(q.at, k, d, now, fresh)
  <2>1. Len(q.at) = Len(now) - k + 1 + d
    BY <1>4, <1>5, <1>7
  <2>2. \A j \in 1 .. Len(now) - k + 1 : Consumes(now[k + j - 1], q.at[j + d])
    BY <1>9, <1>11
  <2>. QED BY <1>10, <2>1, <2>2 DEF Spells
<1>13. Came(q, k, d, now, fresh)
  <2>1. Len(q.events) = Len(now) - k + 1
    BY <1>8, <1>11
  <2>2. \A j \in 1 .. Len(now) - k + 1 :
          /\ q.events[j].event = now[k + j - 1]
          /\ q.events[j].separator <=> q.at[j + d] = WordSeparator
    BY <1>9, <1>11
  <2>. QED BY <1>12, <2>1, <2>2 DEF Came
<1>. QED BY <1>13 DEF q, now

\* What leads to a position with the last event led to the one above it without.
LEMMA SpellsBack ==
  ASSUME NEW at \in Seq(Item), NEW since \in Seq(Inputs), NEW fresh \in BOOLEAN, NEW e \in Inputs,
         NEW k \in 1 .. Len(since) + 1, NEW d \in 0 .. 1,
         Spells(at, k, d, Append(since, e), fresh)
  PROVE  \E above \in Seq(Item), item \in Item :
            /\ at = Append(above, item)
            /\ Spells(above, k, d, since, fresh)
            /\ Consumes(e, item)
<1>. DEFINE n == Len(since)
            m == n - k + 1
            now == Append(since, e)
            above == SubSeq(at, 1, Len(at) - 1)
            item == at[Len(at)]
<1>1. /\ now \in Seq(Inputs) /\ Len(now) = n + 1 /\ n \in Nat
      /\ \A j \in 1 .. n : now[j] = since[j]
      /\ now[n + 1] = e
  OBVIOUS
<1>. HIDE DEF now
<1>2. n \in Nat /\ m \in Nat /\ k + m = n + 1 /\ d \in Nat /\ Len(now) - k + 1 = m + 1
  BY <1>1
<1>3. /\ Len(at) = m + 1 + d
      /\ \A j \in 1 .. m + 1 : Consumes(now[k + j - 1], at[j + d])
      /\ d = 1 => fresh /\ k = 1 /\ at[1] = WordSeparator
  BY <1>2 DEF Spells, now
<1>. HIDE DEF n, m
<1>4. /\ above \in Seq(Item) /\ item \in Item /\ Len(above) = m + d
      /\ \A j \in 1 .. m + d : above[j] = at[j]
  <2>1. Len(at) - 1 = m + d /\ m + d \in Nat /\ m + d <= Len(at) /\ Len(at) \in 1 .. Len(at)
    BY <1>2, <1>3
  <2>2. item \in Item
    BY <2>1
  <2>3. above = SubSeq(at, 1, m + d)
    BY <2>1
  <2>. HIDE DEF above, item
  <2>. QED BY <2>1, <2>2, <2>3
<1>5. at = Append(above, item)
  <2>1. Append(above, item) \in Seq(Item) /\ Len(Append(above, item)) = Len(at)
    BY <1>2, <1>3, <1>4
  <2>2. \A j \in 1 .. Len(at) : at[j] = Append(above, item)[j]
    <3>. HIDE DEF above
    <3>1. /\ \A j \in 1 .. m + d : Append(above, item)[j] = above[j]
          /\ Append(above, item)[m + d + 1] = item
      BY <1>2, <1>4, AppendProperties
    <3>. QED BY <1>2, <1>3, <1>4, <3>1
  <2>. QED BY <2>1, <2>2, SeqEqual
<1>. HIDE DEF above
<1>6. Consumes(e, item)
  <2>1. m + 1 \in 1 .. m + 1 /\ k + (m + 1) - 1 = n + 1 /\ (m + 1) + d = Len(at)
    BY <1>2, <1>3
  <2>2. Consumes(now[k + (m + 1) - 1], at[(m + 1) + d])
    BY <1>3, <2>1
  <2>. QED BY <1>1, <2>1, <2>2
<1>7. \A j \in 1 .. m : Consumes(since[k + j - 1], above[j + d])
  <2>. SUFFICES ASSUME NEW j \in 1 .. m PROVE Consumes(since[k + j - 1], above[j + d])
    OBVIOUS
  <2>1. j \in 1 .. m + 1 /\ k + j - 1 \in 1 .. n /\ j + d \in 1 .. m + d
    BY <1>2
  <2>. QED BY <1>1, <1>3, <1>4, <2>1
<1>8. d = 1 => fresh /\ k = 1 /\ above[1] = WordSeparator
  <2>. SUFFICES ASSUME d = 1 PROVE fresh /\ k = 1 /\ above[1] = WordSeparator
    OBVIOUS
  <2>1. 1 \in 1 .. m + d
    BY <1>2
  <2>. QED BY <1>3, <1>4, <2>1
<1>9. Spells(above, k, d, since, fresh)
  BY <1>2, <1>4, <1>7, <1>8 DEF Spells, n, m
<1>. QED BY <1>4, <1>5, <1>6, <1>9

\* Above everything there is a node.
LEMMA AliveAbove ==
  ASSUME TreeInv, NEW at \in Seq(Item), NEW item \in Item, Alive(Append(at, item))
  PROVE  IsNode(at)
<1>. DEFINE below == Append(at, item)
<1>1. /\ below \in Seq(Item) /\ Len(below) = Len(at) + 1 /\ Len(at) \in Nat
      /\ \A i \in 1 .. Len(at) : below[i] = at[i]
  OBVIOUS
<1>. HIDE DEF below
<1>2. StrictPrefix(at, below)
  BY <1>1 DEF StrictPrefix
<1>3. CASE IsLeaf(below)
  BY <1>2, <1>3 DEF IsLeaf, IsNode
<1>4. CASE IsNode(below)
  <2>1. PICK q \in DOMAIN tree : StrictPrefix(below, q)
    BY <1>4 DEF IsNode
  <2>2. q \in Seq(Item)
    BY <2>1, PositionsAreItems
  <2>3. StrictPrefix(at, q)
    BY <1>1, <1>2, <2>1, <2>2, PrefixTransitive
  <2>. QED BY <2>3 DEF IsNode
<1>. QED BY <1>3, <1>4 DEF Alive, below

\* The search for matches before anything was typed.
NoPath == [at |-> <<>>, events |-> <<>>]
BehindSeparator == [at |-> <<WordSeparator>>, events |-> <<>>]

\* No events lead to where every search begins,
LEMMA CameNowhere ==
  ASSUME NEW since \in Seq(Inputs), NEW fresh \in BOOLEAN
  PROVE  /\ NoPath \in Path
         /\ Came(NoPath, Len(since) + 1, 0, since, fresh)
<1>1. <<>> \in Seq(Item) /\ <<>> \in Seq(Heard) /\ Len(<<>>) = 0
  OBVIOUS
<1>2. NoPath.at = <<>> /\ NoPath.events = <<>> /\ NoPath \in Path
  BY <1>1 DEF NoPath, Path
<1>3. Len(since) - (Len(since) + 1) + 1 = 0 /\ 1 .. 0 = {}
  OBVIOUS
<1>. QED BY <1>1, <1>2, <1>3 DEF Came, Spells

\* and, before anything was typed, to behind the separator.
LEMMA CameBehind ==
  ASSUME NEW fresh \in BOOLEAN, fresh
  PROVE  /\ BehindSeparator \in Path
         /\ Came(BehindSeparator, 1, 1, <<>>, fresh)
<1>1. WordSeparator \in Item
  BY DEF Item, WordSeparator
<1>2. /\ <<WordSeparator>> \in Seq(Item) /\ Len(<<WordSeparator>>) = 1
      /\ <<WordSeparator>>[1] = WordSeparator
      /\ <<>> \in Seq(Heard) /\ Len(<<>>) = 0
  BY <1>1
<1>3. /\ BehindSeparator.at = <<WordSeparator>> /\ BehindSeparator.events = <<>>
      /\ BehindSeparator \in Path
  BY <1>2 DEF BehindSeparator, Path
<1>4. 0 - 1 + 1 = 0 /\ 1 .. 0 = {}
  OBVIOUS
<1>. QED BY <1>2, <1>3, <1>4 DEF Came, Spells

\* Every event keeps the partial matches exact.
LEMMA ExactStep ==
  ASSUME TreeInv, NEW paths \in Seq(Path), NEW since \in Seq(Inputs), NEW fresh \in BOOLEAN,
         Exact(paths, since, fresh), NEW e \in Inputs, NEW has \in BOOLEAN,
         ~has => fresh /\ since = <<>>,
         has /\ fresh => since # <<>>
  PROVE  /\ NextPaths(paths, has, e) \in Seq(Path)
         /\ Exact(NextPaths(paths, has, e), Append(since, e), fresh)
<1>. DEFINE next == NextPaths(paths, has, e)
            now == Append(since, e)
            n == Len(since)
<1>1. /\ next \in Seq(Path)
      /\ \A q : q \in ToSet(next) <=>
              \/ \E i \in 1 .. Len(paths) : \E c \in ToSet(Children(paths[i].at, e)) :
                    q = PathOf(paths[i].events, c, e)
              \/ \E c \in ToSet(FindRefs(<<>>, e, has)) : q = PathOf(<<>>, c, e)
      /\ Longest(paths) => Longest(next)
  BY NextAre
<1>2. Longest(next)
  BY <1>1 DEF Exact
<1>3. /\ now \in Seq(Inputs) /\ Len(now) = n + 1 /\ n \in Nat
  OBVIOUS
<1>4. \A i \in 1 .. Len(paths) : paths[i] \in Path /\ paths[i] \in ToSet(paths)
  BY DEF ToSet
<1>5. /\ <<>> \in Seq(Item) /\ WordSeparator \in Item /\ <<WordSeparator>> \in Seq(Item)
      /\ Append(<<>>, WordSeparator) = <<WordSeparator>>
  <2>1. WordSeparator \in Item
    BY DEF Item, WordSeparator
  <2>. QED BY <2>1
<1>. HIDE DEF next, now
\* One more event, from a position that was reached.
<1>6. ASSUME NEW p \in Path, NEW k \in 1 .. n + 1, NEW d \in 0 .. 1, Came(p, k, d, since, fresh),
             NEW c \in ToSet(Children(p.at, e))
      PROVE  LET q == PathOf(p.events, c, e) IN
             Alive(q.at) /\ \E j \in 1 .. Len(now), b \in 0 .. 1 : Came(q, j, b, now, fresh)
  <2>1. p.at \in Seq(Item) /\ p.events \in Seq(Heard)
    BY DEF Path
  <2>2. PICK item \in Item : /\ Consumes(e, item) /\ Alive(Append(p.at, item))
                             /\ c = RefOf(p.at, item)
    BY <2>1, ChildrenAre
  <2>3. Came(PathOf(p.events, RefOf(p.at, item), e), k, d, now, fresh)
    BY <1>6, <2>2, CameAppend DEF now, n
  <2>4. RefOf(p.at, item) \in Ref /\ RefOf(p.at, item).at = Append(p.at, item)
    BY <2>1, RefOfIs
  <2>5. PathOf(p.events, RefOf(p.at, item), e).at = Append(p.at, item)
    BY <2>1, <2>4, PathOfIs
  <2>6. k \in 1 .. Len(now)
    BY <1>3
  <2>. QED BY <2>2, <2>3, <2>5, <2>6
<1>7. ASSUME NEW q \in ToSet(next)
      PROVE  Alive(q.at) /\ \E k \in 1 .. Len(now), d \in 0 .. 1 : Came(q, k, d, now, fresh)
  <2>1. CASE \E i \in 1 .. Len(paths) : \E c \in ToSet(Children(paths[i].at, e)) :
               q = PathOf(paths[i].events, c, e)
    <3>1. PICK i \in 1 .. Len(paths) : \E c \in ToSet(Children(paths[i].at, e)) :
                  q = PathOf(paths[i].events, c, e)
      BY <2>1
    <3>2. PICK c \in ToSet(Children(paths[i].at, e)) : q = PathOf(paths[i].events, c, e)
      BY <3>1
    <3>3. PICK k \in 1 .. n, d \in 0 .. 1 : Came(paths[i], k, d, since, fresh)
      BY <1>4 DEF Exact
    <3>4. k \in 1 .. n + 1 /\ paths[i] \in Path
      BY <1>3, <1>4
    <3>. QED BY <1>6, <3>2, <3>3, <3>4
  <2>2. CASE \E c \in ToSet(FindRefs(<<>>, e, has)) : q = PathOf(<<>>, c, e)
    <3>1. PICK c \in ToSet(FindRefs(<<>>, e, has)) : q = PathOf(<<>>, c, e)
      BY <2>2
    <3>2. CASE c \in ToSet(Children(<<>>, e))
      <4>1. /\ NoPath \in Path /\ Came(NoPath, n + 1, 0, since, fresh)
            /\ NoPath.at = <<>> /\ NoPath.events = <<>>
        BY CameNowhere DEF NoPath
      <4>2. n + 1 \in 1 .. n + 1 /\ 0 \in 0 .. 1
        BY <1>3
      <4>3. c \in ToSet(Children(NoPath.at, e)) /\ q = PathOf(NoPath.events, c, e)
        BY <3>1, <3>2, <4>1
      <4>. QED BY <1>6, <4>1, <4>2, <4>3
    <3>3. CASE ~has /\ c \in ToSet(Children(<<WordSeparator>>, e))
      <4>1. fresh /\ since = <<>> /\ n = 0
        BY <3>3
      <4>2. /\ BehindSeparator \in Path /\ Came(BehindSeparator, 1, 1, since, fresh)
            /\ BehindSeparator.at = <<WordSeparator>> /\ BehindSeparator.events = <<>>
        BY <4>1, CameBehind DEF BehindSeparator
      <4>3. 1 \in 1 .. n + 1 /\ 1 \in 0 .. 1
        BY <1>3
      <4>4. c \in ToSet(Children(BehindSeparator.at, e)) /\ q = PathOf(BehindSeparator.events, c, e)
        BY <3>1, <3>3, <4>2
      <4>. QED BY <1>6, <4>2, <4>3, <4>4
    <3>. QED BY <1>5, <3>1, <3>2, <3>3, FindRefsAre
  <2>. QED BY <1>1, <2>1, <2>2
<1>8. ASSUME NEW at \in Seq(Item), NEW k \in 1 .. Len(now), NEW d \in 0 .. 1,
             Spells(at, k, d, now, fresh), Alive(at)
      PROVE  \E q \in ToSet(next) : q.at = at /\ Len(q.events) = Len(now) - k + 1
  <2>1. k \in 1 .. n + 1
    BY <1>3
  <2>2. PICK above \in Seq(Item), item \in Item :
          at = Append(above, item) /\ Spells(above, k, d, since, fresh) /\ Consumes(e, item)
    BY <1>8, <2>1, SpellsBack DEF now, n
  <2>3. IsNode(above)
    BY <1>8, <2>2, AliveAbove
  <2>. DEFINE c == RefOf(above, item)
  <2>4. c \in Ref /\ c.at = at
    BY <2>2, RefOfIs
  <2>5. c \in ToSet(Children(above, e))
    BY <1>8, <2>2, ChildrenAre
  <2>. HIDE DEF c
  <2>6. ASSUME NEW events \in Seq(Heard), Len(events) = n - k + 1,
               PathOf(events, c, e) \in ToSet(next)
        PROVE  \E q \in ToSet(next) : q.at = at /\ Len(q.events) = Len(now) - k + 1
    <3>1. PathOf(events, c, e).at = at /\ Len(PathOf(events, c, e).events) = Len(events) + 1
      BY <2>4, PathOfIs
    <3>2. Len(events) + 1 = Len(now) - k + 1
      BY <1>3, <2>6
    <3>. QED BY <2>6, <3>1, <3>2
  <2>7. CASE k <= n
    <3>1. k \in 1 .. Len(since)
      BY <2>1, <2>7
    <3>2. PICK p \in ToSet(paths) : p.at = above /\ Len(p.events) = n - k + 1
      BY <2>2, <2>3, <3>1 DEF Exact, Alive
    <3>3. PICK i \in 1 .. Len(paths) : p = paths[i]
      BY DEF ToSet
    <3>4. PathOf(paths[i].events, c, e) \in ToSet(next)
      BY <1>1, <2>5, <3>2, <3>3
    <3>5. paths[i].events \in Seq(Heard)
      BY <1>4 DEF Path
    <3>. QED BY <2>6, <3>2, <3>3, <3>4, <3>5
  <2>8. CASE k = n + 1
    <3>1. Len(above) = d /\ (d = 1 => fresh /\ k = 1 /\ above[1] = WordSeparator)
      BY <1>3, <2>2, <2>8 DEF Spells
    <3>2. c \in ToSet(FindRefs(<<>>, e, has))
      <4>1. CASE d = 0
        <5>1. above = <<>>
          BY <3>1, <4>1
        <5>. QED BY <1>5, <2>5, <5>1, FindRefsAre
      <4>2. CASE d = 1
        <5>1. above = <<WordSeparator>>
          BY <1>5, <2>2, <3>1, <4>2
        <5>2. n = 0 /\ fresh
          BY <2>8, <3>1, <4>2
        <5>3. ~has
          BY <5>2
        <5>. QED BY <1>5, <2>3, <2>5, <5>1, <5>3, FindRefsAre
      <4>. QED BY <4>1, <4>2
    <3>3. PathOf(<<>>, c, e) \in ToSet(next)
      BY <1>1, <3>2
    <3>4. <<>> \in Seq(Heard) /\ Len(<<>>) = n - k + 1
      BY <1>3, <2>8
    <3>. QED BY <2>6, <3>3, <3>4
  <2>. QED BY <1>3, <2>1, <2>7, <2>8
<1>9. Exact(next, now, fresh)
  BY <1>2, <1>7, <1>8 DEF Exact
<1>. QED BY <1>1, <1>9 DEF next, now

-----------------------------------------------------------------------------
(* What is found, and the states that are kept.                             *)

\* The matches at the end of a path, with what was typed for them.
Results(q) ==
  LET text == ExtractString(q.events)
  IN  [i \in DOMAIN tree[q.at] |-> [id |-> tree[q.at][i], trigger |-> text.trigger,
                                    left |-> text.left, right |-> text.right]]

\* The first path that arrives at matches.
FirstHit(next, h) ==
  /\ h \in 1 .. Len(next)
  /\ IsLeaf(next[h].at)
  /\ \A i \in 1 .. h - 1 : ~IsLeaf(next[i].at)

\* RollingProcess goes on with all partial matches, or with none when one arrives.
LEMMA RollingIs ==
  ASSUME NEW paths \in Seq(Path), NEW has \in BOOLEAN, NEW e \in Inputs
  PROVE  \/ /\ \A i \in 1 .. Len(NextPaths(paths, has, e)) : ~IsLeaf(NextPaths(paths, has, e)[i].at)
            /\ RollingProcess(paths, has, e) = [paths |-> NextPaths(paths, has, e), results |-> <<>>]
         \/ \E h \in 1 .. Len(NextPaths(paths, has, e)) :
               /\ FirstHit(NextPaths(paths, has, e), h)
               /\ RollingProcess(paths, has, e)
                    = [paths |-> <<>>, results |-> Results(NextPaths(paths, has, e)[h])]
<1>. DEFINE next == NextPaths(paths, has, e)
            I == {i \in 1 .. Len(next) : IsLeaf(next[i].at)}
            hit == IF I # {} THEN Min(I) ELSE 0
<1>1. next \in Seq(Path)
  BY NextAre
<1>2. RollingProcess(paths, has, e) =
        IF hit = 0 THEN [paths |-> next, results |-> <<>>]
        ELSE [paths |-> <<>>, results |-> Results(next[hit])]
  BY DEF RollingProcess, NextPaths, SelectInSeq, Results
<1>. HIDE DEF next
<1>3. CASE I = {}
  <2>1. hit = 0
    BY <1>3
  <2>2. \A i \in 1 .. Len(next) : ~IsLeaf(next[i].at)
    BY <1>3
  <2>. HIDE DEF hit
  <2>. QED BY <1>2, <2>1, <2>2 DEF next
<1>4. CASE I # {}
  <2>1. I \in SUBSET Nat
    BY <1>1
  <2>2. hit \in I /\ \A i \in I : hit <= i
    BY <1>4, <2>1, FirstPosition
  <2>. HIDE DEF hit
  <2>3. hit \in 1 .. Len(next) /\ hit # 0
    BY <1>1, <2>2
  <2>4. FirstHit(next, hit)
    <3>1. \A i \in 1 .. hit - 1 : i \in 1 .. Len(next) /\ ~(hit <= i)
      BY <1>1, <2>3
    <3>. QED BY <2>2, <2>3, <3>1 DEF FirstHit
  <2>. HIDE DEF I
  <2>. QED BY <1>2, <2>3, <2>4 DEF next
<1>. QED BY <1>3, <1>4

\* Where there are matches, there is one.
LEMMA ResultsAre ==
  ASSUME TreeInv, NEW q, IsLeaf(q.at)
  PROVE  /\ Results(q) # <<>>
         /\ DOMAIN Results(q) = 1 .. Len(tree[q.at])
         /\ \A i \in 1 .. Len(tree[q.at]) :
              Results(q)[i] = [id |-> tree[q.at][i], trigger |-> ExtractString(q.events).trigger,
                               left |-> ExtractString(q.events).left,
                               right |-> ExtractString(q.events).right]
<1>. DEFINE ids == tree[q.at]
<1>1. Holds(ids, q.at, Inserted) /\ \E r \in Inserted : r.items = q.at
  BY DEF TreeInv, Contents, IsLeaf
<1>2. ids \in Seq(RuleIds) /\ \E i \in 1 .. Len(ids) : TRUE
  BY <1>1 DEF Holds
<1>. HIDE DEF ids
<1>3. DOMAIN ids = 1 .. Len(ids) /\ Len(ids) \in Nat /\ 1 \in DOMAIN ids
  BY <1>2
<1>4. DOMAIN Results(q) = DOMAIN ids
  BY DEF Results, ids
<1>5. \A i \in DOMAIN ids :
        Results(q)[i] = [id |-> ids[i], trigger |-> ExtractString(q.events).trigger,
                         left |-> ExtractString(q.events).left,
                         right |-> ExtractString(q.events).right]
  BY DEF Results, ids
<1>6. Results(q) # <<>>
  <2>1. DOMAIN <<>> = {}
    OBVIOUS
  <2>. QED BY <1>3, <1>4, <2>1
<1>. QED BY <1>3, <1>4, <1>5, <1>6 DEF ids

\* No partial match has arrived.
RollingAgrees(paths, since, fresh) ==
  /\ Exact(paths, since, fresh)
  /\ \A q \in ToSet(paths) : ~IsLeaf(q.at)

\* Without events there are no partial matches.
LEMMA RollingStart ==
  ASSUME NEW fresh \in BOOLEAN
  PROVE  RollingAgrees(<<>>, <<>>, fresh)
<1>1. ToSet(<<>>) = {} /\ Len(<<>>) = 0 /\ 1 .. 0 = {}
  BY DEF ToSet
<1>. QED BY <1>1 DEF RollingAgrees, Exact, Longest

\* An event keeps the partial matches exact, unless one arrives.
LEMMA RollingStep ==
  ASSUME TreeInv, NEW paths \in Seq(Path), NEW since \in Seq(Inputs), NEW fresh \in BOOLEAN,
         RollingAgrees(paths, since, fresh), NEW e \in Inputs, NEW has \in BOOLEAN,
         ~has => fresh /\ since = <<>>,
         has /\ fresh => since # <<>>,
         NEW r, r = RollingProcess(paths, has, e)
  PROVE  /\ r.paths \in Seq(Path)
         /\ r.results = <<>> => RollingAgrees(r.paths, Append(since, e), fresh)
         /\ r.results # <<>> => r.paths = <<>>
<1>. DEFINE next == NextPaths(paths, has, e)
<1>1. next \in Seq(Path) /\ Exact(next, Append(since, e), fresh)
  BY ExactStep DEF RollingAgrees
<1>. HIDE DEF next
<1>2. CASE /\ \A i \in 1 .. Len(next) : ~IsLeaf(next[i].at)
           /\ r = [paths |-> next, results |-> <<>>]
  <2>1. \A q \in ToSet(next) : ~IsLeaf(q.at)
    BY <1>1, <1>2 DEF ToSet
  <2>2. r.paths = next /\ r.results = <<>>
    BY <1>2
  <2>. QED BY <1>1, <2>1, <2>2 DEF RollingAgrees
<1>3. ASSUME NEW h \in 1 .. Len(next), FirstHit(next, h),
             r = [paths |-> <<>>, results |-> Results(next[h])]
      PROVE  r.paths = <<>> /\ r.results # <<>>
  <2>1. Results(next[h]) # <<>>
    BY <1>3, ResultsAre DEF FirstHit
  <2>. QED BY <1>3, <2>1
<1>4. <<>> \in Seq(Path)
  OBVIOUS
<1>. QED BY <1>2, <1>3, <1>4, RollingIs DEF next

-----------------------------------------------------------------------------
(* The states that are kept, and what was typed before each.                *)

State == [paths : Seq(Path), buffer : Seq(Letters)]
Past == [since : Seq(Inputs), fresh : BOOLEAN, text : Seq(Letters)]

Agrees(s, p) ==
  /\ RollingAgrees(s.paths, p.since, p.fresh)
  /\ RegexAgrees(s.buffer, p.text)
  /\ p.fresh => p.since # <<>>

HistoryInv ==
  /\ states \in Seq(State) /\ past \in Seq(Past) /\ Len(states) = Len(past)
  /\ pending # {} => states = <<>>
  /\ \A i \in 1 .. Len(states) : Agrees(states[i], past[i])

Prev == IF states = <<>> THEN NoState ELSE Last(states)
Was == IF past = <<>> THEN NoPast ELSE Last(past)

\* What Process starts from.
LEMMA NowAgrees ==
  ASSUME HistoryInv
  PROVE  /\ Prev \in State /\ Was \in Past
         /\ RollingAgrees(Prev.paths, Was.since, Was.fresh)
         /\ RegexAgrees(Prev.buffer, Was.text)
         /\ states = <<>> <=> past = <<>>
         /\ states = <<>> => Was = NoPast
         /\ states # <<>> /\ Was.fresh => Was.since # <<>>
<1>1. /\ states \in Seq(State) /\ past \in Seq(Past) /\ Len(states) = Len(past)
      /\ \A i \in 1 .. Len(states) : Agrees(states[i], past[i])
  BY DEF HistoryInv
<1>2. states = <<>> <=> past = <<>>
  BY <1>1
<1>3. CASE states = <<>>
  <2>1. Prev = NoState /\ Was = NoPast
    BY <1>2, <1>3 DEF Prev, Was
  <2>2. /\ NoState \in State /\ NoPast \in Past
        /\ NoState.paths = <<>> /\ NoState.buffer = <<>>
        /\ NoPast.since = <<>> /\ NoPast.fresh = TRUE /\ NoPast.text = <<>>
    <3>1. \A X : <<>> \in Seq(X)
      OBVIOUS
    <3>. QED BY <3>1 DEF NoState, NoPast, State, Past
  <2>3. RollingAgrees(<<>>, <<>>, TRUE) /\ RegexAgrees(<<>>, <<>>)
    BY RollingStart, RegexStart
  <2>. QED BY <1>2, <1>3, <2>1, <2>2, <2>3
<1>4. CASE states # <<>>
  <2>1. Len(states) \in 1 .. Len(states) /\ Len(past) \in 1 .. Len(past)
    BY <1>1, <1>4
  <2>2. Prev = states[Len(states)] /\ Was = past[Len(states)]
    BY <1>1, <1>2, <1>4 DEF Prev, Was, Last
  <2>3. Prev \in State /\ Was \in Past
    BY <1>1, <2>1, <2>2
  <2>4. Agrees(Prev, Was)
    BY <1>1, <2>1, <2>2
  <2>. QED BY <1>2, <1>4, <2>3, <2>4 DEF Agrees
<1>. QED BY <1>3, <1>4

\* SetToSeq lists a set that is finite.
LEMMA ListIsEmpty ==
  ASSUME NEW S, IsFiniteSet(S)
  PROVE  SetToSeq(S) = <<>> <=> S = {}
<1>. DEFINE n == Cardinality(S)
            f == SetToSeq(S)
<1>1. n \in Nat /\ ExistsBijection(1 .. n, S) /\ (n = 0 <=> S = {})
  BY FS_CardinalityType, FS_EmptySet
<1>2. \E g \in [1 .. n -> S] : IsInjective(g)
  BY <1>1 DEF ExistsBijection, Bijection, Injection
<1>3. f \in [1 .. n -> S]
  BY <1>2 DEF SetToSeq
<1>. HIDE DEF f, n
<1>4. CASE n = 0
  <2>1. DOMAIN f = {}
    BY <1>3, <1>4
  <2>2. f = <<>>
    BY <1>3, <1>4, <2>1
  <2>. QED BY <1>1, <1>4, <2>2 DEF f
<1>5. CASE n # 0
  <2>1. 1 \in DOMAIN f
    BY <1>1, <1>3, <1>5
  <2>2. f # <<>>
    BY <2>1
  <2>. QED BY <1>1, <1>5, <2>2 DEF f
<1>. QED BY <1>4, <1>5

\* The regex matcher keeps its buffer unless it finds something.
LEMMA RegexFinds ==
  ASSUME NEW b \in Seq(Letters), NEW e \in Inputs, NEW r, r = RegexProcess(b, e)
  PROVE  /\ r.results = <<>> =>
              r.buffer = IF Width(b \o e.chars) > MaxBuffer THEN Tail(b \o e.chars) ELSE b \o e.chars
         /\ r.results # <<>> => r.buffer = <<>>
<1>. DEFINE pushed == b \o e.chars
            kept == IF Width(pushed) > MaxBuffer THEN Tail(pushed) ELSE pushed
            matching == {m \in RegexMatches : /\ Occurrences(m.words, kept) # {}
                                              /\ FullMatch(m.words, kept) # <<>>}
            Result(m) == [id |-> m.id, trigger |-> FullMatch(m.words, kept),
                          left |-> <<>>, right |-> <<>>]
            results == {Result(m) : m \in matching}
<1>1. r = [buffer |-> IF results = {} THEN kept ELSE <<>>, results |-> SetToSeq(results)]
  BY DEF RegexProcess
<1>2. IsFiniteSet(results)
  <2>1. IsFiniteSet(UserMatches) /\ matching \in SUBSET UserMatches
    BY MatchingAssumption DEF MatchingAssumption, RegexMatches
  <2>2. IsFiniteSet(matching)
    BY <2>1, FS_Subset
  <2>. HIDE DEF matching, Result
  <2>. DEFINE f == [m \in matching |-> Result(m)]
  <2>3. f \in Surjection(matching, results)
    BY DEF Surjection
  <2>. QED BY <2>2, <2>3, FS_Surjection
<1>. HIDE DEF kept, results
<1>3. SetToSeq(results) = <<>> <=> results = {}
  BY <1>2, ListIsEmpty
<1>4. r.buffer = (IF results = {} THEN kept ELSE <<>>) /\ r.results = SetToSeq(results)
  BY <1>1
<1>. QED BY <1>3, <1>4 DEF kept

\* The oldest of too many states is forgotten.
Shifted(s, t, o, S) ==
  /\ t \in Seq(S)
  /\ Len(t) = Len(s) - o
  /\ o = 1 <=> Len(s) > MaxHistory
  /\ \A i \in 1 .. Len(s) - o : t[i] = s[i + o]

\* One state is forgotten at most.
LEMMA CappedIs ==
  ASSUME NEW S, NEW s \in Seq(S)
  PROVE  \E o \in 0 .. 1 : Shifted(s, Capped(s), o, S)
<1>1. MaxHistory \in Nat
  BY MatchingAssumption DEF MatchingAssumption
<1>2. CASE Len(s) > MaxHistory
  <2>1. s # <<>> /\ Len(s) \in Nat
    BY <1>1, <1>2
  <2>2. /\ Tail(s) \in Seq(S) /\ Len(Tail(s)) = Len(s) - 1
        /\ \A i \in 1 .. Len(s) - 1 : Tail(s)[i] = s[i + 1]
    BY <2>1, HeadTailProperties
  <2>3. Capped(s) = Tail(s)
    BY <1>2 DEF Capped
  <2>4. Shifted(s, Capped(s), 1, S)
    BY <1>2, <2>2, <2>3 DEF Shifted
  <2>. QED BY <2>4
<1>3. CASE ~(Len(s) > MaxHistory)
  <2>1. Capped(s) = s /\ Len(s) - 0 = Len(s) /\ \A i \in 1 .. Len(s) : s[i + 0] = s[i]
    BY <1>3 DEF Capped
  <2>2. Shifted(s, Capped(s), 0, S)
    BY <1>3, <2>1 DEF Shifted
  <2>. QED BY <2>2
<1>. QED BY <1>2, <1>3

\* The states agree with what was typed, in the tree as it is.
LEMMA HistoryPrime ==
  ASSUME tree' = tree, \A i \in 1 .. Len(states') : Agrees(states'[i], past'[i])
  PROVE  (\A i \in 1 .. Len(states) : Agrees(states[i], past[i]))'
<1>. SUFFICES ASSUME NEW i \in 1 .. Len(states') PROVE Agrees(states[i], past[i])'
  OBVIOUS
<1>1. Agrees(states'[i], past'[i])
  OBVIOUS
<1>2. (\A q \in ToSet(states[i].paths) : Alive(q.at))'
  BY <1>1 DEF Agrees, RollingAgrees, Exact, Alive, IsLeaf, IsNode
<1>3. (\A q \in ToSet(states[i].paths) :
         \E k \in 1 .. Len(past[i].since), d \in 0 .. 1 :
            Came(q, k, d, past[i].since, past[i].fresh))'
  BY <1>1 DEF Agrees, RollingAgrees, Exact
<1>4. (\A at \in Seq(Item), k \in 1 .. Len(past[i].since), d \in 0 .. 1 :
         Spells(at, k, d, past[i].since, past[i].fresh) /\ Alive(at) =>
           \E q \in ToSet(states[i].paths) :
              q.at = at /\ Len(q.events) = Len(past[i].since) - k + 1)'
  BY <1>1 DEF Agrees, RollingAgrees, Exact, Alive, IsLeaf, IsNode
<1>5. (\A q \in ToSet(states[i].paths) : ~IsLeaf(q.at))'
  BY <1>1 DEF Agrees, RollingAgrees, IsLeaf
<1>6. Longest(states[i].paths)'
  BY <1>1 DEF Agrees, RollingAgrees, Exact
<1>7. RegexAgrees(states[i].buffer, past[i].text)' /\ (past[i].fresh => past[i].since # <<>>)'
  BY <1>1 DEF Agrees
<1>. QED BY <1>2, <1>3, <1>4, <1>5, <1>6, <1>7 DEF Agrees, RollingAgrees, Exact

\* No step of the matchers disturbs the tree, and no state is older than the tree.
LEMMA HistoryStart == Init => HistoryInv
<1>1. Init => states = <<>> /\ past = <<>>
  BY DEF Init
<1>2. \A X : <<>> \in Seq(X)
  OBVIOUS
<1>3. Len(<<>>) = 0 /\ 1 .. 0 = {}
  OBVIOUS
<1>. QED BY <1>1, <1>2, <1>3 DEF HistoryInv

\* The state that Process adds, and what it stands for.
Added(r, x) == [paths |-> r.paths, buffer |-> x.buffer]
Typed(r, x, e) ==
  [since |-> IF r.results = <<>> THEN Append(Was.since, e) ELSE <<>>,
   fresh |-> r.results = <<>> /\ Was.fresh,
   text  |-> IF x.results = <<>> THEN Was.text \o e.chars ELSE <<>>]

\* The state after an event agrees with what was typed.
LEMMA ProcessAgrees ==
  ASSUME TreeInv, HistoryInv, NEW e \in Inputs,
         NEW r, r = RollingProcess(Prev.paths, states # <<>>, e),
         NEW x, x = RegexProcess(Prev.buffer, e)
  PROVE  /\ Added(r, x) \in State /\ Typed(r, x, e) \in Past
         /\ Agrees(Added(r, x), Typed(r, x, e))
<1>1. /\ Prev \in State /\ Was \in Past
      /\ RollingAgrees(Prev.paths, Was.since, Was.fresh)
      /\ RegexAgrees(Prev.buffer, Was.text)
      /\ states = <<>> => Was = NoPast
      /\ states # <<>> /\ Was.fresh => Was.since # <<>>
  BY NowAgrees
<1>2. /\ Prev.paths \in Seq(Path) /\ Prev.buffer \in Seq(Letters)
      /\ Was.since \in Seq(Inputs) /\ Was.fresh \in BOOLEAN /\ Was.text \in Seq(Letters)
  BY <1>1 DEF State, Past
<1>3. states = <<>> => Was.fresh /\ Was.since = <<>>
  BY <1>1 DEF NoPast
<1>4. e.chars \in Seq(Letters) /\ MaxBuffer \in Nat
  BY MatchingAssumption DEF MatchingAssumption
<1>. DEFINE has == states # <<>>
<1>5. /\ has \in BOOLEAN
      /\ ~has => Was.fresh /\ Was.since = <<>>
      /\ has /\ Was.fresh => Was.since # <<>>
      /\ r = RollingProcess(Prev.paths, has, e)
  BY <1>1, <1>3
<1>. HIDE DEF has
<1>6. /\ r.paths \in Seq(Path)
      /\ r.results = <<>> => RollingAgrees(r.paths, Append(Was.since, e), Was.fresh)
      /\ r.results # <<>> => r.paths = <<>>
  BY <1>1, <1>2, <1>5, RollingStep
<1>. DEFINE wide == IF Width(Prev.buffer \o e.chars) > MaxBuffer
                    THEN Tail(Prev.buffer \o e.chars) ELSE Prev.buffer \o e.chars
<1>7. /\ x.results = <<>> => x.buffer = wide
      /\ x.results # <<>> => x.buffer = <<>>
  BY <1>2, RegexFinds
<1>8. RegexAgrees(wide, Was.text \o e.chars)
  BY <1>1, <1>4, RegexStep
<1>. HIDE DEF wide
<1>9. \A X : <<>> \in Seq(X)
  OBVIOUS
<1>. DEFINE s == Added(r, x)
            p == Typed(r, x, e)
<1>10. /\ s.paths = r.paths /\ s.buffer = x.buffer
       /\ p.since = IF r.results = <<>> THEN Append(Was.since, e) ELSE <<>>
       /\ p.fresh = (r.results = <<>> /\ Was.fresh)
       /\ p.text = IF x.results = <<>> THEN Was.text \o e.chars ELSE <<>>
  BY DEF Added, Typed
<1>11. RegexAgrees(s.buffer, p.text)
  <2>1. CASE x.results = <<>>
    BY <1>7, <1>8, <1>10, <2>1
  <2>2. CASE x.results # <<>>
    BY <1>7, <1>10, <2>2, RegexStart
  <2>. QED BY <2>1, <2>2
<1>12. RollingAgrees(s.paths, p.since, p.fresh)
  <2>1. CASE r.results = <<>>
    <3>1. p.fresh = Was.fresh
      BY <1>2, <1>10, <2>1
    <3>. QED BY <1>6, <1>10, <2>1, <3>1
  <2>2. CASE r.results # <<>>
    <3>1. p.fresh = FALSE /\ p.since = <<>> /\ s.paths = <<>>
      BY <1>6, <1>10, <2>2
    <3>. QED BY <3>1, RollingStart
  <2>. QED BY <2>1, <2>2
<1>13. p.fresh => p.since # <<>>
  <2>1. Append(Was.since, e) # <<>>
    BY <1>2, AppendProperties
  <2>. QED BY <1>10, <2>1
<1>14. s \in State
  <2>1. x.buffer \in Seq(Letters)
    BY <1>10, <1>11 DEF RegexAgrees
  <2>. QED BY <1>6, <2>1 DEF Added, State
<1>15. p \in Past
  <2>1. Append(Was.since, e) \in Seq(Inputs) /\ <<>> \in Seq(Inputs)
    BY <1>2
  <2>2. Was.text \o e.chars \in Seq(Letters) /\ <<>> \in Seq(Letters)
    BY <1>2, <1>4
  <2>3. (r.results = <<>> /\ Was.fresh) \in BOOLEAN
    OBVIOUS
  <2>. QED BY <2>1, <2>2, <2>3 DEF Typed, Past
<1>. HIDE DEF s, p
<1>16. Agrees(s, p)
  BY <1>11, <1>12, <1>13 DEF Agrees
<1>. QED BY <1>14, <1>15, <1>16 DEF s, p

\* A step of two histories that are kept alike.
LEMMA CappedAgrees ==
  ASSUME HistoryInv, NEW s \in State, NEW p \in Past, Agrees(s, p)
  PROVE  LET ss == Capped(Append(states, s))
             pp == Capped(Append(past, p))
         IN  /\ ss \in Seq(State) /\ pp \in Seq(Past) /\ Len(ss) = Len(pp)
             /\ \A i \in 1 .. Len(ss) : Agrees(ss[i], pp[i])
<1>. DEFINE a == Append(states, s)
            b == Append(past, p)
            n == Len(states)
<1>1. /\ states \in Seq(State) /\ past \in Seq(Past) /\ Len(past) = n /\ n \in Nat
      /\ \A i \in 1 .. n : Agrees(states[i], past[i])
  BY DEF HistoryInv
<1>2. /\ a \in Seq(State) /\ Len(a) = n + 1
      /\ \A i \in 1 .. n : a[i] = states[i]
      /\ a[n + 1] = s
  BY <1>1, AppendProperties
<1>3. /\ b \in Seq(Past) /\ Len(b) = n + 1
      /\ \A i \in 1 .. n : b[i] = past[i]
      /\ b[n + 1] = p
  BY <1>1, AppendProperties
<1>. HIDE DEF a, b, n
<1>4. \A i \in 1 .. n + 1 : Agrees(a[i], b[i])
  <2>. SUFFICES ASSUME NEW i \in 1 .. n + 1 PROVE Agrees(a[i], b[i])
    OBVIOUS
  <2>1. CASE i = n + 1
    BY <1>2, <1>3, <2>1
  <2>2. CASE i # n + 1
    <3>1. i \in 1 .. n
      BY <1>1, <2>2
    <3>. QED BY <1>1, <1>2, <1>3, <3>1
  <2>. QED BY <2>1, <2>2
<1>5. PICK o \in 0 .. 1 : Shifted(a, Capped(a), o, State)
  BY <1>2, CappedIs
<1>6. PICK u \in 0 .. 1 : Shifted(b, Capped(b), u, Past)
  BY <1>3, CappedIs
<1>7. o = u
  BY <1>2, <1>3, <1>5, <1>6 DEF Shifted
<1>. DEFINE ss == Capped(a)
            pp == Capped(b)
<1>. HIDE DEF ss, pp
<1>8. /\ ss \in Seq(State) /\ Len(ss) = n + 1 - o
      /\ \A i \in 1 .. n + 1 - o : ss[i] = a[i + o]
  <2>1. Len(a) - o = n + 1 - o
    BY <1>1, <1>2
  <2>. QED BY <1>5, <2>1 DEF Shifted, ss
<1>9. /\ pp \in Seq(Past) /\ Len(pp) = n + 1 - o
      /\ \A i \in 1 .. n + 1 - o : pp[i] = b[i + o]
  <2>1. Len(b) - o = n + 1 - o
    BY <1>1, <1>3
  <2>2. Shifted(b, Capped(b), o, Past)
    BY <1>6, <1>7
  <2>. QED BY <2>1, <2>2 DEF Shifted, pp
<1>10. \A i \in 1 .. Len(ss) : Agrees(ss[i], pp[i])
  <2>. SUFFICES ASSUME NEW i \in 1 .. Len(ss) PROVE Agrees(ss[i], pp[i])
    OBVIOUS
  <2>1. i \in 1 .. n + 1 - o /\ i + o \in 1 .. n + 1
    BY <1>1, <1>8
  <2>2. ss[i] = a[i + o] /\ pp[i] = b[i + o] /\ Agrees(a[i + o], b[i + o])
    BY <1>4, <1>8, <1>9, <2>1
  <2>. QED BY <2>2
<1>. QED BY <1>8, <1>9, <1>10 DEF ss, pp, a, b

\* Process keeps the states and what was typed before each in step.
LEMMA ProcessKeeps ==
  ASSUME TreeInv, HistoryInv, NEW e \in Inputs, Process(e)
  PROVE  HistoryInv'
<1>. DEFINE r == RollingProcess(Prev.paths, states # <<>>, e)
            x == RegexProcess(Prev.buffer, e)
<1>1. /\ states' = Capped(Append(states, Added(r, x)))
      /\ past' = Capped(Append(past, Typed(r, x, e)))
      /\ pending = {} /\ pending' = pending /\ tree' = tree
  BY DEF Process, Prev, Was, Added, Typed, treeVars
<1>2. Added(r, x) \in State /\ Typed(r, x, e) \in Past /\ Agrees(Added(r, x), Typed(r, x, e))
  BY ProcessAgrees
<1>. HIDE DEF r, x
<1>3. /\ states' \in Seq(State) /\ past' \in Seq(Past) /\ Len(states') = Len(past')
      /\ \A i \in 1 .. Len(states') : Agrees(states'[i], past'[i])
  BY <1>1, <1>2, CappedAgrees
<1>4. (\A i \in 1 .. Len(states) : Agrees(states[i], past[i]))'
  BY <1>1, <1>3, HistoryPrime
<1>. QED BY <1>1, <1>3, <1>4 DEF HistoryInv

\* So does every other step.
LEMMA HistoryKeeps == TreeInv /\ HistoryInv /\ [Next]_vars => HistoryInv'
<1>. SUFFICES ASSUME TreeInv, HistoryInv, [Next]_vars PROVE HistoryInv'
  OBVIOUS
<1>0. /\ states \in Seq(State) /\ past \in Seq(Past) /\ Len(states) = Len(past)
      /\ pending # {} => states = <<>>
      /\ \A i \in 1 .. Len(states) : Agrees(states[i], past[i])
  BY DEF HistoryInv
<1>1. CASE BuildTree
  <2>1. pending # {} /\ states' = states /\ past' = past
    BY <1>1 DEF BuildTree, Build, Insert
  <2>2. states = <<>> /\ Len(<<>>) = 0 /\ 1 .. 0 = {}
    BY <1>0, <2>1
  <2>. QED BY <1>0, <2>1, <2>2 DEF HistoryInv
<1>2. ASSUME NEW e \in Inputs, Process(e) PROVE HistoryInv'
  BY <1>2, ProcessKeeps
<1>3. CASE Backspace
  <2>1. /\ states # <<>> /\ pending = {} /\ tree' = tree /\ pending' = pending
        /\ states' = SubSeq(states, 1, Len(states) - 1)
        /\ past' = SubSeq(past, 1, Len(past) - 1)
    BY <1>3 DEF Backspace, Front, treeVars
  <2>. DEFINE n == Len(states) - 1
              ss == SubSeq(states, 1, n)
              pp == SubSeq(past, 1, n)
  <2>2. /\ n \in Nat /\ ss \in Seq(State) /\ Len(ss) = n /\ \A i \in 1 .. n : ss[i] = states[i]
    BY <1>0, <2>1
  <2>3. /\ pp \in Seq(Past) /\ Len(pp) = n /\ \A i \in 1 .. n : pp[i] = past[i]
    BY <1>0, <2>1
  <2>4. states' = ss /\ past' = pp
    BY <1>0, <2>1
  <2>5. \A i \in 1 .. n : i \in 1 .. Len(states)
    BY <1>0
  <2>. HIDE DEF n, ss, pp
  <2>6. \A i \in 1 .. Len(ss) : Agrees(ss[i], pp[i])
    BY <1>0, <2>2, <2>3, <2>5
  <2>7. (\A i \in 1 .. Len(states) : Agrees(states[i], past[i]))'
    BY <2>1, <2>4, <2>6, HistoryPrime
  <2>. QED BY <2>1, <2>2, <2>3, <2>4, <2>7 DEF HistoryInv
<1>4. CASE Invalidate
  <2>1. states' = <<>> /\ past' = <<>>
    BY <1>4 DEF Invalidate
  <2>2. \A X : <<>> \in Seq(X)
    OBVIOUS
  <2>3. Len(<<>>) = 0 /\ 1 .. 0 = {}
    OBVIOUS
  <2>. QED BY <2>1, <2>2, <2>3 DEF HistoryInv
<1>5. CASE UNCHANGED vars
  <2>1. states' = states /\ past' = past /\ pending' = pending /\ tree' = tree
    BY <1>5 DEF vars
  <2>2. (\A i \in 1 .. Len(states) : Agrees(states[i], past[i]))'
    BY <1>0, <2>1, HistoryPrime
  <2>. QED BY <1>0, <2>1, <2>2 DEF HistoryInv
<1>. QED BY <1>1, <1>2, <1>3, <1>4, <1>5 DEF Next

\* Every text that fits in the buffer of the regex matcher is in it.
THEOREM WindowIsKept == Spec => []RegexWindow
<1>1. Init => TreeInv /\ HistoryInv
  BY InitTree, HistoryStart DEF Init
<1>2. TreeInv /\ HistoryInv /\ [Next]_vars => TreeInv' /\ HistoryInv'
  BY MatchingStep, HistoryKeeps
<1>3. HistoryInv => RegexWindow
  <2>. SUFFICES ASSUME HistoryInv, NEW i \in DOMAIN states
                PROVE  LET text == past[i].text
                           window == states[i].buffer
                       IN  /\ IsSuffix(window, text)
                           /\ \A k \in 1 .. Len(text) + 1 :
                                 LET recent == SubSeq(text, k, Len(text))
                                 IN  Width(recent) <= MaxBuffer => IsSuffix(recent, window)
    BY DEF RegexWindow
  <2>1. i \in 1 .. Len(states)
    BY DEF HistoryInv
  <2>2. RegexAgrees(states[i].buffer, past[i].text)
    BY <2>1 DEF HistoryInv, Agrees
  <2>3. MaxBuffer \in Nat
    BY MatchingAssumption DEF MatchingAssumption
  <2>. QED BY <2>2, <2>3, RegexAgreesWindow
<1>. QED BY <1>1, <1>2, <1>3, PTL DEF Spec

-----------------------------------------------------------------------------
(* What was found leads back to its match.                                  *)

\* The item a letter of a trigger becomes.
Letter(c, opt) ==
  IF opt.caseInsensitive THEN [kind |-> "insensitive", of |-> Fold(<<c>>)]
  ELSE [kind |-> "char", of |-> <<c>>]

Before(opt) == IF opt.leftWord THEN 1 ELSE 0
Behind(opt) == IF opt.rightWord THEN 1 ELSE 0

\* The items of a trigger: its letters between the separators its options ask for.
Spelled(items, t, opt) ==
  /\ Before(opt) \in 0 .. 1 /\ Behind(opt) \in 0 .. 1
  /\ Len(items) = (Before(opt) + Len(t)) + Behind(opt)
  /\ \A j \in 1 .. Len(items) :
       j <= Before(opt) \/ j > Before(opt) + Len(t) => items[j] = WordSeparator
  /\ \A i \in 1 .. Len(t) : items[Before(opt) + i] = Letter(t[i], opt)

\* RollingMatch::from_string makes one item of each letter.
LEMMA ItemsAre ==
  ASSUME NEW id, NEW t \in Seq(Letters), NEW opt
  PROVE  /\ FromString(id, t, opt).id = id
         /\ Spelled(FromString(id, t, opt).items, t, opt)
<1>. DEFINE items == FromString(id, t, opt).items
            left == IF opt.leftWord THEN <<WordSeparator>> ELSE <<>>
            right == IF opt.rightWord THEN <<WordSeparator>> ELSE <<>>
            middle == [i \in DOMAIN t |-> Letter(t[i], opt)]
            X == {WordSeparator} \cup {Letter(c, opt) : c \in Letters}
            l == Before(opt)
            r == Behind(opt)
            n == Len(t)
<1>1. FromString(id, t, opt).id = id /\ items = left \o middle \o right
  BY DEF FromString, Letter
<1>0. /\ <<WordSeparator>> \in Seq(X) /\ Len(<<WordSeparator>>) = 1
      /\ <<WordSeparator>>[1] = WordSeparator
      /\ <<>> \in Seq(X) /\ Len(<<>>) = 0 /\ 1 .. 0 = {} /\ 1 .. 1 = {1}
  <2>1. WordSeparator \in X
    OBVIOUS
  <2>. HIDE DEF X
  <2>2. <<WordSeparator>> \in Seq(X) /\ <<>> \in Seq(X)
    BY <2>1
  <2>3. 1 .. 0 = {} /\ 1 .. 1 = {1}
    OBVIOUS
  <2>. QED BY <2>2, <2>3
<1>2. /\ left \in Seq(X) /\ Len(left) = l /\ l \in 0 .. 1
      /\ \A j \in 1 .. l : left[j] = WordSeparator
  <2>. HIDE DEF X
  <2>1. CASE opt.leftWord
    <3>1. left = <<WordSeparator>> /\ l = 1
      BY <2>1 DEF Before
    <3>. QED BY <1>0, <3>1
  <2>2. CASE ~opt.leftWord
    <3>1. left = <<>> /\ l = 0
      BY <2>2 DEF Before
    <3>. QED BY <1>0, <3>1
  <2>. QED BY <2>1, <2>2
<1>3. /\ right \in Seq(X) /\ Len(right) = r /\ r \in 0 .. 1
      /\ \A j \in 1 .. r : right[j] = WordSeparator
  <2>. HIDE DEF X
  <2>1. CASE opt.rightWord
    <3>1. right = <<WordSeparator>> /\ r = 1
      BY <2>1 DEF Behind
    <3>. QED BY <1>0, <3>1
  <2>2. CASE ~opt.rightWord
    <3>1. right = <<>> /\ r = 0
      BY <2>2 DEF Behind
    <3>. QED BY <1>0, <3>1
  <2>. QED BY <2>1, <2>2
<1>4. /\ middle \in Seq(X) /\ Len(middle) = n /\ n \in Nat
      /\ \A i \in 1 .. n : middle[i] = Letter(t[i], opt)
  <2>1. \A i \in DOMAIN t : Letter(t[i], opt) \in X
    OBVIOUS
  <2>. HIDE DEF X
  <2>. QED BY <2>1
<1>. HIDE DEF left, right, middle, items, X, l, r, n
<1>. DEFINE front == left \o middle
<1>5. /\ front \in Seq(X) /\ Len(front) = l + n
      /\ \A j \in 1 .. l + n : front[j] = IF j <= l THEN left[j] ELSE middle[j - l]
  BY <1>2, <1>4, ConcatProperties
<1>6. items = front \o right
  BY <1>1
<1>. HIDE DEF front
<1>7. /\ Len(items) = (l + n) + r
      /\ \A j \in 1 .. (l + n) + r : items[j] = IF j <= l + n THEN front[j] ELSE right[j - (l + n)]
  BY <1>3, <1>5, <1>6, ConcatProperties
<1>8. ASSUME NEW j \in 1 .. (l + n) + r, j <= l \/ j > l + n PROVE items[j] = WordSeparator
  <2>1. CASE j <= l
    <3>1. j \in 1 .. l /\ j \in 1 .. l + n /\ j <= l + n
      BY <1>2, <1>4, <2>1
    <3>. QED BY <1>2, <1>5, <1>7, <2>1, <3>1
  <2>2. CASE j > l + n
    <3>1. j - (l + n) \in 1 .. r /\ ~(j <= l + n)
      BY <1>2, <1>3, <1>4, <2>2
    <3>. QED BY <1>3, <1>7, <3>1
  <2>. QED BY <1>8, <2>1, <2>2
<1>9. ASSUME NEW i \in 1 .. n PROVE items[l + i] = Letter(t[i], opt)
  <2>1. l + i \in 1 .. l + n /\ l + i \in 1 .. (l + n) + r /\ ~(l + i <= l) /\ (l + i) - l = i
        /\ l + i <= l + n
    BY <1>2, <1>3, <1>4
  <2>2. items[l + i] = front[l + i] /\ front[l + i] = middle[(l + i) - l]
    BY <1>5, <1>7, <2>1
  <2>. QED BY <1>4, <2>1, <2>2
<1>10. Spelled(items, t, opt)
  BY <1>2, <1>3, <1>7, <1>8, <1>9 DEF Spelled, l, r, n
<1>. QED BY <1>1, <1>10 DEF items

\* An event that a letter of a trigger consumes typed that letter, or one that
\* differs in case where the trigger allows it.
LEMMA LetterTyped ==
  ASSUME NEW e \in Inputs, NEW c \in Letters, NEW opt, Consumes(e, Letter(c, opt))
  PROVE  /\ e.chars \in Seq(Letters) /\ Len(e.chars) = 1
         /\ Lower[e.chars[1]] = Lower[c]
         /\ e.chars[1] # c => opt.caseInsensitive
<1>1. e.chars \in Seq(Letters)
  BY MatchingAssumption DEF MatchingAssumption
<1>2. CASE opt.caseInsensitive
  <2>1. Fold(e.chars) = Fold(<<c>>)
    BY <1>2 DEF Letter, Consumes
  <2>2. /\ DOMAIN Fold(<<c>>) = 1 .. 1 /\ Fold(<<c>>)[1] = Lower[c]
        /\ DOMAIN Fold(e.chars) = 1 .. Len(e.chars)
        /\ \A i \in 1 .. Len(e.chars) : Fold(e.chars)[i] = Lower[e.chars[i]]
    BY <1>1 DEF Fold
  <2>. DEFINE n == Len(e.chars)
  <2>3. n \in Nat /\ 1 .. n = 1 .. 1
    <3>1. DOMAIN Fold(e.chars) = DOMAIN Fold(<<c>>)
      BY <2>1
    <3>. QED BY <1>1, <2>2, <3>1
  <2>. HIDE DEF n
  <2>5. n = 1
    <3>1. 1 \in 1 .. n /\ ~(2 \in 1 .. n)
      BY <2>3
    <3>. QED BY <2>3, <3>1
  <2>4. Len(e.chars) = 1
    BY <2>5 DEF n
  <2>. QED BY <1>1, <1>2, <2>1, <2>2, <2>4
<1>3. CASE ~opt.caseInsensitive
  <2>1. e.chars = <<c>>
    BY <1>3 DEF Letter, Consumes
  <2>. QED BY <1>1, <2>1
<1>. QED BY <1>2, <1>3

\* No letter is a separator.
LEMMA LetterIsNoSeparator ==
  ASSUME NEW c, NEW opt
  PROVE  Letter(c, opt) # WordSeparator
<1>1. Letter(c, opt).kind \in {"insensitive", "char"} /\ WordSeparator.kind = "separator"
  BY DEF Letter, WordSeparator
<1>. QED BY <1>1

\* Texts of which those in the middle are single letters.
Around(ts, a, n, r, core) ==
  /\ FlattenSeq(ts) = (IF a = 1 THEN ts[1] ELSE <<>>)
                        \o (core \o (IF r = 1 THEN ts[Len(ts)] ELSE <<>>))
  /\ Len(core) = n
  /\ \A i \in 1 .. n : core[i] = ts[a + i][1]

\* Such texts, one after the other, are letters between two texts.
LEMMA TextsSplit ==
  ASSUME NEW S, NEW ts \in Seq(Seq(S)), NEW a \in 0 .. 1, NEW r \in 0 .. 1, NEW n \in Nat,
         Len(ts) = a + (n + r), \A i \in 1 .. n : Len(ts[a + i]) = 1
  PROVE  /\ a = 1 => ts[1] \in Seq(S)
         /\ r = 1 => ts[Len(ts)] \in Seq(S)
         /\ \E core \in Seq(S) : Around(ts, a, n, r, core)
<1>. DEFINE left == IF a = 1 THEN ts[1] ELSE <<>>
            right == IF r = 1 THEN ts[Len(ts)] ELSE <<>>
<1>0. a \in Nat /\ r \in Nat
  OBVIOUS
<1>2. PICK A, B, C \in Seq(Seq(S)) : InParts(ts, A, B, C, a, n, r)
  BY <1>0, ThreeParts, Zenon
<1>1. /\ ts = A \o (B \o C)
      /\ Len(A) = a /\ \A i \in 1 .. a : A[i] = ts[0 + i]
      /\ Len(B) = n /\ \A i \in 1 .. n : B[i] = ts[a + i]
      /\ Len(C) = r /\ \A i \in 1 .. r : C[i] = ts[(a + n) + i]
  BY <1>2 DEF InParts
<1>5. FlattenSeq(ts) = FlattenSeq(A) \o (FlattenSeq(B) \o FlattenSeq(C))
  <2>1. B \o C \in Seq(Seq(S))
    BY <1>1
  <2>2. FlattenSeq(B \o C) = FlattenSeq(B) \o FlattenSeq(C)
    BY <1>1, FlattenConcat
  <2>. DEFINE BC == B \o C
  <2>. HIDE DEF BC
  <2>3. FlattenSeq(A \o BC) = FlattenSeq(A) \o FlattenSeq(BC)
    BY <1>1, <2>1, FlattenConcat DEF BC
  <2>. QED BY <1>1, <2>2, <2>3 DEF BC
<1>6. FlattenSeq(A) = left /\ left \in Seq(S)
  <2>1. FlattenSeq(A) = IF a = 1 THEN A[1] ELSE <<>>
    BY <1>1, FlattenAtMostOne
  <2>2. a = 1 => A[1] = ts[1] /\ ts[1] \in Seq(S)
    <3>. SUFFICES ASSUME a = 1 PROVE A[1] = ts[1] /\ ts[1] \in Seq(S)
      OBVIOUS
    <3>1. 1 \in 1 .. a /\ 0 + 1 = 1 /\ 1 \in 1 .. Len(ts)
      OBVIOUS
    <3>. QED BY <1>1, <3>1
  <2>3. <<>> \in Seq(S)
    OBVIOUS
  <2>. QED BY <2>1, <2>2, <2>3
<1>7. FlattenSeq(C) = right /\ right \in Seq(S)
  <2>1. FlattenSeq(C) = IF r = 1 THEN C[1] ELSE <<>>
    BY <1>1, FlattenAtMostOne
  <2>2. r = 1 => C[1] = ts[Len(ts)] /\ ts[Len(ts)] \in Seq(S)
    <3>. SUFFICES ASSUME r = 1 PROVE C[1] = ts[Len(ts)] /\ ts[Len(ts)] \in Seq(S)
      OBVIOUS
    <3>1. 1 \in 1 .. r /\ (a + n) + 1 = Len(ts) /\ Len(ts) \in 1 .. Len(ts)
      BY <1>0
    <3>. QED BY <1>1, <3>1
  <2>3. <<>> \in Seq(S)
    OBVIOUS
  <2>. QED BY <2>1, <2>2, <2>3
<1>. DEFINE core == FlattenSeq(B)
<1>8. core \in Seq(S) /\ Len(core) = n /\ \A i \in 1 .. n : core[i] = ts[a + i][1]
  <2>1. \A i \in 1 .. Len(B) : Len(B[i]) = 1
    BY <1>1
  <2>2. core \in Seq(S)
    BY <1>1, FlattenType
  <2>3. Len(core) = Len(B) /\ \A i \in 1 .. Len(B) : core[i] = B[i][1]
    BY <1>1, <2>1, FlattenSingles
  <2>. HIDE DEF core
  <2>. QED BY <1>1, <2>2, <2>3
<1>. HIDE DEF core, left, right
<1>9. FlattenSeq(ts) = left \o (core \o right)
  BY <1>5, <1>6, <1>7 DEF core
<1>10. Around(ts, a, n, r, core)
  BY <1>8, <1>9 DEF Around, left, right
<1>. QED BY <1>6, <1>7, <1>8, <1>10 DEF left, right

\* The events of a word: one before it, one for each of its letters, one behind it.
Shape(events, t, opt, a, r) ==
  /\ Len(events) = a + (Len(t) + r)
  /\ events[1].separator <=> a = 1
  /\ Len(events) > 1 /\ events[Len(events)].separator <=> r = 1
  /\ \A i \in 1 .. Len(t) : Consumes(events[a + i].event, Letter(t[i], opt))

\* What led to the position of a word has its shape.
LEMMA ShapeIs ==
  ASSUME NEW id, NEW t \in Seq(Letters), NEW opt, NEW q \in Path,
         q.at = FromString(id, t, opt).items,
         NEW since \in Seq(Inputs), NEW fresh \in BOOLEAN,
         NEW k \in 1 .. Len(since), NEW d \in 0 .. 1, Came(q, k, d, since, fresh)
  PROVE  Len(q.events) \in Nat \ {0} /\ \E a, r \in 0 .. 1 : Shape(q.events, t, opt, a, r)
<1>. DEFINE l == Before(opt)
            b == Behind(opt)
            n == Len(t)
            m == Len(q.events)
<1>1. /\ l \in 0 .. 1 /\ b \in 0 .. 1
      /\ Len(q.at) = (l + n) + b
      /\ \A j \in 1 .. Len(q.at) : j <= l \/ j > l + n => q.at[j] = WordSeparator
      /\ \A i \in 1 .. n : q.at[l + i] = Letter(t[i], opt)
  <2>. DEFINE items == FromString(id, t, opt).items
  <2>1. Spelled(items, t, opt)
    BY ItemsAre
  <2>. HIDE DEF items
  <2>. QED BY <2>1 DEF Spelled, items
<1>2. /\ m = Len(since) - k + 1
      /\ Len(q.at) = m + d
      /\ \A j \in 1 .. m : /\ Consumes(q.events[j].event, q.at[j + d])
                           /\ q.events[j].separator <=> q.at[j + d] = WordSeparator
      /\ d = 1 => q.at[1] = WordSeparator
  BY DEF Came, Spells
<1>3. m \in Nat /\ m >= 1 /\ n \in Nat
  BY <1>2
<1>. HIDE DEF l, b, n, m
<1>4. \A i \in 1 .. n : q.at[l + i] # WordSeparator
  BY <1>1, LetterIsNoSeparator
<1>. DEFINE sep(j) == q.events[j].separator
<1>5. CASE n = 0
  <2>1. \A j \in 1 .. m : sep(j)
    <3>. SUFFICES ASSUME NEW j \in 1 .. m PROVE sep(j)
      OBVIOUS
    <3>1. j + d \in 1 .. Len(q.at) /\ (j + d <= l \/ j + d > l + n)
      BY <1>1, <1>2, <1>3, <1>5
    <3>. QED BY <1>1, <1>2, <3>1
  <2>2. m - 1 \in 0 .. 1 /\ m = 1 + (n + (m - 1))
    BY <1>1, <1>2, <1>3, <1>5
  <2>3. sep(1) /\ sep(m)
    BY <1>3, <2>1
  <2>4. m > 1 <=> m - 1 = 1
    BY <1>3, <2>2
  <2>5. \A i \in 1 .. n : FALSE
    BY <1>5
  <2>6. Shape(q.events, t, opt, 1, m - 1)
    BY <2>2, <2>3, <2>4, <2>5 DEF Shape, m, n
  <2>7. \E a, r \in 0 .. 1 : Shape(q.events, t, opt, a, r)
    <3>1. 1 \in 0 .. 1
      OBVIOUS
    <3>. QED BY <2>2, <2>6, <3>1, Zenon
  <2>. QED BY <1>3, <2>7 DEF m
<1>6. CASE n # 0
  <2>. DEFINE a == l - d
  <2>1. d = 1 => l = 1
    <3>. SUFFICES ASSUME d = 1, l = 0 PROVE FALSE
      BY <1>1
    <3>1. 1 \in 1 .. n /\ l + 1 = 1
      BY <1>3, <1>6
    <3>. QED BY <1>2, <1>4, <3>1
  <2>2. a \in 0 .. 1 /\ a + d = l
    BY <1>1, <2>1
  <2>. HIDE DEF a
  <2>3. m = a + (n + b)
    <3>1. m + d = (l + n) + b
      BY <1>1, <1>2, Zenon
    <3>2. /\ b \in 0 .. 1 /\ l \in 0 .. 1 /\ a \in 0 .. 1 /\ d \in 0 .. 1
          /\ m \in Nat /\ n \in Nat /\ a + d = l
      BY <1>1, <1>3, <2>2, Zenon
    <3>. QED BY <3>1, <3>2
  <2>4. \A i \in 1 .. n : /\ a + i \in 1 .. m /\ (a + i) + d = l + i
                          /\ Consumes(q.events[a + i].event, Letter(t[i], opt))
                          /\ ~sep(a + i)
    <3>. SUFFICES ASSUME NEW i \in 1 .. n
                  PROVE  /\ a + i \in 1 .. m /\ (a + i) + d = l + i
                         /\ Consumes(q.events[a + i].event, Letter(t[i], opt))
                         /\ ~sep(a + i)
      OBVIOUS
    <3>1. a + i \in 1 .. m /\ (a + i) + d = l + i
      BY <1>1, <1>3, <2>2, <2>3
    <3>2. Consumes(q.events[a + i].event, q.at[(a + i) + d]) /\ (sep(a + i) <=> q.at[(a + i) + d] = WordSeparator)
      BY <1>2, <3>1
    <3>. QED BY <1>1, <1>4, <3>1, <3>2
  <2>5. \A j \in 1 .. m : j <= a \/ j > a + n => sep(j)
    <3>. SUFFICES ASSUME NEW j \in 1 .. m, j <= a \/ j > a + n PROVE sep(j)
      OBVIOUS
    <3>1. j + d \in 1 .. Len(q.at) /\ (j + d <= l \/ j + d > l + n)
      BY <1>1, <1>2, <1>3, <2>2, <2>3
    <3>. QED BY <1>1, <1>2, <3>1
  <2>. HIDE DEF sep
  <2>6. sep(1) <=> a = 1
    <3>1. CASE a = 1
      <4>1. 1 \in 1 .. m /\ 1 <= a
        BY <1>3, <3>1
      <4>. QED BY <2>5, <3>1, <4>1
    <3>2. CASE a = 0
      <4>1. 1 \in 1 .. n /\ a + 1 = 1
        BY <1>3, <1>6, <3>2
      <4>2. ~sep(a + 1)
        BY <2>4, <4>1
      <4>. QED BY <3>2, <4>1, <4>2
    <3>. QED BY <2>2, <3>1, <3>2
  <2>7. m > 1 /\ sep(m) <=> b = 1
    <3>1. CASE b = 1
      <4>1. m \in 1 .. m /\ m > a + n /\ m > 1
        BY <1>3, <1>6, <2>2, <2>3, <3>1
      <4>. QED BY <2>5, <3>1, <4>1
    <3>2. CASE b = 0
      <4>1. n \in 1 .. n /\ a + n = m
        BY <1>3, <1>6, <2>2, <2>3, <3>2
      <4>2. ~sep(a + n)
        BY <2>4, <4>1
      <4>. QED BY <3>2, <4>1, <4>2
    <3>. QED BY <1>1, <3>1, <3>2
  <2>8. Shape(q.events, t, opt, a, b)
    BY <2>3, <2>4, <2>6, <2>7 DEF Shape, m, n, sep
  <2>. QED BY <1>1, <1>3, <2>2, <2>8 DEF m
<1>. QED BY <1>5, <1>6

\* The trigger that is reported, without its separators, is that of the match.
LEMMA TriggerTyped ==
  ASSUME NEW id, NEW t \in Seq(Letters), NEW opt, NEW q \in Path,
         q.at = FromString(id, t, opt).items,
         NEW since \in Seq(Inputs), NEW fresh \in BOOLEAN,
         NEW k \in 1 .. Len(since), NEW d \in 0 .. 1, Came(q, k, d, since, fresh)
  PROVE  LET x == ExtractString(q.events)
             core == SubSeq(x.trigger, Len(x.left) + 1, Len(x.trigger) - Len(x.right))
         IN  Fold(core) = Fold(t) /\ (core # t => opt.caseInsensitive)
<1>. DEFINE events == q.events
            m == Len(events)
            n == Len(t)
            ts == [i \in DOMAIN events |-> events[i].event.chars]
            x == ExtractString(q.events)
<1>0. events \in Seq(Heard) /\ n \in Nat
  BY DEF Path
<1>1. m \in Nat \ {0} /\ \E a, r \in 0 .. 1 : Shape(events, t, opt, a, r)
  BY ShapeIs
<1>2. PICK a \in 0 .. 1, r \in 0 .. 1 : Shape(events, t, opt, a, r)
  BY <1>1
<1>3. \A i \in 1 .. m : events[i] \in Heard /\ events[i].event \in Inputs
                        /\ events[i].event.chars \in Seq(Letters)
  <2>. SUFFICES ASSUME NEW i \in 1 .. m
                PROVE  events[i] \in Heard /\ events[i].event \in Inputs
                       /\ events[i].event.chars \in Seq(Letters)
    OBVIOUS
  <2>1. events[i] \in Heard
    BY <1>0
  <2>2. events[i].event \in Inputs
    BY <2>1 DEF Heard
  <2>. DEFINE e == events[i].event
  <2>. HIDE DEF e
  <2>3. e.chars \in Seq(Letters)
    BY <2>2, MatchingAssumption DEF MatchingAssumption, e
  <2>. QED BY <2>1, <2>2, <2>3 DEF e
<1>4. DOMAIN events = 1 .. m
  BY <1>0
<1>. HIDE DEF events, m
<1>5. /\ ts \in Seq(Seq(Letters)) /\ Len(ts) = m
      /\ \A i \in 1 .. m : ts[i] = events[i].event.chars
  BY <1>1, <1>3, <1>4
<1>. HIDE DEF ts
<1>6. /\ m = a + (n + r)
      /\ events[1].separator <=> a = 1
      /\ m > 1 /\ events[m].separator <=> r = 1
      /\ \A i \in 1 .. n : Consumes(events[a + i].event, Letter(t[i], opt))
  BY <1>2 DEF Shape, m, events
<1>. DEFINE left == IF a = 1 THEN ts[1] ELSE <<>>
            right == IF r = 1 THEN ts[m] ELSE <<>>
<1>7. x.trigger = FlattenSeq(ts) /\ x.left = left /\ x.right = right
  <2>1. Head(events) = events[1] /\ Last(events) = events[m]
    BY <1>0, <1>1 DEF Last, m, events
  <2>2. /\ x.trigger = FlattenSeq(ts)
        /\ x.left = IF Head(events).separator THEN Head(events).event.chars ELSE <<>>
        /\ x.right = IF m > 1 /\ Last(events).separator THEN Last(events).event.chars ELSE <<>>
    BY DEF ExtractString, ts, m, events
  <2>3. 1 \in 1 .. m /\ m \in 1 .. m
    BY <1>1
  <2>. HIDE DEF x
  <2>. QED BY <1>5, <1>6, <2>1, <2>2, <2>3
\* The letters in the middle.
<1>8. \A i \in 1 .. n :
        /\ a + i \in 1 .. m
        /\ Len(ts[a + i]) = 1
        /\ Lower[ts[a + i][1]] = Lower[t[i]]
        /\ ts[a + i][1] # t[i] => opt.caseInsensitive
  <2>. SUFFICES ASSUME NEW i \in 1 .. n
                PROVE  /\ a + i \in 1 .. m
                       /\ Len(ts[a + i]) = 1
                       /\ Lower[ts[a + i][1]] = Lower[t[i]]
                       /\ ts[a + i][1] # t[i] => opt.caseInsensitive
    OBVIOUS
  <2>1. a + i \in 1 .. m /\ t[i] \in Letters
    BY <1>0, <1>6
  <2>2. events[a + i].event \in Inputs /\ Consumes(events[a + i].event, Letter(t[i], opt))
    BY <1>3, <1>6, <2>1
  <2>. DEFINE e == events[a + i].event
  <2>. HIDE DEF e
  <2>3. /\ Len(e.chars) = 1 /\ Lower[e.chars[1]] = Lower[t[i]]
        /\ e.chars[1] # t[i] => opt.caseInsensitive
    BY <2>1, <2>2, LetterTyped DEF e
  <2>4. ts[a + i] = e.chars
    BY <1>5, <2>1 DEF e
  <2>. QED BY <2>1, <2>3, <2>4
<1>9. PICK core \in Seq(Letters) : Around(ts, a, n, r, core)
  <2>1. Len(ts) = a + (n + r) /\ \A i \in 1 .. n : Len(ts[a + i]) = 1
    BY <1>5, <1>6, <1>8
  <2>. QED BY <1>0, <1>5, <2>1, TextsSplit
<1>13. /\ left \in Seq(Letters) /\ right \in Seq(Letters)
       /\ FlattenSeq(ts) = left \o (core \o right)
       /\ Len(core) = n
       /\ \A i \in 1 .. n : core[i] = ts[a + i][1]
  <2>1. \A i \in 1 .. m : ts[i] \in Seq(Letters)
    BY <1>5
  <2>2. 1 \in 1 .. m /\ m \in 1 .. m /\ <<>> \in Seq(Letters)
    BY <1>1
  <2>3. left \in Seq(Letters) /\ right \in Seq(Letters)
    BY <2>1, <2>2
  <2>. QED BY <1>5, <1>9, <2>3 DEF Around
<1>. HIDE DEF left, right, x
<1>10. SubSeq(x.trigger, Len(x.left) + 1, Len(x.trigger) - Len(x.right)) = core
  BY <1>7, <1>13, MiddlePart
<1>11. Fold(core) = Fold(t)
  <2>1. DOMAIN core = 1 .. n /\ DOMAIN t = 1 .. n
    BY <1>13
  <2>2. \A i \in 1 .. n : Lower[core[i]] = Lower[t[i]]
    BY <1>8, <1>13
  <2>. QED BY <2>1, <2>2 DEF Fold
<1>12. core # t => opt.caseInsensitive
  <2>. SUFFICES ASSUME ~opt.caseInsensitive PROVE core = t
    OBVIOUS
  <2>1. \A i \in 1 .. n : core[i] = t[i]
    BY <1>8, <1>13
  <2>. QED BY <1>13, <2>1, SeqEqual
<1>. QED BY <1>10, <1>11, <1>12 DEF x

-----------------------------------------------------------------------------
(* The match a rolling match was made from.                                 *)

MadeFrom(r, m, t, opt) ==
  /\ t \in Seq(Letters) /\ t \in m.triggers /\ r.id = m.id
  /\ r.items = FromString(r.id, t, opt).items
  /\ r.id \in FindMatchesFromTrigger(t)
  /\ Resolve(r.id) = {m}
  /\ opt.caseInsensitive => m \in UserMatches /\ m.propagateCase

\* An id stands for one match.
LEMMA ResolvesAlone ==
  ASSUME NEW m \in UserMatches \cup Builtins
  PROVE  Resolve(m.id) = {m}
<1>1. \A u, v \in UserMatches \cup Builtins : u.id = v.id => u = v
  BY MatchingAssumption DEF MatchingAssumption
<1>2. ASSUME NEW u \in Resolve(m.id) PROVE u = m
  <2>1. u \in UserMatches \cup Builtins /\ u.id = m.id
    BY DEF Resolve
  <2>. QED BY <1>1, <2>1, Zenon
<1>3. m \in Resolve(m.id)
  <2>1. CASE m \in UserMatches
    BY <2>1 DEF Resolve
  <2>2. CASE m \notin UserMatches
    <3>1. \A u \in UserMatches : u.id # m.id
      BY <1>1, <2>2, Zenon
    <3>. QED BY <2>2, <3>1 DEF Resolve
  <2>. QED BY <2>1, <2>2
<1>. QED BY <1>2, <1>3

\* Every rolling match but those given by items was made from one.
LEMMA RollingIsMade ==
  ASSUME NEW r \in RollingMatches
  PROVE  \E m \in UserMatches \cup Builtins, t \in Seq(Letters) : \E opt : MadeFrom(r, m, t, opt)
<1>1. CASE r \in UNION {{FromString(m.id, t, [caseInsensitive |-> m.propagateCase,
                                              leftWord |-> m.leftWord,
                                              rightWord |-> m.rightWord]) : t \in m.triggers} :
                        m \in {u \in UserMatches : u.cause = "trigger"}}
  <2>1. PICK m \in UserMatches : m.cause = "trigger" /\ \E t \in m.triggers :
               r = FromString(m.id, t, [caseInsensitive |-> m.propagateCase,
                                        leftWord |-> m.leftWord,
                                        rightWord |-> m.rightWord])
    BY <1>1, Zenon
  <2>2. PICK t \in m.triggers :
               r = FromString(m.id, t, [caseInsensitive |-> m.propagateCase,
                                        leftWord |-> m.leftWord,
                                        rightWord |-> m.rightWord])
    BY <2>1
  <2>3. t \in Seq(Letters)
    BY <2>1, MatchingAssumption DEF MatchingAssumption
  <2>. DEFINE opt == [caseInsensitive |-> m.propagateCase,
                      leftWord |-> m.leftWord, rightWord |-> m.rightWord]
  <2>4. opt.caseInsensitive = m.propagateCase
    OBVIOUS
  <2>5. opt.caseInsensitive => m \in UserMatches /\ m.propagateCase
    <3>. HIDE DEF opt
    <3>. QED BY <2>4, Zenon
  <2>. HIDE DEF opt
  <2>6. r.id = m.id /\ r.items = FromString(r.id, t, opt).items
    <3>1. FromString(m.id, t, opt).id = m.id
      BY <2>3, ItemsAre
    <3>2. r = FromString(m.id, t, opt)
      BY <2>2, Zenon DEF opt
    <3>. QED BY <3>1, <3>2
  <2>7. r.id \in FindMatchesFromTrigger(t)
    BY <2>1, <2>6 DEF FindMatchesFromTrigger
  <2>8. Resolve(r.id) = {m}
    BY <2>6, ResolvesAlone
  <2>. QED BY <2>3, <2>5, <2>6, <2>7, <2>8, Zenon DEF MadeFrom
<1>2. CASE r \in UNION {{FromString(m.id, t, DefaultOptions) : t \in m.triggers} : m \in Builtins}
  <2>1. PICK m \in Builtins : \E t \in m.triggers : r = FromString(m.id, t, DefaultOptions)
    BY <1>2, Zenon
  <2>2. PICK t \in m.triggers : r = FromString(m.id, t, DefaultOptions)
    BY <2>1
  <2>3. t \in Seq(Letters)
    BY MatchingAssumption DEF MatchingAssumption
  <2>4. ~DefaultOptions.caseInsensitive
    BY DEF DefaultOptions
  <2>6. r.id = m.id /\ r.items = FromString(r.id, t, DefaultOptions).items
    <3>1. FromString(m.id, t, DefaultOptions).id = m.id
      BY <2>3, ItemsAre
    <3>. QED BY <2>2, <3>1
  <2>7. r.id \in FindMatchesFromTrigger(t)
    BY <2>6 DEF FindMatchesFromTrigger
  <2>8. Resolve(r.id) = {m}
    BY <2>6, ResolvesAlone
  <2>9. MadeFrom(r, m, t, DefaultOptions)
    BY <2>2, <2>3, <2>4, <2>6, <2>7, <2>8, Zenon DEF MadeFrom
  <2>10. m \in UserMatches \cup Builtins
    OBVIOUS
  <2>11. \E opt : MadeFrom(r, m, t, opt)
    BY <2>9
  <2>. QED BY <2>3, <2>10, <2>11
<1>. QED BY <1>1, <1>2, Zenon DEF RollingMatches

\* What HitsResolve says of one result.
Resolved(h) ==
  h.id \in {r.id : r \in ItemRules} \/
  LET core == SubSeq(h.trigger, Len(h.left) + 1, Len(h.trigger) - Len(h.right)) IN
  \E m \in Resolve(h.id) : \E t \in m.triggers :
      /\ Resolve(h.id) = {m}
      /\ h.id \in FindMatchesFromTrigger(t)
      /\ Fold(core) = Fold(t)
      /\ core # t => m \in UserMatches /\ m.propagateCase

\* A result at the end of a partial match leads back.
LEMMA ResultResolved ==
  ASSUME TreeInv, NEW q \in Path, IsLeaf(q.at),
         NEW since \in Seq(Inputs), NEW fresh \in BOOLEAN,
         NEW k \in 1 .. Len(since), NEW d \in 0 .. 1, Came(q, k, d, since, fresh),
         NEW i \in DOMAIN Results(q)
  PROVE  Resolved(Results(q)[i])
<1>. DEFINE h == Results(q)[i]
            x == ExtractString(q.events)
<1>1. /\ i \in 1 .. Len(tree[q.at])
      /\ h = [id |-> tree[q.at][i], trigger |-> x.trigger, left |-> x.left, right |-> x.right]
  BY ResultsAre
<1>2. h.id = tree[q.at][i] /\ h.trigger = x.trigger /\ h.left = x.left /\ h.right = x.right
  <2>. HIDE DEF h, x
  <2>. QED BY <1>1
<1>. HIDE DEF h
<1>3. PICK r \in Rules : r.items = q.at /\ r.id = h.id
  <2>1. Holds(tree[q.at], q.at, Inserted)
    BY DEF TreeInv, Contents, IsLeaf
  <2>. QED BY <1>1, <1>2, <2>1 DEF Holds, Inserted
<1>4. CASE r \in ItemRules
  BY <1>3, <1>4 DEF Resolved, h
<1>5. CASE r \in RollingMatches
  <2>1. PICK m \in UserMatches \cup Builtins, t \in Seq(Letters) : \E opt : MadeFrom(r, m, t, opt)
    BY <1>5, RollingIsMade
  <2>2. PICK opt : MadeFrom(r, m, t, opt)
    BY <2>1
  <2>. DEFINE core == SubSeq(x.trigger, Len(x.left) + 1, Len(x.trigger) - Len(x.right))
  <2>3. q.at = FromString(r.id, t, opt).items
    BY <1>3, <2>2 DEF MadeFrom
  <2>4. Fold(core) = Fold(t) /\ (core # t => opt.caseInsensitive)
    BY <2>3, TriggerTyped
  <2>5. core = SubSeq(h.trigger, Len(h.left) + 1, Len(h.trigger) - Len(h.right))
    BY <1>2
  <2>. HIDE DEF core
  <2>6. /\ t \in m.triggers /\ h.id \in FindMatchesFromTrigger(t) /\ Resolve(h.id) = {m}
        /\ opt.caseInsensitive => m \in UserMatches /\ m.propagateCase
    BY <1>3, <2>2, Zenon DEF MadeFrom
  <2>7. core # t => m \in UserMatches /\ m.propagateCase
    BY <2>4, <2>6, Zenon
  <2>8. m \in Resolve(h.id)
    BY <2>6
  <2>9. Resolved(h)
    BY <2>4, <2>5, <2>6, <2>7, <2>8, Zenon DEF Resolved
  <2>. QED BY <2>9 DEF h
<1>. QED BY <1>3, <1>4, <1>5, MatchingAssumption DEF MatchingAssumption

\* So does all that an event finds.
LEMMA ProcessResolves ==
  ASSUME TreeInv, HistoryInv, NEW e \in Inputs,
         NEW r, r = RollingProcess(Prev.paths, states # <<>>, e)
  PROVE  \A h \in Range(r.results) : Resolved(h)
<1>1. /\ Prev \in State /\ Was \in Past
      /\ RollingAgrees(Prev.paths, Was.since, Was.fresh)
      /\ states = <<>> => Was = NoPast
      /\ states # <<>> /\ Was.fresh => Was.since # <<>>
  BY NowAgrees
<1>2. /\ Prev.paths \in Seq(Path)
      /\ Was.since \in Seq(Inputs) /\ Was.fresh \in BOOLEAN
  BY <1>1 DEF State, Past
<1>3. states = <<>> => Was.fresh /\ Was.since = <<>>
  BY <1>1 DEF NoPast
<1>. DEFINE has == states # <<>>
<1>4. /\ has \in BOOLEAN
      /\ ~has => Was.fresh /\ Was.since = <<>>
      /\ has /\ Was.fresh => Was.since # <<>>
      /\ r = RollingProcess(Prev.paths, has, e)
  BY <1>1, <1>3
<1>. HIDE DEF has
<1>. DEFINE next == NextPaths(Prev.paths, has, e)
            now == Append(Was.since, e)
<1>5. next \in Seq(Path) /\ Exact(next, now, Was.fresh)
  BY <1>1, <1>2, <1>4, ExactStep DEF RollingAgrees
<1>6. now \in Seq(Inputs)
  BY <1>2
<1>. HIDE DEF next, now
<1>7. CASE r.results = <<>>
  <2>1. DOMAIN <<>> = {}
    OBVIOUS
  <2>. QED BY <1>7, <2>1 DEF Range
<1>8. ASSUME NEW j \in 1 .. Len(next), FirstHit(next, j),
             r = [paths |-> <<>>, results |-> Results(next[j])],
             NEW h \in Range(r.results)
      PROVE  Resolved(h)
  <2>1. r.results = Results(next[j])
    BY <1>8
  <2>2. next[j] \in Path /\ next[j] \in ToSet(next) /\ IsLeaf(next[j].at)
    BY <1>5, <1>8 DEF ToSet, FirstHit
  <2>3. PICK k \in 1 .. Len(now), d \in 0 .. 1 : Came(next[j], k, d, now, Was.fresh)
    BY <1>5, <2>2 DEF Exact
  <2>4. PICK i \in DOMAIN Results(next[j]) : h = Results(next[j])[i]
    BY <2>1 DEF Range
  <2>5. Resolved(Results(next[j])[i])
    BY <1>2, <1>6, <2>2, <2>3, ResultResolved
  <2>. QED BY <2>4, <2>5
<1>9. \/ r.results = <<>>
      \/ \E j \in 1 .. Len(next) : /\ FirstHit(next, j)
                                   /\ r = [paths |-> <<>>, results |-> Results(next[j])]
  BY <1>2, <1>4, RollingIs DEF next
<1>. QED BY <1>7, <1>8, <1>9

\* What the rolling matcher reports leads back to the match it stands for.
THEOREM HitsLeadBack == Spec => []HitsResolve
<1>1. Init => TreeInv /\ HistoryInv /\ HitsResolve
  <2>1. Init => HitsResolve
    <3>1. DOMAIN <<>> = {}
      OBVIOUS
    <3>. QED BY <3>1 DEF Init, HitsResolve, Range
  <2>. QED BY <2>1, InitTree, HistoryStart DEF Init
<1>2. TreeInv /\ HistoryInv /\ HitsResolve /\ [Next]_vars => HitsResolve'
  <2>. SUFFICES ASSUME TreeInv, HistoryInv, HitsResolve, [Next]_vars PROVE HitsResolve'
    OBVIOUS
  <2>1. ASSUME found'.rolling = <<>> PROVE HitsResolve'
    <3>1. DOMAIN <<>> = {}
      OBVIOUS
    <3>. QED BY <2>1, <3>1 DEF HitsResolve, Range
  <2>2. ASSUME found' = found PROVE HitsResolve'
    BY <2>2 DEF HitsResolve
  <2>3. ASSUME NEW e \in Inputs, Process(e) PROVE HitsResolve'
    <3>. DEFINE r == RollingProcess(Prev.paths, states # <<>>, e)
    <3>1. found'.rolling = r.results
      BY <2>3 DEF Process, Prev
    <3>2. \A h \in Range(r.results) : Resolved(h)
      BY ProcessResolves
    <3>. HIDE DEF r
    <3>3. \A h \in Range(found'.rolling) : Resolved(h)
      BY <3>1, <3>2
    <3>. QED BY <3>3 DEF HitsResolve, Resolved
  <2>4. ASSUME Backspace \/ Invalidate PROVE found'.rolling = <<>>
    BY <2>4 DEF Backspace, Invalidate
  <2>5. ASSUME BuildTree \/ UNCHANGED vars PROVE found' = found
    BY <2>5 DEF BuildTree, vars
  <2>. QED BY <2>1, <2>2, <2>3, <2>4, <2>5 DEF Next
<1>. QED BY <1>1, <1>2, MatchingStep, HistoryKeeps, PTL DEF Spec

-----------------------------------------------------------------------------
(* The matchers implement the plain reading.                                *)

TextOf(p) == [events |-> p.since, fresh |-> p.fresh]
TextsOf(s) == [i \in DOMAIN s |-> TextOf(s[i])]
HitOf(h) == [id |-> h.id, trigger |-> h.trigger]
HitsOf(s) == {HitOf(h) : h \in Range(s)}

\* At the start nothing is remembered and nothing found.
LEMMA PromiseInit == Init => Promise!Init
<1>1. DOMAIN <<>> = {}
  OBVIOUS
<1>2. ASSUME Init PROVE Promise!Init
  <2>1. past = <<>> /\ found.rolling = <<>>
    BY <1>2 DEF Init
  <2>2. TextsOf(past) = <<>> /\ HitsOf(found.rolling) = {}
    BY <1>1, <2>1 DEF TextsOf, HitsOf, Range
  <2>. QED BY <2>2 DEF Promise!Init, TextsOf, HitsOf, TextOf, HitOf
<1>. QED BY <1>2

\* Invalidate is Forget.
LEMMA PromiseForget == Invalidate => Promise!Forget
<1>1. DOMAIN <<>> = {}
  OBVIOUS
<1>2. ASSUME Invalidate PROVE Promise!Forget
  <2>1. past' = <<>> /\ found'.rolling = <<>>
    BY <1>2 DEF Invalidate
  <2>2. TextsOf(past') = <<>> /\ HitsOf(found'.rolling) = {}
    BY <1>1, <2>1 DEF TextsOf, HitsOf, Range
  <2>. QED BY <2>2 DEF Promise!Forget, TextsOf, HitsOf, TextOf, HitOf
<1>. QED BY <1>2

\* What a match completes is what leads to its position.
LEMMA CompletesIs ==
  ASSUME NEW r, r.items \in Seq(Item), r.items # <<>>,
         NEW now \in Seq(Inputs), NEW fresh \in BOOLEAN, NEW k \in 1 .. Len(now),
         NEW text, text.events = now, text.fresh = fresh
  PROVE  Promise!Completes(r, text, k) <=> \E d \in 0 .. 1 : Spells(r.items, k, d, now, fresh)
<1>. DEFINE at == r.items
            n == Len(now)
            m == n - k + 1
            p == SubSeq(now, k, n)
<1>1. /\ p \in Seq(Inputs) /\ Len(p) = m
      /\ \A i \in 1 .. m : p[i] = now[k + i - 1]
  BY TailPart
<1>2. n \in Nat /\ m \in Nat /\ m >= 1 /\ at \in Seq(Item)
  OBVIOUS
<1>3. Promise!Completes(r, text, k)
        <=> \/ Promise!Matches(at, p)
            \/ /\ fresh /\ k = 1 /\ Len(at) > 1 /\ Head(at) = WordSeparator
               /\ Promise!Matches(Tail(at), p)
  BY DEF Promise!Completes, IsSeparatorItem
<1>. HIDE DEF at, n, m, p
<1>4. Promise!Matches(at, p) <=> Spells(at, k, 0, now, fresh)
  <2>1. DOMAIN at = 1 .. Len(at)
    BY <1>2
  <2>2. Promise!Matches(at, p) <=> Len(at) = m /\ \A i \in 1 .. Len(at) : Consumes(p[i], at[i])
    BY <1>1, <2>1 DEF Promise!Matches
  <2>3. Spells(at, k, 0, now, fresh) <=> Len(at) = m /\ \A i \in 1 .. m : Consumes(now[k + i - 1], at[i])
    <3>1. m + 0 = m /\ \A i \in 1 .. m : i + 0 = i
      BY <1>2
    <3>2. Spells(at, k, 0, now, fresh) <=> Len(at) = m + 0 /\ \A i \in 1 .. m : Consumes(now[k + i - 1], at[i + 0])
      BY DEF Spells, m, n
    <3>. QED BY <3>1, <3>2
  <2>. QED BY <1>1, <2>2, <2>3
<1>5. (/\ fresh /\ k = 1 /\ Len(at) > 1 /\ Head(at) = WordSeparator
       /\ Promise!Matches(Tail(at), p)) <=> Spells(at, k, 1, now, fresh)
  <2>1. Len(at) >= 1 => /\ Len(Tail(at)) = Len(at) - 1 /\ Tail(at) \in Seq(Item)
                        /\ \A i \in 1 .. Len(at) - 1 : Tail(at)[i] = at[i + 1]
                        /\ Head(at) = at[1]
    BY <1>2
  <2>2. Spells(at, k, 1, now, fresh)
          <=> /\ Len(at) = m + 1
              /\ \A i \in 1 .. m : Consumes(now[k + i - 1], at[i + 1])
              /\ fresh /\ k = 1 /\ at[1] = WordSeparator
    BY DEF Spells, m, n
  <2>3. ASSUME Len(at) >= 1
        PROVE  Promise!Matches(Tail(at), p)
                 <=> Len(at) - 1 = m /\ \A i \in 1 .. m : Consumes(now[k + i - 1], at[i + 1])
    <3>1. DOMAIN Tail(at) = 1 .. Len(Tail(at))
      BY <2>1, <2>3
    <3>2. Promise!Matches(Tail(at), p)
            <=> Len(at) - 1 = m /\ \A i \in 1 .. Len(at) - 1 : Consumes(p[i], Tail(at)[i])
      BY <1>1, <2>1, <2>3, <3>1 DEF Promise!Matches
    <3>. QED BY <1>1, <2>1, <2>3, <3>2
  <2>4. Len(at) \in Nat /\ (Len(at) - 1 = m <=> Len(at) = m + 1) /\ (Len(at) = m + 1 => Len(at) > 1)
        /\ (Len(at) > 1 => Len(at) >= 1)
    BY <1>2
  <2>. QED BY <2>1, <2>2, <2>3, <2>4
<1>6. (\E d \in 0 .. 1 : Spells(at, k, d, now, fresh))
        <=> Spells(at, k, 0, now, fresh) \/ Spells(at, k, 1, now, fresh)
  <2>1. 0 .. 1 = {0, 1}
    OBVIOUS
  <2>. QED BY <2>1, Zenon
<1>. QED BY <1>3, <1>4, <1>5, <1>6, Zenon DEF at

\* The matches that share a trigger are all visible, or none is.
LEMMA VisibleAlike ==
  ASSUME NEW r \in Visible(Rules), NEW s \in Rules, s.items = r.items
  PROVE  s \in Visible(Rules)
  BY DEF Visible

\* With nothing left to insert, the tree holds what is visible.
LEMMA TreeDone ==
  ASSUME TreeInv, pending = {}
  PROVE  /\ DOMAIN tree = {r.items : r \in Visible(Rules)}
         /\ \A p \in DOMAIN tree : Holds(tree[p], p, Rules)
<1>1. Inserted = Rules /\ Rules \ pending = Rules
  BY DEF Inserted
<1>2. DOMAIN tree = {r.items : r \in Visible(Rules)}
  BY <1>1, InvariantSuffices DEF TreeHoldsVisible
<1>. QED BY <1>1, <1>2 DEF TreeInv, Contents

\* What is remembered of the texts follows what is kept of the states.
HeardText == [events : Seq(Inputs), fresh : BOOLEAN]

\* What a history entry says of the text.
LEMMA TextOfIs ==
  ASSUME NEW p \in Past
  PROVE  TextOf(p) \in HeardText /\ TextOf(p).events = p.since /\ TextOf(p).fresh = p.fresh
  BY DEF Past, HeardText, TextOf

\* One text for each entry.
LEMMA TextsOfIs ==
  ASSUME NEW s \in Seq(Past)
  PROVE  /\ TextsOf(s) \in Seq(HeardText) /\ Len(TextsOf(s)) = Len(s)
         /\ \A i \in 1 .. Len(s) : TextsOf(s)[i] = TextOf(s[i])
<1>1. DOMAIN s = 1 .. Len(s) /\ Len(s) \in Nat /\ \A i \in 1 .. Len(s) : s[i] \in Past
  OBVIOUS
<1>2. \A i \in 1 .. Len(s) : TextOf(s[i]) \in HeardText
  BY <1>1, TextOfIs
<1>. QED BY <1>1, <1>2 DEF TextsOf

\* Appending, dropping the first and dropping the last commute with it.
LEMMA TextsOfAppend ==
  ASSUME NEW s \in Seq(Past), NEW p \in Past
  PROVE  TextsOf(Append(s, p)) = Append(TextsOf(s), TextOf(p))
<1>. DEFINE a == Append(s, p)
            b == Append(TextsOf(s), TextOf(p))
            n == Len(s)
<1>1. n \in Nat /\ a \in Seq(Past) /\ Len(a) = n + 1 /\ a[n + 1] = p /\ \A i \in 1 .. n : a[i] = s[i]
  BY AppendProperties
<1>2. /\ TextsOf(s) \in Seq(HeardText) /\ Len(TextsOf(s)) = n /\ TextOf(p) \in HeardText
      /\ \A i \in 1 .. n : TextsOf(s)[i] = TextOf(s[i])
  BY TextsOfIs, TextOfIs
<1>3. b \in Seq(HeardText) /\ Len(b) = n + 1 /\ b[n + 1] = TextOf(p) /\ \A i \in 1 .. n : b[i] = TextOf(s[i])
  BY <1>2, AppendProperties
<1>. HIDE DEF a, b
<1>4. /\ TextsOf(a) \in Seq(HeardText) /\ Len(TextsOf(a)) = n + 1
      /\ \A i \in 1 .. n + 1 : TextsOf(a)[i] = TextOf(a[i])
  BY <1>1, TextsOfIs
<1>. HIDE DEF n
<1>5. \A i \in 1 .. n + 1 : TextsOf(a)[i] = b[i]
  <2>. SUFFICES ASSUME NEW i \in 1 .. n + 1 PROVE TextsOf(a)[i] = b[i]
    OBVIOUS
  <2>1. CASE i = n + 1
    BY <1>1, <1>3, <1>4, <2>1
  <2>2. CASE i # n + 1
    <3>1. i \in 1 .. n
      BY <1>1, <2>2
    <3>. QED BY <1>1, <1>3, <1>4, <3>1
  <2>. QED BY <2>1, <2>2
<1>6. TextsOf(a) = b
  BY <1>3, <1>4, <1>5, SeqEqual
<1>. QED BY <1>6 DEF a, b

LEMMA TextsOfTail ==
  ASSUME NEW s \in Seq(Past), s # <<>>
  PROVE  TextsOf(Tail(s)) = Tail(TextsOf(s))
<1>. DEFINE n == Len(s)
            a == Tail(s)
            b == Tail(TextsOf(s))
<1>1. n \in Nat /\ n >= 1 /\ a \in Seq(Past) /\ Len(a) = n - 1 /\ \A i \in 1 .. n - 1 : a[i] = s[i + 1]
  OBVIOUS
<1>2. /\ TextsOf(s) \in Seq(HeardText) /\ Len(TextsOf(s)) = n
      /\ \A i \in 1 .. n : TextsOf(s)[i] = TextOf(s[i])
  BY TextsOfIs
<1>. HIDE DEF a, n
<1>3. b \in Seq(HeardText) /\ Len(b) = n - 1 /\ \A i \in 1 .. n - 1 : b[i] = TextsOf(s)[i + 1]
  <2>. DEFINE c == TextsOf(s)
  <2>. HIDE DEF c
  <2>1. c \in Seq(HeardText) /\ Len(c) = n /\ c # <<>>
    BY <1>1, <1>2 DEF c
  <2>2. Tail(c) \in Seq(HeardText) /\ Len(Tail(c)) = n - 1 /\ \A i \in 1 .. n - 1 : Tail(c)[i] = c[i + 1]
    BY <1>1, <2>1
  <2>. QED BY <2>2 DEF c
<1>4. /\ TextsOf(a) \in Seq(HeardText) /\ Len(TextsOf(a)) = n - 1
      /\ \A i \in 1 .. n - 1 : TextsOf(a)[i] = TextOf(a[i])
  BY <1>1, TextsOfIs
<1>. HIDE DEF b
<1>5. \A i \in 1 .. n - 1 : TextsOf(a)[i] = b[i]
  <2>1. \A i \in 1 .. n - 1 : i + 1 \in 1 .. n
    BY <1>1
  <2>. QED BY <1>1, <1>2, <1>3, <1>4, <2>1
<1>6. TextsOf(a) = b
  BY <1>3, <1>4, <1>5, SeqEqual
<1>. QED BY <1>6 DEF a, b

LEMMA TextsOfFront ==
  ASSUME NEW s \in Seq(Past), s # <<>>
  PROVE  TextsOf(Front(s)) = Front(TextsOf(s))
<1>. DEFINE n == Len(s)
            a == Front(s)
            b == Front(TextsOf(s))
<1>1. n \in Nat /\ n - 1 \in Nat /\ a \in Seq(Past) /\ Len(a) = n - 1 /\ \A i \in 1 .. n - 1 : a[i] = s[i]
  <2>. DEFINE m == Len(s) - 1
  <2>3. m \in Nat /\ m <= Len(s) /\ m = n - 1
    OBVIOUS
  <2>. HIDE DEF m, n
  <2>4. SubSeq(s, 1, m) \in Seq(Past) /\ Len(SubSeq(s, 1, m)) = m
        /\ \A i \in 1 .. m : SubSeq(s, 1, m)[i] = s[i]
    BY <2>3
  <2>1. SubSeq(s, 1, n - 1) \in Seq(Past) /\ Len(SubSeq(s, 1, n - 1)) = n - 1
        /\ \A i \in 1 .. n - 1 : SubSeq(s, 1, n - 1)[i] = s[i]
    BY <2>3, <2>4
  <2>. USE DEF n
  <2>2. n \in Nat /\ n - 1 \in Nat /\ a = SubSeq(s, 1, n - 1)
    BY DEF Front
  <2>. HIDE DEF a, n
  <2>. QED BY <2>1, <2>2 DEF n
<1>2. /\ TextsOf(s) \in Seq(HeardText) /\ Len(TextsOf(s)) = n
      /\ \A i \in 1 .. n : TextsOf(s)[i] = TextOf(s[i])
  BY TextsOfIs
<1>. HIDE DEF a, n
<1>3. b \in Seq(HeardText) /\ Len(b) = n - 1 /\ \A i \in 1 .. n - 1 : b[i] = TextsOf(s)[i]
  <2>. DEFINE c == TextsOf(s)
  <2>. HIDE DEF c
  <2>1. c \in Seq(HeardText) /\ Len(c) = n
    BY <1>2 DEF c
  <2>2. SubSeq(c, 1, n - 1) \in Seq(HeardText) /\ Len(SubSeq(c, 1, n - 1)) = n - 1
        /\ \A i \in 1 .. n - 1 : SubSeq(c, 1, n - 1)[i] = c[i]
    BY <1>1, <2>1
  <2>. QED BY <2>1, <2>2 DEF c, Front
<1>4. /\ TextsOf(a) \in Seq(HeardText) /\ Len(TextsOf(a)) = n - 1
      /\ \A i \in 1 .. n - 1 : TextsOf(a)[i] = TextOf(a[i])
  BY <1>1, TextsOfIs
<1>. HIDE DEF b
<1>5. \A i \in 1 .. n - 1 : TextsOf(a)[i] = b[i]
  <2>1. \A i \in 1 .. n - 1 : i \in 1 .. n
    BY <1>1
  <2>. QED BY <1>1, <1>2, <1>3, <1>4, <2>1
<1>6. TextsOf(a) = b
  BY <1>3, <1>4, <1>5, SeqEqual
<1>. QED BY <1>6 DEF a, b

\* So does forgetting the oldest.
LEMMA TextsOfCapped ==
  ASSUME NEW s \in Seq(Past), s # <<>>
  PROVE  TextsOf(Capped(s)) = IF Len(TextsOf(s)) > MaxHistory THEN Tail(TextsOf(s)) ELSE TextsOf(s)
  BY TextsOfTail, TextsOfIs DEF Capped

\* The texts that are remembered.
Remembered(all) == IF Len(all) > MaxHistory THEN Tail(all) ELSE all

\* What is remembered after an event.
LEMMA TextsAreKept ==
  ASSUME past \in Seq(Past), NEW p \in Past, past' = Capped(Append(past, p))
  PROVE  TextsOf(past') = Remembered(Append(TextsOf(past), TextOf(p)))
<1>1. Append(past, p) \in Seq(Past) /\ Append(past, p) # <<>>
  BY AppendProperties
<1>. QED BY <1>1, TextsOfAppend, TextsOfCapped DEF Remembered

\* What was typed since the last match is the current text.
LEMMA PromiseCurrent ==
  ASSUME HistoryInv
  PROVE  Promise!Current = TextOf(Was)
<1>1. past \in Seq(Past)
  BY DEF HistoryInv
<1>2. TextsOf(past) \in Seq(HeardText) /\ Len(TextsOf(past)) = Len(past)
      /\ \A i \in 1 .. Len(past) : TextsOf(past)[i] = TextOf(past[i])
  BY <1>1, TextsOfIs
<1>3. Promise!Current = IF TextsOf(past) = <<>> THEN Promise!Unknown ELSE Last(TextsOf(past))
  BY DEF Promise!Current, Promise!Last, Last, TextsOf, TextOf
<1>4. CASE past = <<>>
  <2>1. TextsOf(past) = <<>>
    BY <1>2, <1>4
  <2>2. TextOf(NoPast) = Promise!Unknown
    BY DEF TextOf, NoPast, Promise!Unknown
  <2>. QED BY <1>3, <1>4, <2>1, <2>2 DEF Was
<1>5. CASE past # <<>>
  <2>1. TextsOf(past) # <<>> /\ Len(past) \in 1 .. Len(past)
    BY <1>1, <1>2, <1>5
  <2>2. Last(TextsOf(past)) = TextOf(Last(past))
    BY <1>2, <2>1 DEF Last
  <2>. QED BY <1>3, <1>5, <2>1, <2>2 DEF Was
<1>. QED BY <1>4, <1>5

\* Backspace is TakeBack.
LEMMA PromiseTakeBack == HistoryInv /\ Backspace => Promise!TakeBack
<1>1. ASSUME HistoryInv, Backspace PROVE Promise!TakeBack
  <2>1. past \in Seq(Past) /\ Len(states) = Len(past) /\ states \in Seq(State)
    BY <1>1 DEF HistoryInv
  <2>2. states # <<>> /\ past' = Front(past) /\ found'.rolling = <<>>
    BY <1>1 DEF Backspace
  <2>3. past # <<>>
    BY <2>1, <2>2
  <2>4. TextsOf(past) # <<>>
    BY <2>1, <2>3, TextsOfIs
  <2>5. TextsOf(past') = Front(TextsOf(past))
    BY <2>1, <2>2, <2>3, TextsOfFront
  <2>6. HitsOf(found'.rolling) = {}
    <3>1. DOMAIN <<>> = {}
      OBVIOUS
    <3>. QED BY <2>2, <3>1 DEF HitsOf, Range
  <2>. QED BY <2>4, <2>5, <2>6 DEF Promise!TakeBack, Promise!Front, Front, TextsOf, TextOf, HitsOf, HitOf
<1>. QED BY <1>1

\* The text that is reported is that of the events that were consumed.
LEMMA PromiseText ==
  ASSUME NEW q \in Path, NEW now \in Seq(Inputs), NEW fresh \in BOOLEAN,
         NEW k \in 1 .. Len(now), NEW d \in 0 .. 1, Came(q, k, d, now, fresh)
  PROVE  Promise!Text(SubSeq(now, k, Len(now))) = ExtractString(q.events).trigger
<1>. DEFINE n == Len(now)
            m == n - k + 1
            p == SubSeq(now, k, n)
            a == [i \in DOMAIN p |-> p[i].chars]
            b == [i \in DOMAIN q.events |-> q.events[i].event.chars]
<1>1. /\ p \in Seq(Inputs) /\ Len(p) = m
      /\ \A i \in 1 .. m : p[i] = now[k + i - 1]
  BY TailPart
<1>2. /\ q.events \in Seq(Heard) /\ Len(q.events) = m
      /\ \A i \in 1 .. m : q.events[i].event = now[k + i - 1]
  BY DEF Came, Path
<1>. HIDE DEF m, p
<1>3. DOMAIN p = 1 .. m /\ DOMAIN q.events = 1 .. m
  BY <1>1, <1>2
<1>4. \A i \in 1 .. m : p[i].chars = q.events[i].event.chars
  BY <1>1, <1>2
<1>5. a = b
  BY <1>3, <1>4
<1>6. Promise!Text(p) = FlattenSeq(a)
  BY DEF Promise!Text, Promise!FlattenSeq, FlattenSeq
<1>7. ExtractString(q.events).trigger = FlattenSeq(b)
  BY DEF ExtractString
<1>. HIDE DEF a, b
<1>. QED BY <1>5, <1>6, <1>7 DEF p

\* The matches that are reported are those that share the trigger.
LEMMA PromiseHits ==
  ASSUME TreeInv, pending = {},
         NEW q \in Path, IsLeaf(q.at), NEW now \in Seq(Inputs), NEW fresh \in BOOLEAN,
         NEW k \in 1 .. Len(now), NEW d \in 0 .. 1, Came(q, k, d, now, fresh),
         NEW text, text.events = now, NEW r \in Visible(Rules), r.items = q.at
  PROVE  HitsOf(Results(q))
           = {Promise!Hit(s, text, k) : s \in {u \in Visible(Rules) : u.items = r.items}}
<1>. DEFINE x == ExtractString(q.events)
            ids == tree[q.at]
            S == {u \in Visible(Rules) : u.items = r.items}
            H(id) == [id |-> id, trigger |-> x.trigger]
<1>1. /\ DOMAIN Results(q) = 1 .. Len(ids)
      /\ \A i \in 1 .. Len(ids) :
           Results(q)[i] = [id |-> ids[i], trigger |-> x.trigger, left |-> x.left, right |-> x.right]
  BY ResultsAre
<1>2. Holds(ids, q.at, Rules)
  BY TreeDone DEF IsLeaf
<1>3. \A s : Promise!Hit(s, text, k) = H(s.id)
  BY PromiseText DEF Promise!Hit
<1>. HIDE DEF ids, x
<1>4. \A i \in 1 .. Len(ids) : HitOf(Results(q)[i]) = H(ids[i])
  <2>. SUFFICES ASSUME NEW i \in 1 .. Len(ids) PROVE HitOf(Results(q)[i]) = H(ids[i])
    OBVIOUS
  <2>1. Results(q)[i].id = ids[i] /\ Results(q)[i].trigger = x.trigger
    BY <1>1
  <2>. QED BY <2>1 DEF HitOf
<1>. HIDE DEF H
<1>5. ASSUME NEW y \in HitsOf(Results(q)) PROVE \E s \in S : y = H(s.id)
  <2>1. PICK i \in 1 .. Len(ids) : y = HitOf(Results(q)[i])
    BY <1>1 DEF HitsOf, Range
  <2>2. PICK s \in Rules : s.items = q.at /\ s.id = ids[i]
    BY <1>2 DEF Holds
  <2>3. s \in S
    BY <2>2, VisibleAlike
  <2>. QED BY <1>4, <2>1, <2>2, <2>3
<1>6. ASSUME NEW s \in S PROVE H(s.id) \in HitsOf(Results(q))
  <2>1. s \in Rules /\ s.items = q.at
    BY DEF Visible
  <2>2. PICK i \in 1 .. Len(ids) : ids[i] = s.id
    BY <1>2, <2>1 DEF Holds
  <2>3. H(s.id) = HitOf(Results(q)[i])
    BY <1>4, <2>2
  <2>4. Results(q)[i] \in Range(Results(q))
    BY <1>1 DEF Range
  <2>. QED BY <2>3, <2>4 DEF HitsOf
<1>7. HitsOf(Results(q)) = {H(s.id) : s \in S}
  BY <1>5, <1>6
<1>. QED BY <1>3, <1>7

\* A match that the events complete is at the end of a partial match that began
\* where they did.
LEMMA PromiseBegins ==
  ASSUME TreeInv, pending = {}, NEW next \in Seq(Path), NEW now \in Seq(Inputs),
         NEW fresh \in BOOLEAN, Exact(next, now, fresh),
         NEW text, text.events = now, text.fresh = fresh,
         NEW r \in Visible(Rules), NEW k \in 1 .. Len(now), Promise!Completes(r, text, k)
  PROVE  \E j \in 1 .. Len(next) : IsLeaf(next[j].at) /\ Len(next[j].events) = Len(now) - k + 1
<1>1. r \in Rules /\ r.items \in Seq(Item) /\ r.items # <<>>
  BY RulesAssumption DEF RulesAssumption, Visible
<1>2. PICK d \in 0 .. 1 : Spells(r.items, k, d, now, fresh)
  BY <1>1, CompletesIs
<1>3. IsLeaf(r.items)
  BY TreeDone DEF IsLeaf
<1>4. PICK q \in ToSet(next) : q.at = r.items /\ Len(q.events) = Len(now) - k + 1
  BY <1>1, <1>2, <1>3 DEF Exact, Alive
<1>5. PICK j \in 1 .. Len(next) : q = next[j]
  BY DEF ToSet
<1>. QED BY <1>3, <1>4, <1>5

\* A partial match that arrives is a match that the events complete.
LEMMA PromiseCompletes ==
  ASSUME TreeInv, pending = {}, NEW q \in Path, IsLeaf(q.at), NEW now \in Seq(Inputs),
         NEW fresh \in BOOLEAN, NEW k \in 1 .. Len(now), NEW d \in 0 .. 1, Came(q, k, d, now, fresh),
         NEW text, text.events = now, text.fresh = fresh
  PROVE  \E r \in Visible(Rules) : r.items = q.at /\ Promise!Completes(r, text, k)
<1>1. PICK r \in Visible(Rules) : r.items = q.at
  BY TreeDone DEF IsLeaf
<1>2. r.items \in Seq(Item) /\ r.items # <<>>
  BY RulesAssumption DEF RulesAssumption, Visible
<1>3. Spells(r.items, k, d, now, fresh)
  BY <1>1 DEF Came
<1>4. Promise!Completes(r, text, k)
  BY <1>2, <1>3, CompletesIs
<1>. QED BY <1>1, <1>4

\* Process is Type: the first partial match that arrives began first.
LEMMA PromiseType ==
  ASSUME TreeInv, HistoryInv, NEW e \in Inputs, Process(e)
  PROVE  Promise!Type(e)
<1>. DEFINE r == RollingProcess(Prev.paths, states # <<>>, e)
            x == RegexProcess(Prev.buffer, e)
            has == states # <<>>
            now == Append(Was.since, e)
            fresh == Was.fresh
            text == [Promise!Current EXCEPT !.events = Append(@, e)]
            next == NextPaths(Prev.paths, has, e)
            n == Len(now)
            Begin == {b \in Visible(Rules) \X DOMAIN text.events :
                        Promise!Completes(b[1], text, b[2])}
<1>1. /\ past' = Capped(Append(past, Typed(r, x, e)))
      /\ found'.rolling = r.results /\ pending = {}
  BY DEF Process, Prev, Was, Typed
<1>2. Typed(r, x, e) \in Past
  BY ProcessAgrees
<1>3. Typed(r, x, e).since = (IF r.results = <<>> THEN now ELSE <<>>)
      /\ Typed(r, x, e).fresh = (r.results = <<>> /\ fresh)
  BY DEF Typed
<1>4. past \in Seq(Past)
  BY DEF HistoryInv
<1>5. TextsOf(past') = Remembered(Append(TextsOf(past), TextOf(Typed(r, x, e))))
  <2>. DEFINE p == Typed(r, x, e)
  <2>. HIDE DEF p
  <2>1. p \in Past /\ past' = Capped(Append(past, p))
    BY <1>1, <1>2 DEF p
  <2>. QED BY <1>4, <2>1, TextsAreKept DEF p
<1>6. /\ Prev \in State /\ Was \in Past
      /\ RollingAgrees(Prev.paths, Was.since, fresh)
      /\ states = <<>> => Was = NoPast
      /\ states # <<>> /\ fresh => Was.since # <<>>
  BY NowAgrees
<1>7. /\ Prev.paths \in Seq(Path)
      /\ Was.since \in Seq(Inputs) /\ fresh \in BOOLEAN
  BY <1>6 DEF State, Past
<1>8. states = <<>> => fresh /\ Was.since = <<>>
  BY <1>6 DEF NoPast
<1>9. /\ has \in BOOLEAN
      /\ ~has => fresh /\ Was.since = <<>>
      /\ has /\ fresh => Was.since # <<>>
      /\ r = RollingProcess(Prev.paths, has, e)
  BY <1>6, <1>8
<1>10. Promise!Type(e) <=>
         IF Begin = {} THEN HitsOf(found'.rolling) = {} /\ TextsOf(past') = Remembered(Append(TextsOf(past), text))
         ELSE /\ TextsOf(past') = Remembered(Append(TextsOf(past), [events |-> <<>>, fresh |-> FALSE]))
              /\ \E b \in Begin :
                   /\ \A c \in Begin : b[2] <= c[2]
                   /\ HitsOf(found'.rolling)
                        = {Promise!Hit(s, text, b[2]) : s \in {u \in Visible(Rules) : u.items = b[1].items}}
  BY DEF Promise!Type, Promise!Remember, Remembered, TextsOf, TextOf, HitsOf, HitOf
<1>11. text = [events |-> now, fresh |-> fresh]
  <2>1. Promise!Current = TextOf(Was)
    BY PromiseCurrent
  <2>. QED BY <2>1 DEF TextOf
<1>12. text.events = now /\ text.fresh = fresh
  BY <1>11
<1>13. now \in Seq(Inputs) /\ n \in Nat /\ n >= 1 /\ DOMAIN now = 1 .. n
  BY <1>7
<1>. HIDE DEF has, r, x, text, now, fresh
<1>14. next \in Seq(Path) /\ Exact(next, now, fresh)
  BY <1>6, <1>7, <1>9, ExactStep DEF RollingAgrees, now, fresh
<1>15. \/ /\ \A i \in 1 .. Len(next) : ~IsLeaf(next[i].at)
          /\ r = [paths |-> next, results |-> <<>>]
       \/ \E h \in 1 .. Len(next) : FirstHit(next, h) /\ r = [paths |-> <<>>, results |-> Results(next[h])]
  BY <1>7, <1>9, RollingIs
<1>. HIDE DEF next
<1>16. ASSUME NEW b \in Begin
       PROVE  /\ b[1] \in Visible(Rules) /\ b[2] \in 1 .. n
              /\ \E j \in 1 .. Len(next) :
                    IsLeaf(next[j].at) /\ Len(next[j].events) = n - b[2] + 1
  <2>1. b[1] \in Visible(Rules) /\ b[2] \in 1 .. n /\ Promise!Completes(b[1], text, b[2])
    BY <1>12, <1>13
  <2>. QED BY <1>1, <1>7, <1>12, <1>13, <1>14, <2>1, PromiseBegins DEF fresh, n
<1>. HIDE DEF Begin
<1>17. CASE /\ \A i \in 1 .. Len(next) : ~IsLeaf(next[i].at)
            /\ r = [paths |-> next, results |-> <<>>]
  <2>1. r.results = <<>>
    BY <1>17
  <2>2. Begin = {}
    BY <1>16, <1>17
  <2>3. HitsOf(found'.rolling) = {}
    <3>1. DOMAIN <<>> = {}
      OBVIOUS
    <3>. QED BY <1>1, <2>1, <3>1 DEF HitsOf, Range
  <2>4. TextOf(Typed(r, x, e)) = text
    <3>1. fresh = (r.results = <<>> /\ fresh)
      BY <1>7, <2>1 DEF fresh
    <3>. QED BY <1>3, <1>11, <2>1, <3>1 DEF TextOf
  <2>. QED BY <1>5, <1>10, <2>2, <2>3, <2>4
<1>18. ASSUME NEW h \in 1 .. Len(next), FirstHit(next, h),
              r = [paths |-> <<>>, results |-> Results(next[h])]
       PROVE  Promise!Type(e)
  <2>. DEFINE q == next[h]
  <2>1. r.results = Results(q)
    BY <1>18
  <2>2. q \in Path /\ q \in ToSet(next) /\ IsLeaf(q.at)
    BY <1>14, <1>18 DEF ToSet, FirstHit
  <2>3. r.results # <<>>
    BY <2>1, <2>2, ResultsAre
  <2>4. TextOf(Typed(r, x, e)) = [events |-> <<>>, fresh |-> FALSE]
    BY <1>3, <2>3 DEF TextOf
  <2>5. PICK k \in 1 .. n, d \in 0 .. 1 : Came(q, k, d, now, fresh)
    BY <1>14, <2>2 DEF Exact
  <2>. HIDE DEF q
  <2>6. PICK s \in Visible(Rules) : s.items = q.at /\ Promise!Completes(s, text, k)
    BY <1>1, <1>7, <1>12, <1>13, <2>2, <2>5, PromiseCompletes DEF fresh
  <2>7. HitsOf(Results(q)) = {Promise!Hit(u, text, k) : u \in {v \in Visible(Rules) : v.items = s.items}}
    BY <1>1, <1>7, <1>12, <1>13, <2>2, <2>5, <2>6, PromiseHits DEF fresh
  <2>. DEFINE b == <<s, k>>
  <2>8. b \in Begin /\ b[1] = s /\ b[2] = k
    BY <1>12, <1>13, <2>5, <2>6 DEF Begin
  <2>9. ASSUME NEW c \in Begin PROVE b[2] <= c[2]
    <3>1. c[2] \in 1 .. n
      BY <1>16
    <3>2. PICK j \in 1 .. Len(next) : IsLeaf(next[j].at) /\ Len(next[j].events) = n - c[2] + 1
      BY <1>16
    <3>3. h <= j
      <4>1. ~(j \in 1 .. h - 1)
        BY <1>18, <3>2 DEF FirstHit
      <4>. QED BY <1>14, <4>1
    <3>4. Len(next[j].events) <= Len(next[h].events)
      BY <1>14, <3>3 DEF Exact, Longest
    <3>5. Len(q.events) = n - k + 1
      BY <2>5 DEF Came, n
    <3>6. n - c[2] + 1 <= n - k + 1
      BY <3>2, <3>4, <3>5 DEF q
    <3>. HIDE DEF n
    <3>7. k <= c[2]
      BY <1>13, <2>5, <3>1, <3>6
    <3>. QED BY <2>8, <3>7
  <2>. HIDE DEF b
  <2>10. HitsOf(found'.rolling)
           = {Promise!Hit(u, text, b[2]) : u \in {v \in Visible(Rules) : v.items = b[1].items}}
    BY <1>1, <2>1, <2>7, <2>8
  <2>11. TextsOf(past') = Remembered(Append(TextsOf(past), [events |-> <<>>, fresh |-> FALSE]))
    BY <1>5, <2>4
  <2>. QED BY <1>10, <2>8, <2>9, <2>10, <2>11
<1>. QED BY <1>15, <1>17, <1>18

\* The tree, the partial matches and the popped states implement the plain reading:
\* every step is one of Triggers, or none for it.
THEOREM DetectionIsExact == Spec => DetectsTriggers
<1>1. Init => TreeInv /\ HistoryInv
  BY InitTree, HistoryStart DEF Init
<1>2. TreeInv /\ HistoryInv /\ [Next]_vars => TreeInv' /\ HistoryInv'
  BY MatchingStep, HistoryKeeps
<1>3. TreeInv /\ HistoryInv /\ [Next]_vars
        => Promise!Next \/ (TextsOf(past') = TextsOf(past) /\ HitsOf(found'.rolling) = HitsOf(found.rolling))
  <2>. SUFFICES ASSUME TreeInv, HistoryInv, [Next]_vars
                PROVE  Promise!Next \/ (TextsOf(past') = TextsOf(past)
                                        /\ HitsOf(found'.rolling) = HitsOf(found.rolling))
    OBVIOUS
  <2>1. CASE BuildTree \/ UNCHANGED vars
    BY <2>1 DEF BuildTree, vars
  <2>2. ASSUME NEW e \in Inputs, Process(e) PROVE Promise!Next
    BY <2>2, PromiseType DEF Promise!Next
  <2>3. CASE Backspace
    BY <2>3, PromiseTakeBack DEF Promise!Next
  <2>4. CASE Invalidate
    BY <2>4, PromiseForget DEF Promise!Next
  <2>. QED BY <2>1, <2>2, <2>3, <2>4 DEF Next
<1>4. TreeInv /\ HistoryInv /\ [Next]_vars
        => [Promise!Next]_<<[i \in DOMAIN past |-> [events |-> past[i].since, fresh |-> past[i].fresh]],
                            {[id |-> h.id, trigger |-> h.trigger] : h \in Range(found.rolling)}>>
  BY <1>3 DEF TextsOf, TextOf, HitsOf, HitOf
<1>. QED BY <1>1, <1>2, <1>4, PromiseInit, PTL DEF Spec, DetectsTriggers, Promise!Spec
=============================================================================
