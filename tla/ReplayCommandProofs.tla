------------------------ MODULE ReplayCommandProofs ------------------------
(***************************************************************************)
(* The files of a run, for any number of symbols, batches and inputs: an   *)
(* open that fails leaves nothing behind, files closed without an error    *)
(* hold every row, and exit code 0 of run_replay means what                *)
(* ReplayExitIsHonest says.                                                *)
(***************************************************************************)
EXTENDS ReplayCommand, SequenceTheorems, TLAPS

Sink == [open : BOOLEAN, created : BOOLEAN, exists : BOOLEAN, failed : BOOLEAN,
         buffered : Seq(Nat), durable : Seq(Nat)]

(* All rows a file has taken, on disk or not.                              *)
Taken(s) == s.durable \o s.buffered

-----------------------------------------------------------------------------
(* What the calls on a file do to the rows it has taken.                   *)

LEMMA TakenIsSeq ==
  ASSUME NEW s \in Sink
  PROVE  Taken(s) \in Seq(Nat)
BY ConcatProperties DEF Sink, Taken

LEMMA FailedSink ==
  ASSUME NEW s \in Sink
  PROVE  /\ Failed(s) \in Sink
         /\ Failed(s).failed
         /\ Failed(s).open = s.open /\ Failed(s).created = s.created
         /\ Failed(s).exists = s.exists
         /\ Taken(Failed(s)) = Taken(s)
BY Zenon DEF Failed, Taken, Sink

LEMMA FlushedSink ==
  ASSUME NEW s \in Sink
  PROVE  /\ Flushed(s) \in Sink
         /\ Flushed(s).open = s.open /\ Flushed(s).created = s.created
         /\ Flushed(s).exists = s.exists /\ Flushed(s).failed = s.failed
         /\ Flushed(s).durable = Taken(s)
         /\ Flushed(s).buffered = << >>
         /\ Taken(Flushed(s)) = Taken(s)
<1>1. Taken(s) \in Seq(Nat)
  BY TakenIsSeq
<1>2. Flushed(s).durable = Taken(s) /\ Flushed(s).buffered = << >>
  BY DEF Flushed, Taken, Sink
<1>3. Flushed(s) \in Sink
  BY <1>1, EmptySeq, Zenon DEF Flushed, Taken, Sink
<1>4. Taken(Flushed(s)) = Taken(s)
  BY <1>1, <1>2, ConcatEmptySeq DEF Taken
<1>5. /\ Flushed(s).open = s.open /\ Flushed(s).created = s.created
      /\ Flushed(s).exists = s.exists /\ Flushed(s).failed = s.failed
  BY DEF Flushed, Sink
<1>6. QED
  BY <1>2, <1>3, <1>4, <1>5

(* A call that fails takes no row; one that succeeds takes its row last.   *)
LEMMA AppendTakes ==
  ASSUME NEW s \in Sink, NEW row \in Nat, NEW o \in AppendOutcomes(s, row)
  PROVE  /\ o \in Sink
         /\ o.open = s.open /\ o.created = s.created /\ o.exists = s.exists
         /\ o.failed => Taken(o) = Taken(s)
         /\ ~ o.failed => ~ s.failed /\ Taken(o) = Append(Taken(s), row)
<1>1. CASE o = s /\ s.failed
  BY <1>1
<1>2. CASE o = Failed(s) \/ o = Failed(Flushed(s))
  BY <1>2, FailedSink, FlushedSink
<1>3. CASE o = [s EXCEPT !.buffered = Append(@, row)] /\ ~ s.failed
  <2>1. s.durable \o Append(s.buffered, row) = Append(s.durable \o s.buffered, row)
    <3>1. Append(s.buffered, row) = s.buffered \o <<row>>
      BY AppendIsConcat DEF Sink
    <3>2. Append(s.durable \o s.buffered, row) = (s.durable \o s.buffered) \o <<row>>
      BY TakenIsSeq, AppendIsConcat, Zenon DEF Taken
    <3>3. <<row>> \in Seq(Nat)
      OBVIOUS
    <3>4. QED
      BY <3>1, <3>2, <3>3, ConcatAssociative DEF Sink
  <2>2. o \in Sink
    BY <1>3, AppendProperties, Zenon DEF Sink
  <2>3. /\ o.open = s.open /\ o.created = s.created /\ o.exists = s.exists
        /\ ~ o.failed /\ ~ s.failed
        /\ o.durable = s.durable /\ o.buffered = Append(s.buffered, row)
    BY <1>3 DEF Sink
  <2>4. Taken(o) = Append(Taken(s), row)
    BY <2>1, <2>3, Zenon DEF Taken
  <2>5. QED
    BY <2>2, <2>3, <2>4
<1>4. CASE o = [Flushed(s) EXCEPT !.buffered = <<row>>] /\ ~ s.failed
  <2> DEFINE f == Flushed(s)
  <2>1. f \in Sink /\ f.durable = Taken(s) /\ <<row>> \in Seq(Nat)
    BY FlushedSink
  <2> HIDE DEF f
  <2>2. o = [f EXCEPT !.buffered = <<row>>]
    BY <1>4 DEF f
  <2>3. o \in Sink
    BY <2>1, <2>2, Zenon DEF Sink
  <2>4. /\ o.durable = Taken(s) /\ o.buffered = <<row>>
        /\ o.open = f.open /\ o.created = f.created /\ o.exists = f.exists /\ o.failed = f.failed
    BY <2>1, <2>2 DEF Sink
  <2>5. Taken(o) = Append(Taken(s), row)
    BY <2>4, TakenIsSeq, AppendIsConcat, Zenon DEF Taken
  <2>6. QED
    BY <1>4, <2>3, <2>4, <2>5, FlushedSink DEF f
<1>5. CASE o = [Flushed(s) EXCEPT !.durable = Append(@, row)] /\ ~ s.failed
  <2> DEFINE f == Flushed(s)
  <2>1. f \in Sink /\ f.durable = Taken(s) /\ f.buffered = << >>
    BY FlushedSink
  <2>2. Append(Taken(s), row) \in Seq(Nat)
    BY TakenIsSeq, AppendProperties
  <2> HIDE DEF f
  <2>3. o = [f EXCEPT !.durable = Append(Taken(s), row)]
    BY <1>5, <2>1 DEF f
  <2>4. o \in Sink
    BY <2>1, <2>2, <2>3, Zenon DEF Sink
  <2>5. /\ o.durable = Append(Taken(s), row) /\ o.buffered = << >>
        /\ o.open = f.open /\ o.created = f.created /\ o.exists = f.exists /\ o.failed = f.failed
    BY <2>1, <2>3 DEF Sink
  <2>6. Taken(o) = Append(Taken(s), row)
    BY <2>2, <2>5, ConcatEmptySeq DEF Taken
  <2>7. QED
    BY <1>5, <2>4, <2>5, <2>6, FlushedSink, Zenon DEF f
<1>6. QED
  BY <1>1, <1>2, <1>3, <1>4, <1>5 DEF AppendOutcomes

(* Flush and close keep the rows; without an error they are all on disk.   *)
LEMMA FlushKeeps ==
  ASSUME NEW s \in Sink, NEW fate \in Fates
  PROVE  LET o == FlushSink(s, fate)
         IN  /\ o \in Sink
             /\ o.open = s.open /\ o.created = s.created /\ o.exists = s.exists
             /\ Taken(o) = Taken(s)
             /\ ~ o.failed => ~ s.failed /\ o.buffered = << >>
BY FlushedSink, Zenon DEF FlushSink, Failed, Flushed, Taken, Sink

LEMMA CloseKeeps ==
  ASSUME NEW s \in Sink, NEW fate \in Fates
  PROVE  LET o == CloseSink(s, fate)
         IN  /\ o \in Sink
             /\ ~ o.open /\ o.created = s.created /\ o.exists = s.exists
             /\ Taken(o) = Taken(s)
             /\ ~ o.failed => ~ s.failed /\ o.buffered = << >>
BY FlushKeeps, ZenonT(30) DEF CloseSink, Taken, Sink

-----------------------------------------------------------------------------
(* The inductive invariant.                                                *)

OutputTypes ==
  /\ mode \in {"live_capture", "replay"}
  /\ phase \in {"preparing", "opening", "rolling_back", "failed", "ready", "closed"}
  /\ directory \in {"absent", "ours", "given"}
  /\ sinks \in [Targets -> [FileKinds -> Sink]]
  /\ accepted \in [Targets -> [FileKinds -> Seq(Nat)]]
  /\ rollbackError \in BOOLEAN
  /\ firstError \in {"none", "file_failure"}
  /\ next \in Nat \X {"audit", "book"}
  /\ phase = "opening" => next[1] \in Targets /\ next[2] \in FileKinds
  /\ phase = "rolling_back" => next[1] \in 0 .. TargetCount

(* What is known of each file while the set is opened or rolled back: the  *)
(* loop of the rollback goes down, so what is above next is already gone.  *)
FilesAccounted ==
  \A t \in Targets, k \in FileKinds :
    /\ sinks[t][k].open => sinks[t][k].created
    /\ phase \in {"preparing", "opening", "rolling_back", "failed"} /\ sinks[t][k].exists
         => sinks[t][k].created \/ rollbackError
    /\ phase = "rolling_back" /\ t > next[1] => ~ sinks[t][k].created
    /\ phase \in {"preparing", "failed"} => ~ sinks[t][k].created
    /\ phase \in {"preparing", "opening"}
         => /\ accepted[t][k] = << >>
            /\ sinks[t][k].buffered = << >> /\ sinks[t][k].durable = << >>

OpeningAccounted ==
  /\ phase \in {"preparing", "opening"} => ~ rollbackError /\ firstError = "none"
  /\ phase = "preparing" => directory # "ours"
  /\ phase = "failed" /\ ~ rollbackError => directory # "ours"

(* No error: every row given to a file has been taken by it.               *)
RowsAccounted ==
  \A t \in Targets, k \in FileKinds :
    /\ firstError = "none" => ~ sinks[t][k].failed /\ Taken(sinks[t][k]) = accepted[t][k]
    /\ phase = "closed" =>
         ~ sinks[t][k].open /\ (firstError = "none" => sinks[t][k].buffered = << >>)

BooksHaveAudits ==
  mode = "live_capture" =>
    \A t \in Targets : ToSet(Taken(sinks[t]["book"])) \subseteq ToSet(Taken(sinks[t]["audit"]))

OutputInv ==
  /\ OutputTypes
  /\ FilesAccounted
  /\ OpeningAccounted
  /\ RowsAccounted
  /\ BooksHaveAudits

LEMMA OutputInvSuffices == OutputInv => FailedOpenLeavesNothing /\ OutputsAreComplete
<1> SUFFICES ASSUME OutputInv PROVE FailedOpenLeavesNothing /\ OutputsAreComplete
  OBVIOUS
<1>1. FailedOpenLeavesNothing
  BY SMTT(30) DEF OutputInv, OutputTypes, FilesAccounted, OpeningAccounted, FailedOpenLeavesNothing,
         SomeFileExists
<1>2. ASSUME NEW t \in Targets, NEW k \in FileKinds, phase = "closed", firstError = "none"
      PROVE  sinks[t][k].durable = accepted[t][k]
  <2>1. sinks[t][k].buffered = << >> /\ Taken(sinks[t][k]) = accepted[t][k] /\ sinks[t][k] \in Sink
    BY <1>2 DEF OutputInv, OutputTypes, RowsAccounted
  <2>2. QED
    BY <2>1, ConcatEmptySeq DEF Taken, Sink
<1>3. OutputsAreComplete
  BY <1>2, Zenon DEF OutputInv, RowsAccounted, BooksHaveAudits, OutputsAreComplete, Taken
<1>4. QED
  BY <1>1, <1>3

LEMMA NoSinkIsSink ==
  /\ NoSink \in Sink /\ NewSink \in Sink
  /\ ~ NoSink.open /\ ~ NoSink.created /\ ~ NoSink.exists /\ ~ NoSink.failed
  /\ NewSink.open /\ NewSink.created /\ NewSink.exists /\ ~ NewSink.failed
  /\ NoSink.buffered = << >> /\ NoSink.durable = << >> /\ Taken(NoSink) = << >>
  /\ NewSink.buffered = << >> /\ NewSink.durable = << >> /\ Taken(NewSink) = << >>
BY EmptySeq, ConcatEmptySeq, Zenon DEF NoSink, NewSink, Sink, Taken

LEMMA OutputInitInv == OutputInit => OutputInv
<1> SUFFICES ASSUME OutputInit PROVE OutputInv
  OBVIOUS
<1>1. \A t \in Targets, k \in FileKinds : sinks[t][k] = NoSink /\ accepted[t][k] = << >>
  BY DEF OutputInit
<1>2. OutputTypes
  BY NoSinkIsSink, EmptySeq, Zenon DEF OutputInit, OutputTypes, FileKinds, FirstKind
<1>3. FilesAccounted /\ RowsAccounted
  BY <1>1, NoSinkIsSink DEF OutputInit, FilesAccounted, RowsAccounted
<1>4. BooksHaveAudits
  BY <1>1 DEF BooksHaveAudits, FileKinds
<1>5. OpeningAccounted
  BY DEF OutputInit, OpeningAccounted
<1>6. QED
  BY <1>2, <1>3, <1>4, <1>5 DEF OutputInv

-----------------------------------------------------------------------------
(* Opening and rolling back.                                               *)

LEMMA RejectStep == OutputInv /\ RejectArguments => OutputInv'
BY DEF OutputInv, RejectArguments, OutputTypes, FilesAccounted, OpeningAccounted, RowsAccounted,
       BooksHaveAudits, FileKinds, FirstKind

LEMMA PrepareStep == OutputInv /\ PrepareOutputDirectory => OutputInv'
<1> SUFFICES ASSUME OutputInv, PrepareOutputDirectory PROVE OutputInv'
  OBVIOUS
<1> USE TargetCountAssumption DEF OutputInv, PrepareOutputDirectory
<1>1. OutputTypes'
  BY DEF OutputTypes, FileKinds, FirstKind, Targets
<1>2. FilesAccounted' /\ OpeningAccounted'
  BY DEF OutputTypes, FilesAccounted, OpeningAccounted, FileKinds
<1>3. RowsAccounted' /\ BooksHaveAudits'
  BY Zenon DEF OutputTypes, RowsAccounted, BooksHaveAudits, FileKinds
<1>4. QED
  BY <1>1, <1>2, <1>3

(* One file is opened.                                                     *)
LEMMA OpenSucceedsStep ==
  ASSUME OutputInv, phase = "opening", NEW t \in Targets, NEW k \in FileKinds,
         OpenSucceeds(t, k)
  PROVE  OutputInv'
<1> USE TargetCountAssumption DEF OutputInv
<1>1. /\ FileKinds' = FileKinds /\ FileKinds \subseteq {"audit", "book"}
      /\ t \in 1 .. TargetCount
  BY DEF OpenSucceeds, FileKinds, Targets
<1>2. sinks' = [sinks EXCEPT ![t][k] = NewSink]
  BY DEF OpenSucceeds
<1>3. \A u \in Targets, j \in FileKinds :
        sinks'[u][j] = IF u = t /\ j = k THEN NewSink ELSE sinks[u][j]
  BY <1>2 DEF OutputTypes
<1>4. OutputTypes'
  <2>1. sinks' \in [Targets -> [FileKinds -> Sink]]
    BY <1>2, NoSinkIsSink DEF OutputTypes
  <2>2. next' \in Nat \X {"audit", "book"} /\ (phase' = "opening" => next'[1] \in Targets /\ next'[2] \in FileKinds)
    <3>1. CASE k = "audit"
      BY <3>1, <1>1 DEF OpenSucceeds, FileKinds, Targets
    <3>2. CASE k = "book" /\ mode = "live_capture"
      BY <3>2, <1>1 DEF OpenSucceeds, FileKinds, Targets
    <3>3. CASE k = "book" /\ mode # "live_capture"
      BY <3>3, <1>1 DEF OpenSucceeds, FileKinds, Targets
    <3>4. QED
      BY <1>1, <3>1, <3>2, <3>3
  <2>3. QED
    BY <2>1, <2>2, <1>1 DEF OutputTypes, OpenSucceeds
<1>5. FilesAccounted' /\ OpeningAccounted'
  BY <1>1, <1>3, NoSinkIsSink DEF OpenSucceeds, FilesAccounted, OpeningAccounted
<1>6. RowsAccounted'
  BY <1>1, <1>3, NoSinkIsSink DEF OpenSucceeds, RowsAccounted, OpeningAccounted, FilesAccounted
<1>7. \A u \in Targets, j \in FileKinds : Taken(sinks'[u][j]) = Taken(sinks[u][j])
  BY <1>1, <1>3, NoSinkIsSink DEF RowsAccounted, OpeningAccounted, FilesAccounted
<1>8. BooksHaveAudits'
  BY <1>7 DEF OpenSucceeds, BooksHaveAudits, FileKinds
<1>9. QED
  BY <1>4, <1>5, <1>6, <1>8

LEMMA LeftSink ==
  ASSUME NEW s \in Sink, NEW left \in BOOLEAN
  PROVE  [s EXCEPT !.exists = left] \in Sink
BY DEF Sink

LEMMA RemovedSink ==
  ASSUME NEW s \in Sink, NEW left \in BOOLEAN
  PROVE  LET o == [s EXCEPT !.open = FALSE, !.created = FALSE, !.exists = left]
         IN  /\ o \in Sink
             /\ ~ o.open /\ ~ o.created /\ (o.exists => left)
             /\ o.failed = s.failed /\ o.buffered = s.buffered /\ o.durable = s.durable
BY Zenon DEF Sink

LEMMA OpenFailsStep ==
  ASSUME OutputInv, phase = "opening", NEW t \in Targets, NEW k \in FileKinds,
         OpenFails(t, k)
  PROVE  OutputInv'
<1> USE TargetCountAssumption DEF OutputInv
<1>1. PICK left \in BOOLEAN :
        sinks' = [sinks EXCEPT ![t][k].exists = left] /\ rollbackError' = left
  BY Zenon DEF OpenFails
<1>2. /\ FileKinds' = FileKinds
      /\ phase' = "rolling_back" /\ next' = <<TargetCount, "book">>
      /\ UNCHANGED <<mode, directory, firstError, accepted>>
  BY DEF OpenFails, FileKinds
<1>3. sinks \in [Targets -> [FileKinds -> Sink]]
  BY DEF OutputTypes
<1>4. sinks' \in [Targets -> [FileKinds -> Sink]]
  <2>1. [sinks[t][k] EXCEPT !.exists = left] \in Sink
    BY <1>3, LeftSink
  <2>2. QED
    BY <1>1, <1>3, <2>1
<1>5. \A u \in Targets, j \in FileKinds :
        /\ sinks'[u][j].open = sinks[u][j].open
        /\ sinks'[u][j].created = sinks[u][j].created
        /\ sinks'[u][j].failed = sinks[u][j].failed
        /\ sinks'[u][j].buffered = sinks[u][j].buffered
        /\ sinks'[u][j].durable = sinks[u][j].durable
        /\ sinks'[u][j].exists => sinks[u][j].exists \/ left
  BY <1>1, <1>3 DEF Sink
<1>6. OutputTypes'
  BY <1>1, <1>2, <1>4, SMTT(30) DEF OutputTypes
<1>7. FilesAccounted' /\ OpeningAccounted'
  BY <1>1, <1>2, <1>5 DEF FilesAccounted, OpeningAccounted, Targets
<1>8. \A u \in Targets, j \in FileKinds : Taken(sinks'[u][j]) = Taken(sinks[u][j])
  BY <1>5, Zenon DEF Taken
<1>9. RowsAccounted'
  BY <1>2, <1>5, <1>8 DEF RowsAccounted
<1>10. BooksHaveAudits'
  BY <1>2, <1>8 DEF BooksHaveAudits, FileKinds
<1>11. QED
  BY <1>6, <1>7, <1>9, <1>10

LEMMA RollbackTargetStep == OutputInv /\ RollbackTarget => OutputInv'
<1> SUFFICES ASSUME OutputInv, RollbackTarget PROVE OutputInv'
  OBVIOUS
<1> USE TargetCountAssumption DEF OutputInv
<1> DEFINE n == next[1]
<1>1. /\ FileKinds' = FileKinds /\ n \in Targets /\ n - 1 \in 0 .. TargetCount
      /\ phase = "rolling_back" /\ next' = <<n - 1, "book">>
      /\ UNCHANGED <<mode, phase, directory, firstError, accepted>>
  <2>1. /\ phase = "rolling_back" /\ next' = <<n - 1, "book">> /\ n # 0
        /\ UNCHANGED <<mode, phase, directory, firstError, accepted>>
    BY Zenon DEF RollbackTarget, RolledBack
  <2>2. n \in 0 .. TargetCount
    BY <2>1 DEF OutputTypes
  <2>3. n \in Targets /\ n - 1 \in 0 .. TargetCount
    BY <2>1, <2>2 DEF Targets
  <2>4. QED
    BY <2>1, <2>3 DEF FileKinds
<1>2. PICK stays \in SUBSET {k \in FileKinds : sinks[n][k].created}, closeFails \in BOOLEAN :
       /\ sinks' = [sinks EXCEPT ![n] =
                     [k \in FileKinds |-> IF @[k].created
                                      THEN [@[k] EXCEPT !.open = FALSE, !.created = FALSE,
                                                        !.exists = k \in stays]
                                      ELSE @[k]]]
       /\ rollbackError' = (rollbackError \/ closeFails \/ stays # {})
  BY Zenon DEF RollbackTarget
<1>3. sinks \in [Targets -> [FileKinds -> Sink]]
  BY DEF OutputTypes
<1>4. \A u \in Targets, j \in FileKinds : u # n \/ ~ sinks[u][j].created => sinks'[u][j] = sinks[u][j]
  BY <1>1, <1>2, <1>3, ZenonT(30)
<1>5. ASSUME NEW j \in FileKinds, sinks[n][j].created
      PROVE  sinks'[n][j] = [sinks[n][j] EXCEPT !.open = FALSE, !.created = FALSE, !.exists = j \in stays]
  BY <1>1, <1>2, <1>3, <1>5, Zenon
<1>6. ASSUME NEW j \in FileKinds, sinks[n][j].created
      PROVE  /\ sinks'[n][j] \in Sink
             /\ ~ sinks'[n][j].open /\ ~ sinks'[n][j].created
             /\ sinks'[n][j].exists => j \in stays
             /\ sinks'[n][j].failed = sinks[n][j].failed
             /\ sinks'[n][j].buffered = sinks[n][j].buffered
             /\ sinks'[n][j].durable = sinks[n][j].durable
  <2> DEFINE s == sinks[n][j]
             left == j \in stays
  <2>1. s \in Sink /\ left \in BOOLEAN
    BY <1>1, <1>3
  <2>2. sinks'[n][j] = [s EXCEPT !.open = FALSE, !.created = FALSE, !.exists = left]
    BY <1>5, <1>6, Zenon
  <2>3. left => j \in stays
    OBVIOUS
  <2> HIDE DEF left
  <2>4. LET o == [s EXCEPT !.open = FALSE, !.created = FALSE, !.exists = left]
        IN  /\ o \in Sink
            /\ ~ o.open /\ ~ o.created /\ (o.exists => left)
            /\ o.failed = s.failed /\ o.buffered = s.buffered /\ o.durable = s.durable
    <3> HIDE DEF s
    <3>1. QED
      BY ONLY <2>1, RemovedSink, Zenon
  <2>5. QED
    BY <2>2, <2>3, <2>4
<1>7. sinks' \in [Targets -> [FileKinds -> Sink]]
  <2>1. \A u \in Targets, j \in FileKinds : sinks'[u][j] \in Sink
    BY <1>3, <1>4, <1>6
  <2>2. \A u \in Targets : sinks'[u] = [j \in FileKinds |-> sinks'[u][j]]
    BY <1>1, <1>2, <1>3, ZenonT(30)
  <2>3. sinks' = [u \in Targets |-> sinks'[u]]
    BY <1>2, <1>3, Zenon
  <2>4. QED
    BY <2>1, <2>2, <2>3, SMTT(30)
<1>8. OutputTypes'
  <2>1. rollbackError' \in BOOLEAN
    BY <1>2, Zenon
  <2>2. next' \in Nat \X {"audit", "book"} /\ next'[1] \in 0 .. TargetCount
    BY <1>1
  <2>3. QED
    BY <1>1, <1>7, <2>1, <2>2 DEF OutputTypes
<1>9. FilesAccounted' /\ OpeningAccounted'
  <2>1. ASSUME NEW u \in Targets, NEW j \in FileKinds
        PROVE  /\ sinks'[u][j].open => sinks'[u][j].created
               /\ sinks'[u][j].exists => sinks'[u][j].created \/ rollbackError'
               /\ u > n - 1 => ~ sinks'[u][j].created
    <3>1. CASE u = n /\ sinks[n][j].created
      BY <1>2, <1>6, <3>1, ZenonT(30)
    <3>2. CASE ~ (u = n /\ sinks[n][j].created)
      <4>1. sinks'[u][j] = sinks[u][j]
        BY <1>4, <3>2
      <4>2. u > n - 1 => u = n \/ u > n
        BY <1>1 DEF Targets
      <4>3. /\ sinks[u][j].open => sinks[u][j].created
            /\ sinks[u][j].exists => sinks[u][j].created \/ rollbackError
            /\ u > n => ~ sinks[u][j].created
        BY <1>1 DEF FilesAccounted
      <4>4. QED
        BY <1>2, <3>2, <4>1, <4>2, <4>3, ZenonT(30)
    <3>3. QED
      BY <3>1, <3>2
  <2>2. QED
    BY <1>1, <2>1 DEF FilesAccounted, OpeningAccounted
<1>10. \A u \in Targets, j \in FileKinds :
         Taken(sinks'[u][j]) = Taken(sinks[u][j]) /\ sinks'[u][j].failed = sinks[u][j].failed
  <2>1. ASSUME NEW u \in Targets, NEW j \in FileKinds
        PROVE  Taken(sinks'[u][j]) = Taken(sinks[u][j]) /\ sinks'[u][j].failed = sinks[u][j].failed
    <3>1. CASE u = n /\ sinks[n][j].created
      BY <1>6, <3>1, Zenon DEF Taken
    <3>2. CASE ~ (u = n /\ sinks[n][j].created)
      BY <1>4, <3>2
    <3>3. QED
      BY <3>1, <3>2
  <2>2. QED
    BY <2>1
<1>11. RowsAccounted' /\ BooksHaveAudits'
  BY <1>1, <1>10 DEF RowsAccounted, BooksHaveAudits, FileKinds
<1>12. QED
  BY <1>8, <1>9, <1>11

LEMMA RollbackDirectoryStep == OutputInv /\ RollbackDirectory => OutputInv'
<1> SUFFICES ASSUME OutputInv, RollbackDirectory PROVE OutputInv'
  OBVIOUS
<1> USE DEF OutputInv, RollbackDirectory
<1>1. FileKinds' = FileKinds /\ next[1] = 0
  BY DEF FileKinds, RolledBack
<1>2. OutputTypes'
  BY <1>1, ZenonT(30) DEF OutputTypes
<1>3. FilesAccounted'
  BY <1>1 DEF OutputTypes, FilesAccounted, Targets
<1>4. OpeningAccounted'
  BY DEF OpeningAccounted
<1>5. RowsAccounted' /\ BooksHaveAudits'
  BY <1>1 DEF RowsAccounted, BooksHaveAudits
<1>6. QED
  BY <1>2, <1>3, <1>4, <1>5

LEMMA OpenFilesStep == OutputInv /\ OpenFiles => OutputInv'
<1>1. ASSUME OutputInv, OpenFile PROVE OutputInv'
  BY <1>1, OpenSucceedsStep, OpenFailsStep DEF OpenFile, OutputInv, OutputTypes
<1>2. QED
  BY <1>1, RejectStep, PrepareStep, RollbackTargetStep, RollbackDirectoryStep, SMTT(30) DEF OpenFiles

-----------------------------------------------------------------------------
(* Writing, flushing and closing.                                          *)

LEMMA ToSetAppend ==
  ASSUME NEW q \in Seq(Nat), NEW e \in Nat
  PROVE  ToSet(Append(q, e)) = ToSet(q) \cup {e}
<1> DEFINE a == Append(q, e)
<1>1. /\ Len(q) \in Nat /\ DOMAIN q = 1 .. Len(q) /\ DOMAIN a = 1 .. Len(q) + 1
      /\ \A i \in 1 .. Len(q) : a[i] = q[i]
      /\ a[Len(q) + 1] = e
  BY AppendProperties, LenProperties
<1> HIDE DEF a
<1>2. ToSet(a) \subseteq ToSet(q) \cup {e}
  <2>1. ASSUME NEW i \in 1 .. Len(q) + 1 PROVE a[i] \in {q[j] : j \in 1 .. Len(q)} \cup {e}
    BY <1>1
  <2>2. QED
    BY <1>1, <2>1 DEF ToSet
<1>3. e \in ToSet(a)
  BY <1>1 DEF ToSet
<1>4. ToSet(q) \subseteq ToSet(a)
  BY <1>1 DEF ToSet
<1>5. QED
  BY <1>2, <1>3, <1>4 DEF a

LEMMA TwoRows ==
  ASSUME NEW a, NEW b
  PROVE  <<a>> \o <<b>> = <<a, b>>
<1>1. <<a>> \in Seq({a, b}) /\ <<b>> \in Seq({a, b}) /\ <<a, b>> \in Seq({a, b})
  OBVIOUS
<1>2. Len(<<a>>) = 1 /\ Len(<<b>>) = 1 /\ Len(<<a, b>>) = 2
  OBVIOUS
<1>3. <<a>> \o <<b>> \in Seq({a, b}) /\ Len(<<a>> \o <<b>>) = 2
  BY <1>1, <1>2, ConcatProperties
<1>4. (<<a>> \o <<b>>)[1] = a /\ (<<a>> \o <<b>>)[2] = b
  BY <1>1, <1>2, ConcatProperties
<1>5. <<a, b>>[1] = a /\ <<a, b>>[2] = b
  OBVIOUS
<1>6. \A i \in 1 .. 2 : (<<a>> \o <<b>>)[i] = <<a, b>>[i]
  BY <1>4, <1>5
<1>7. QED
  BY <1>1, <1>2, <1>3, <1>6, SeqEqual, Zenon

(* The batches the contract allows are of three kinds.                     *)
LEMMA BatchKinds ==
  ASSUME mode \in {"live_capture", "replay"},
         NEW b \in [audit : BOOLEAN, book : BOOLEAN], ValidBatchContract(b), RowsOf(b) # << >>
  PROVE  \/ mode = "live_capture" /\ RowsOf(b) = <<"audit">>
         \/ mode = "live_capture" /\ RowsOf(b) = <<"audit", "book">>
         \/ mode = "replay" /\ RowsOf(b) = <<"book">>
<1>1. CASE b.audit /\ b.book
  <2>1. <<"audit">> \o <<"book">> = <<"audit", "book">>
    BY TwoRows
  <2>2. QED
    BY <1>1, <2>1 DEF ValidBatchContract, RowsOf
<1>2. CASE b.audit /\ ~ b.book
  BY <1>2 DEF ValidBatchContract, RowsOf
<1>3. CASE ~ b.audit /\ b.book
  BY <1>3 DEF ValidBatchContract, RowsOf
<1>4. CASE ~ b.audit /\ ~ b.book
  BY <1>4 DEF RowsOf
<1>5. QED
  BY <1>1, <1>2, <1>3, <1>4

LEMMA RowNumber ==
  ASSUME OutputTypes, NEW t \in Targets
  PROVE  Calls(t) \in Nat
BY LenProperties DEF OutputTypes, Calls, FirstKind, FileKinds

(* What a call changes: the files keep what they had, and with no error    *)
(* each file the call names took the row, and the others took nothing.     *)
LEMMA WriteSteps ==
  ASSUME OutputInv, phase = "ready", firstError = "none",
         UNCHANGED <<mode, phase, directory, next, rollbackError>>,
         sinks' \in [Targets -> [FileKinds -> Sink]],
         accepted' \in [Targets -> [FileKinds -> Seq(Nat)]],
         firstError' \in {"none", "file_failure"},
         \A u \in Targets, j \in FileKinds :
           sinks'[u][j].open = sinks[u][j].open /\ sinks'[u][j].created = sinks[u][j].created,
         firstError' = "none" =>
           \A u \in Targets, j \in FileKinds :
             ~ sinks'[u][j].failed /\ Taken(sinks'[u][j]) = accepted'[u][j],
         BooksHaveAudits'
  PROVE  OutputInv'
<1>1. FileKinds' = FileKinds
  BY DEF FileKinds
<1>2. OutputTypes' /\ OpeningAccounted'
  BY <1>1 DEF OutputInv, OutputTypes, OpeningAccounted
<1>3. FilesAccounted'
  <2>1. \A u \in Targets, j \in FileKinds : sinks'[u][j].open => sinks'[u][j].created
    <3>1. \A u \in Targets, j \in FileKinds : sinks[u][j].open => sinks[u][j].created
      BY DEF OutputInv, FilesAccounted
    <3>2. \A u \in Targets, j \in FileKinds :
            sinks'[u][j].open = sinks[u][j].open /\ sinks'[u][j].created = sinks[u][j].created
      OBVIOUS
    <3>3. QED
      BY ONLY <3>1, <3>2
  <2>2. /\ phase' \notin {"preparing", "opening", "rolling_back", "failed"}
        /\ phase' \notin {"preparing", "failed"} /\ phase' \notin {"preparing", "opening"}
        /\ phase' # "rolling_back"
    OBVIOUS
  <2>3. QED
    BY ONLY <1>1, <2>1, <2>2 DEF FilesAccounted
<1>4. RowsAccounted'
  BY <1>1 DEF RowsAccounted
<1>5. QED
  BY <1>2, <1>3, <1>4 DEF OutputInv

LEMMA WriteStep ==
  ASSUME OutputInv, NEW t \in Targets, NEW b \in [audit : BOOLEAN, book : BOOLEAN], WriteBatch(t, b)
  PROVE  OutputInv'
<1> DEFINE row == Calls(t) + 1
           kinds == RowsOf(b)
<1>1. row \in Nat
  BY RowNumber DEF OutputInv
<1>2. /\ phase = "ready" /\ firstError = "none"
      /\ kinds # << >> /\ ValidBatchContract(b)
      /\ accepted' = [accepted EXCEPT ![t] =
                        [k \in FileKinds |-> IF Contains(kinds, k) THEN Append(@[k], row) ELSE @[k]]]
      /\ UNCHANGED <<mode, phase, directory, next, rollbackError>>
  BY DEF WriteBatch
<1>3. PICK first \in AppendOutcomes(sinks[t][kinds[1]], row) :
           IF first.failed \/ Len(kinds) = 1
           THEN /\ sinks' = [sinks EXCEPT ![t][kinds[1]] = first]
                /\ firstError' = IF first.failed THEN "file_failure" ELSE "none"
           ELSE \E second \in AppendOutcomes(sinks[t][kinds[2]], row) :
                  /\ sinks' = [sinks EXCEPT ![t] = [@ EXCEPT ![kinds[1]] = first,
                                                             ![kinds[2]] = second]]
                  /\ firstError' = IF second.failed THEN "file_failure" ELSE "none"
  BY DEF WriteBatch
<1> HIDE DEF row, kinds
<1>4. /\ sinks \in [Targets -> [FileKinds -> Sink]]
      /\ accepted \in [Targets -> [FileKinds -> Seq(Nat)]]
      /\ mode \in {"live_capture", "replay"}
      /\ FileKinds' = FileKinds
  BY <1>2 DEF OutputInv, OutputTypes, FileKinds
<1>5. \/ mode = "live_capture" /\ kinds = <<"audit">>
      \/ mode = "live_capture" /\ kinds = <<"audit", "book">>
      \/ mode = "replay" /\ kinds = <<"book">>
  BY <1>2, <1>4, BatchKinds DEF kinds
<1>6. kinds[1] \in FileKinds /\ (Len(kinds) # 1 => kinds[2] = "book" /\ kinds[1] = "audit" /\ mode = "live_capture")
  BY <1>5 DEF FileKinds
<1>7. /\ first \in Sink
      /\ first.open = sinks[t][kinds[1]].open /\ first.created = sinks[t][kinds[1]].created
      /\ first.failed => Taken(first) = Taken(sinks[t][kinds[1]])
      /\ ~ first.failed => Taken(first) = Append(Taken(sinks[t][kinds[1]]), row)
  BY <1>1, <1>3, <1>4, <1>6, AppendTakes
<1>8. accepted' \in [Targets -> [FileKinds -> Seq(Nat)]]
  <2>1. \A k \in FileKinds : accepted[t][k] \in Seq(Nat) /\ Append(accepted[t][k], row) \in Seq(Nat)
    BY <1>1, <1>4, AppendProperties
  <2>2. QED
    BY <1>2, <1>4, <2>1
<1>9. \A u \in Targets, k \in FileKinds :
        accepted'[u][k] = IF u = t /\ Contains(kinds, k) THEN Append(accepted[u][k], row)
                          ELSE accepted[u][k]
  BY <1>2, <1>4
<1>10. \A u \in Targets, k \in FileKinds :
         ~ sinks[u][k].failed /\ Taken(sinks[u][k]) = accepted[u][k] /\ sinks[u][k] \in Sink
  BY <1>2, <1>4 DEF OutputInv, RowsAccounted
<1>11. \A k \in FileKinds : Contains(kinds, k) <=> k = kinds[1] \/ (Len(kinds) # 1 /\ k = kinds[2])
  BY <1>5 DEF Contains
<1>12. \A q \in Seq(Nat) : ToSet(q) \subseteq ToSet(Append(q, row))
  BY <1>1, ToSetAppend, SMTT(30)
<1>13. CASE first.failed \/ Len(kinds) = 1
  <2>1. sinks' = [sinks EXCEPT ![t][kinds[1]] = first]
        /\ firstError' = IF first.failed THEN "file_failure" ELSE "none"
    BY <1>3, <1>13
  <2>2. \A u \in Targets, k \in FileKinds :
          sinks'[u][k] = IF u = t /\ k = kinds[1] THEN first ELSE sinks[u][k]
    BY <1>4, <1>6, <2>1
  <2>3. sinks' \in [Targets -> [FileKinds -> Sink]]
    BY <1>4, <1>6, <1>7, <2>1
  <2>4. firstError' = "none" =>
          \A u \in Targets, k \in FileKinds :
            ~ sinks'[u][k].failed /\ Taken(sinks'[u][k]) = accepted'[u][k]
    <3>1. SUFFICES ASSUME ~ first.failed, Len(kinds) = 1, NEW u \in Targets, NEW k \in FileKinds
                   PROVE  ~ sinks'[u][k].failed /\ Taken(sinks'[u][k]) = accepted'[u][k]
      BY <1>13, <2>1, SMTT(30)
    <3>2. CASE u = t /\ k = kinds[1]
      <4>1. accepted'[u][k] = Append(accepted[u][k], row)
        BY <1>9, <1>11, <3>2, Zenon
      <4>2. Taken(sinks'[u][k]) = Append(Taken(sinks[u][k]), row) /\ ~ sinks'[u][k].failed
        BY <1>7, <2>2, <3>1, <3>2, SMTT(30)
      <4>3. QED
        BY <1>10, <4>1, <4>2
    <3>3. CASE ~ (u = t /\ k = kinds[1])
      BY <1>9, <1>10, <1>11, <2>2, <3>1, <3>3
    <3>4. QED
      BY <3>2, <3>3
  <2>5. BooksHaveAudits'
    <3>1. SUFFICES ASSUME mode = "live_capture", NEW u \in Targets
                   PROVE  ToSet(Taken(sinks'[u]["book"])) \subseteq ToSet(Taken(sinks'[u]["audit"]))
      BY <1>2 DEF BooksHaveAudits
    <3>2. kinds[1] = "audit" /\ "audit" \in FileKinds /\ "book" \in FileKinds
      BY <1>5, <3>1 DEF FileKinds
    <3>3. sinks'[u]["book"] = sinks[u]["book"]
      BY <2>2, <3>2
    <3>4. ToSet(Taken(sinks[u]["audit"])) \subseteq ToSet(Taken(sinks'[u]["audit"]))
      BY <1>7, <1>10, <1>12, <2>2, <3>2, TakenIsSeq, Zenon
    <3>5. QED
      BY <3>1, <3>3, <3>4 DEF OutputInv, BooksHaveAudits
  <2>6. QED
    BY <1>2, <1>7, <1>8, <2>1, <2>2, <2>3, <2>4, <2>5, WriteSteps
<1>14. CASE ~ first.failed /\ Len(kinds) # 1
  <2>1. PICK second \in AppendOutcomes(sinks[t][kinds[2]], row) :
          /\ sinks' = [sinks EXCEPT ![t] = [@ EXCEPT ![kinds[1]] = first, ![kinds[2]] = second]]
          /\ firstError' = IF second.failed THEN "file_failure" ELSE "none"
    BY <1>3, <1>14
  <2>2. /\ mode = "live_capture" /\ kinds[1] = "audit" /\ kinds[2] = "book"
        /\ FileKinds = {"audit", "book"}
    BY <1>6, <1>14 DEF FileKinds
  <2>3. /\ second \in Sink
        /\ second.open = sinks[t]["book"].open /\ second.created = sinks[t]["book"].created
        /\ second.failed => Taken(second) = Taken(sinks[t]["book"])
        /\ ~ second.failed => Taken(second) = Append(Taken(sinks[t]["book"]), row)
    BY <1>1, <1>4, <2>1, <2>2, AppendTakes
  <2>4. \A u \in Targets : /\ sinks'[u]["audit"] = IF u = t THEN first ELSE sinks[u]["audit"]
                           /\ sinks'[u]["book"] = IF u = t THEN second ELSE sinks[u]["book"]
    BY <1>4, <2>1, <2>2, SMTT(30)
  <2>5. sinks' \in [Targets -> [FileKinds -> Sink]]
    BY <1>4, <1>7, <2>1, <2>2, <2>3, SMTT(30)
  <2>6. firstError' = "none" =>
          \A u \in Targets, k \in FileKinds :
            ~ sinks'[u][k].failed /\ Taken(sinks'[u][k]) = accepted'[u][k]
    <3>1. SUFFICES ASSUME ~ second.failed, NEW u \in Targets, NEW k \in FileKinds
                   PROVE  ~ sinks'[u][k].failed /\ Taken(sinks'[u][k]) = accepted'[u][k]
      BY <2>1, SMTT(30)
    <3>2. CASE u = t
      <4>1. accepted'[u][k] = Append(accepted[u][k], row)
        BY <1>9, <1>11, <1>14, <2>2, <3>2, ZenonT(30)
      <4>2. Taken(sinks'[u][k]) = Append(Taken(sinks[u][k]), row) /\ ~ sinks'[u][k].failed
        <5>1. CASE k = "audit"
          BY <1>7, <1>14, <2>2, <2>4, <3>2, <5>1
        <5>2. CASE k = "book"
          BY <2>3, <2>4, <3>1, <3>2, <5>2, SMTT(30)
        <5>3. QED
          BY <2>2, <5>1, <5>2, SMTT(30)
      <4>3. QED
        BY <1>10, <4>1, <4>2
    <3>3. CASE u # t
      <4>1. sinks'[u][k] = sinks[u][k]
        BY <2>2, <2>4, <3>3, SMTT(30)
      <4>2. QED
        BY <1>9, <1>10, <3>3, <4>1, SMTT(30)
    <3>4. QED
      BY <3>2, <3>3
  <2>7. BooksHaveAudits'
    <3>1. SUFFICES ASSUME NEW u \in Targets
                   PROVE  ToSet(Taken(sinks'[u]["book"])) \subseteq ToSet(Taken(sinks'[u]["audit"]))
      BY DEF BooksHaveAudits
    <3>2. ToSet(Taken(sinks[u]["book"])) \subseteq ToSet(Taken(sinks[u]["audit"]))
      BY <2>2 DEF OutputInv, BooksHaveAudits
    <3>3. CASE u # t
      BY <2>4, <3>2, <3>3, SMTT(30)
    <3>4. CASE u = t
      <4>1. Taken(sinks[t]["audit"]) \in Seq(Nat) /\ Taken(sinks[t]["book"]) \in Seq(Nat)
        BY <1>10, <2>2, TakenIsSeq
      <4>2. ToSet(Taken(first)) = ToSet(Taken(sinks[t]["audit"])) \cup {row}
        BY <1>1, <1>7, <1>14, <2>2, <4>1, ToSetAppend, ZenonT(30)
      <4>3. ToSet(Taken(second)) \subseteq ToSet(Taken(sinks[t]["book"])) \cup {row}
        BY <1>1, <2>3, <4>1, ToSetAppend, ZenonT(30)
      <4>4. QED
        BY <2>4, <3>2, <3>4, <4>2, <4>3
    <3>5. QED
      BY <3>3, <3>4
  <2>8. \A u \in Targets, j \in FileKinds :
          sinks'[u][j].open = sinks[u][j].open /\ sinks'[u][j].created = sinks[u][j].created
    BY <1>7, <2>2, <2>3, <2>4, SMTT(30)
  <2>9. QED
    BY <1>2, <1>8, <2>1, <2>5, <2>6, <2>7, <2>8, WriteSteps, ZenonT(30)
<1>15. QED
  BY <1>13, <1>14

(* A call of flush_all or close_all keeps the rows of every file; if none  *)
(* of them has failed by the end, all are on disk.                         *)
LEMMA SweepStep ==
  ASSUME OutputInv, phase = "ready", phase' \in {"ready", "closed"},
         UNCHANGED <<mode, directory, next, rollbackError, accepted>>,
         sinks' \in [Targets -> [FileKinds -> Sink]],
         \A u \in Targets, j \in FileKinds :
           /\ sinks'[u][j].open => sinks[u][j].open
           /\ sinks'[u][j].created = sinks[u][j].created
           /\ Taken(sinks'[u][j]) = Taken(sinks[u][j])
           /\ phase' = "closed" =>
                ~ sinks'[u][j].open /\ (~ sinks'[u][j].failed => sinks'[u][j].buffered = << >>),
         firstError' = IF \E u \in Targets, j \in FileKinds : sinks'[u][j].failed
                       THEN LatchError("file_failure") ELSE firstError
  PROVE  OutputInv'
<1>1. FileKinds' = FileKinds
  BY DEF FileKinds
<1>2. /\ firstError' \in {"none", "file_failure"}
      /\ firstError' = "none" =>
           firstError = "none" /\ \A u \in Targets, j \in FileKinds : ~ sinks'[u][j].failed
  BY DEF OutputInv, OutputTypes, LatchError
<1>3. OutputTypes'
  BY <1>1, <1>2 DEF OutputInv, OutputTypes
<1>4. OpeningAccounted'
  BY DEF OpeningAccounted
<1>5. FilesAccounted'
  <2>1. \A u \in Targets, j \in FileKinds : sinks'[u][j].open => sinks'[u][j].created
    <3>1. \A u \in Targets, j \in FileKinds : sinks[u][j].open => sinks[u][j].created
      BY DEF OutputInv, FilesAccounted
    <3>2. \A u \in Targets, j \in FileKinds :
            (sinks'[u][j].open => sinks[u][j].open) /\ sinks'[u][j].created = sinks[u][j].created
      OBVIOUS
    <3>3. QED
      BY ONLY <3>1, <3>2, SMTT(30)
  <2>2. /\ phase' \notin {"preparing", "opening", "rolling_back", "failed"}
        /\ phase' \notin {"preparing", "failed"} /\ phase' \notin {"preparing", "opening"}
        /\ phase' # "rolling_back"
    OBVIOUS
  <2>3. QED
    BY ONLY <1>1, <2>1, <2>2 DEF FilesAccounted
<1>6. RowsAccounted'
  BY <1>1, <1>2 DEF OutputInv, RowsAccounted
<1>7. BooksHaveAudits'
  BY Zenon DEF OutputInv, BooksHaveAudits, FileKinds
<1>8. QED
  BY <1>3, <1>4, <1>5, <1>6, <1>7, SMTT(30) DEF OutputInv

LEMMA FlushStep == OutputInv /\ FlushAll => OutputInv'
<1> SUFFICES ASSUME OutputInv, FlushAll PROVE OutputInv'
  OBVIOUS
<1>1. /\ phase = "ready" /\ phase' = "ready"
      /\ UNCHANGED <<mode, directory, next, rollbackError, accepted>>
      /\ firstError' = IF \E u \in Targets, j \in FileKinds : sinks'[u][j].failed
                       THEN LatchError("file_failure") ELSE firstError
  BY DEF FlushAll, ForEachSink
<1>2. PICK fates \in [Targets -> [FileKinds -> Fates]] :
        sinks' = [t \in Targets |-> [k \in FileKinds |-> FlushSink(sinks[t][k], fates[t][k])]]
  BY DEF FlushAll, ForEachSink
<1>3. ASSUME NEW u \in Targets, NEW j \in FileKinds
      PROVE  /\ sinks'[u][j] \in Sink
             /\ sinks'[u][j].open = sinks[u][j].open /\ sinks'[u][j].created = sinks[u][j].created
             /\ Taken(sinks'[u][j]) = Taken(sinks[u][j])
  <2>1. sinks[u][j] \in Sink /\ fates[u][j] \in Fates
    BY DEF OutputInv, OutputTypes
  <2>2. sinks'[u][j] = FlushSink(sinks[u][j], fates[u][j])
    BY <1>2
  <2>3. QED
    BY <2>1, <2>2, FlushKeeps, SMTT(30)
<1>4. sinks' \in [Targets -> [FileKinds -> Sink]]
  BY <1>2, <1>3, SMTT(30)
<1>5. QED
  BY <1>1, <1>3, <1>4, SweepStep

LEMMA CloseStep == OutputInv /\ CloseAll => OutputInv'
<1> SUFFICES ASSUME OutputInv, CloseAll PROVE OutputInv'
  OBVIOUS
<1>1. /\ phase = "ready" /\ phase' = "closed"
      /\ UNCHANGED <<mode, directory, next, rollbackError, accepted>>
      /\ firstError' = IF \E u \in Targets, j \in FileKinds : sinks'[u][j].failed
                       THEN LatchError("file_failure") ELSE firstError
  BY DEF CloseAll, ForEachSink
<1>2. PICK fates \in [Targets -> [FileKinds -> Fates]] :
        sinks' = [t \in Targets |-> [k \in FileKinds |-> CloseSink(sinks[t][k], fates[t][k])]]
  BY DEF CloseAll, ForEachSink
<1>3. ASSUME NEW u \in Targets, NEW j \in FileKinds
      PROVE  /\ sinks'[u][j] \in Sink
             /\ ~ sinks'[u][j].open /\ sinks'[u][j].created = sinks[u][j].created
             /\ Taken(sinks'[u][j]) = Taken(sinks[u][j])
             /\ ~ sinks'[u][j].failed => sinks'[u][j].buffered = << >>
  <2>1. sinks[u][j] \in Sink /\ fates[u][j] \in Fates
    BY DEF OutputInv, OutputTypes
  <2>2. sinks'[u][j] = CloseSink(sinks[u][j], fates[u][j])
    BY <1>2
  <2>3. QED
    BY <2>1, <2>2, CloseKeeps, SMTT(30)
<1>4. sinks' \in [Targets -> [FileKinds -> Sink]]
  BY <1>2, <1>3
<1>5. QED
  BY <1>1, <1>3, <1>4, SweepStep

LEMMA OutputInvStep == OutputInv /\ [OutputNext]_outputVars => OutputInv'
<1>1. ASSUME OutputInv, UNCHANGED outputVars PROVE OutputInv'
  <2>1. UNCHANGED <<mode, phase, directory, sinks, next, rollbackError, firstError, accepted>>
    BY <1>1 DEF outputVars
  <2>2. OutputTypes' /\ FilesAccounted' /\ OpeningAccounted'
    BY <1>1, <2>1 DEF OutputInv, OutputTypes, FilesAccounted, OpeningAccounted, FileKinds
  <2>3. RowsAccounted' /\ BooksHaveAudits'
    BY <1>1, <2>1 DEF OutputInv, RowsAccounted, BooksHaveAudits, FileKinds
  <2>4. QED
    BY <2>2, <2>3 DEF OutputInv
<1>2. QED
  BY <1>1, OpenFilesStep, WriteStep, FlushStep, CloseStep DEF OutputNext

-----------------------------------------------------------------------------
(* The files of open_live and open_replay, for any number of symbols: when *)
(* opening them fails nothing is left behind that is not reported.         *)
THEOREM RollbackIsComplete == OutputSpec => []FailedOpenLeavesNothing
BY OutputInitInv, OutputInvStep, OutputInvSuffices, PTL DEF OutputSpec

(* write_batch, flush_all and close_all, for any number of symbols and any *)
(* sequence of calls: a set closed without an error holds every row, and a *)
(* book row is never taken without its audit row.                          *)
THEOREM ClosedOutputsHoldEveryRow == OutputSpec => []OutputsAreComplete
BY OutputInitInv, OutputInvStep, OutputInvSuffices, PTL DEF OutputSpec

-----------------------------------------------------------------------------
(* run_replay.                                                             *)

ReplayTypes ==
  /\ command \in {"live", "inspecting", "checking", "opening", "replaying", "closing", "exited"}
  /\ mode = "live_capture" <=> command = "live"
  /\ metadata \in Seq(Symbols)
  /\ position \in Nat \ {0}
  /\ reader \in {"unopened", "first", "open"}
  /\ counts \in [read : Nat, processed : Nat, book : Nat]
  /\ exitCode \in {"none", "success", "command_line", "input", "output", "processing"}
  /\ regenerated \in [Targets -> [symbol : Symbols \cup {"none"}, rows : Nat, books : Nat,
                                  complete : BOOLEAN]]

(* Where the output set is when the command is at a given place.           *)
CommandAndPhase ==
  /\ command \in {"inspecting", "checking"} => phase = "preparing"
  /\ command = "opening" => phase \in {"preparing", "opening", "rolling_back"}
  /\ command \in {"replaying", "closing"} => phase = "ready"
  /\ command = "exited" => phase \in {"preparing", "failed", "closed"}
  /\ command = "replaying" => firstError = "none"
  /\ exitCode = "none" <=> command \notin {"closing", "exited"}
  /\ exitCode = "success" => phase \in {"ready", "closed"}
  /\ command = "exited" /\ (phase = "failed" \/ firstError # "none") => exitCode = "output"

(* What the first loop and the check after it establish before a file is   *)
(* touched, and keep.                                                      *)
InputsChecked ==
  /\ command = "inspecting" =>
       /\ position \in Targets /\ Len(metadata) = position - 1
       /\ \A i, j \in 1 .. position - 1 : i # j => Distinct(i, j)
  /\ command \in {"checking", "opening"} => position = 1
  /\ command \in {"checking", "opening", "replaying", "closing"} => Len(metadata) = TargetCount
  /\ command \in {"checking", "opening", "replaying", "closing"}
       \/ (mode = "replay" /\ phase # "preparing")
     => \A i, j \in Targets : i # j => Distinct(i, j)
  /\ command \in {"opening", "replaying", "closing"} \/ (mode = "replay" /\ phase # "preparing")
     => \A i \in Targets : options.output # options.inputs[i].parent

ReadToEnd(t) == regenerated[t].complete /\ regenerated[t].symbol = metadata[t]

(* What the second loop has done so far.                                   *)
InputsReplayed ==
  /\ exitCode \notin {"processing", "output"} => counts.read = counts.processed
  /\ mode = "replay" => \A t \in Targets : Len(accepted[t]["book"]) = regenerated[t].books
  /\ command \in {"inspecting", "checking", "opening"} => reader = "unopened"
  /\ command = "replaying" =>
       /\ position \in Targets
       /\ \A t \in 1 .. position - 1 : ReadToEnd(t)
       /\ reader = "open" => regenerated[position].symbol = metadata[position]
  /\ exitCode = "success" => \A t \in Targets : ReadToEnd(t)

ReplayInv ==
  /\ OutputInv
  /\ ReplayTypes
  /\ CommandAndPhase
  /\ InputsChecked
  /\ InputsReplayed

LEMMA ReplayInvSuffices == ReplayInv => ReplayExitIsHonest
<1> SUFFICES ASSUME ReplayInv PROVE ReplayExitIsHonest
  OBVIOUS
<1>1. ASSUME exitCode = "success", command = "exited", NEW t \in Targets
      PROVE  Len(sinks[t]["book"].durable) = regenerated[t].books
  <2>1. phase = "closed" /\ firstError = "none" /\ mode = "replay"
    BY <1>1 DEF ReplayInv, CommandAndPhase, ReplayTypes, OutputInv, OutputTypes
  <2>2. "book" \in FileKinds
    BY DEF FileKinds
  <2>3. sinks[t]["book"].durable = accepted[t]["book"]
    BY <2>1, <2>2, OutputInvSuffices, SMTT(30) DEF ReplayInv, OutputsAreComplete
  <2>4. QED
    BY <2>1, <2>3 DEF ReplayInv, InputsReplayed
<1>2. exitCode = "success" /\ command = "exited" =>
        /\ counts.read = counts.processed
        /\ \A t \in Targets :
             /\ regenerated[t].complete /\ regenerated[t].symbol = metadata[t]
             /\ Len(sinks[t]["book"].durable) = regenerated[t].books
  BY <1>1 DEF ReplayInv, InputsReplayed, ReadToEnd
<1>3. SomeFileExists => phase # "preparing"
  BY DEF ReplayInv, OutputInv, FilesAccounted, OpeningAccounted, SomeFileExists
<1>4. QED
  BY <1>2, <1>3 DEF ReplayInv, CommandAndPhase, InputsChecked, ReplayExitIsHonest

LEMMA ReplayInitInv == ReplayInit => ReplayInv
<1> SUFFICES ASSUME ReplayInit PROVE ReplayInv
  OBVIOUS
<1> USE DEF ReplayInit
<1>1. OutputInv
  BY OutputInitInv
<1>2. ReplayTypes
  BY EmptySeq DEF OutputInit, ReplayTypes, NotRead
<1>3. CommandAndPhase
  BY DEF OutputInit, CommandAndPhase
<1>4. InputsChecked
  BY TargetCountAssumption, EmptySeq DEF OutputInit, InputsChecked, Targets
<1>5. InputsReplayed
  BY DEF OutputInit, InputsReplayed, NotRead, FileKinds
<1>6. QED
  BY <1>1, <1>2, <1>3, <1>4, <1>5 DEF ReplayInv

-----------------------------------------------------------------------------
(* One lemma per action.                                                   *)

LEMMA SameOutputs == OutputInv /\ UNCHANGED outputVars => OutputInv'
BY OutputInvStep

LEMMA LiveStep == ReplayInv /\ command = "live" /\ OutputNext /\ UNCHANGED commandVars => ReplayInv'
<1> SUFFICES ASSUME ReplayInv, command = "live", OutputNext, UNCHANGED commandVars PROVE ReplayInv'
  OBVIOUS
<1>1. OutputInv'
  BY OutputInvStep DEF ReplayInv
<1>2. mode' = mode
  BY Zenon DEF OutputNext, OpenFiles, RejectArguments, PrepareOutputDirectory, OpenFile, OpenSucceeds,
         OpenFails, RollbackTarget, RollbackDirectory, WriteBatch, FlushAll, CloseAll, ForEachSink
<1>3. UNCHANGED <<command, options, metadata, position, reader, counts, exitCode, regenerated>>
  BY DEF commandVars
<1>4. mode = "live_capture" /\ exitCode = "none"
  BY DEF ReplayInv, ReplayTypes, CommandAndPhase
<1>5. ReplayTypes'
  BY <1>2, <1>3, SMTT(30) DEF ReplayInv, ReplayTypes
<1>6. CommandAndPhase' /\ InputsChecked' /\ InputsReplayed'
  BY <1>2, <1>3, <1>4, SMTT(30) DEF ReplayInv, CommandAndPhase, InputsChecked, InputsReplayed
<1>7. QED
  BY <1>1, <1>5, <1>6 DEF ReplayInv

(* The input at position differs from those before it, or the run ends.    *)
LEMMA InspectStep == ReplayInv /\ InspectInput => ReplayInv'
<1> SUFFICES ASSUME ReplayInv, InspectInput PROVE ReplayInv'
  OBVIOUS
<1> USE TargetCountAssumption
<1>1. /\ command = "inspecting" /\ phase = "preparing" /\ exitCode = "none" /\ mode = "replay"
      /\ position \in 1 .. TargetCount /\ Len(metadata) = position - 1 /\ metadata \in Seq(Symbols)
      /\ firstError = "none"
  BY DEF InspectInput, ReplayInv, CommandAndPhase, InputsChecked, ReplayTypes, Targets,
         OutputInv, OutputTypes, OpeningAccounted
<1>2. /\ UNCHANGED <<mode, phase, directory, sinks, next, rollbackError, firstError, accepted>>
      /\ UNCHANGED <<options, reader, counts, regenerated>>
  BY DEF InspectInput, outputVars
<1>3. OutputInv'
  BY <1>2, SameOutputs DEF ReplayInv, outputVars
<1>4. CASE Return("input") /\ UNCHANGED <<metadata, position>>
  <2>1. command' = "exited" /\ exitCode' = "input" /\ metadata' = metadata /\ position' = position
    BY <1>4 DEF Return
  <2>2. ReplayTypes'
    BY <1>1, <1>2, <2>1, SMTT(30) DEF ReplayInv, ReplayTypes
  <2>3. CommandAndPhase' /\ InputsChecked' /\ InputsReplayed'
    BY <1>1, <1>2, <2>1 DEF ReplayInv, CommandAndPhase, InputsChecked, InputsReplayed
  <2>4. QED
    BY <1>3, <2>2, <2>3 DEF ReplayInv
<1>5. ASSUME NEW symbol \in Symbols,
             LET symbols == Append(metadata, symbol)
                 clashes == {j \in 1 .. position - 1 :
                               SamePath(position, j) \/ SameOutput(position, j, symbols)}
             IN  /\ metadata' = symbols
                 /\ IF clashes # {}
                    THEN /\ \E j \in clashes :
                              /\ \A other \in clashes : j <= other
                              /\ Return(IF SamePath(position, j) THEN "command_line" ELSE "input")
                         /\ UNCHANGED position
                    ELSE /\ command' = IF position = TargetCount THEN "checking" ELSE "inspecting"
                         /\ position' = IF position = TargetCount THEN 1 ELSE position + 1
                         /\ UNCHANGED exitCode
      PROVE  ReplayInv'
  <2> DEFINE symbols == Append(metadata, symbol)
             clashes == {j \in 1 .. position - 1 :
                           SamePath(position, j) \/ SameOutput(position, j, symbols)}
  <2>1. /\ metadata' = symbols /\ symbols \in Seq(Symbols) /\ Len(symbols) = position
        /\ symbols[position] = symbol
        /\ \A i \in 1 .. position - 1 : symbols[i] = metadata[i]
    BY <1>1, <1>5, AppendProperties
  <2>2. CASE clashes # {}
    <3>1. command' = "exited" /\ exitCode' \in {"command_line", "input"} /\ position' = position
      BY <1>5, <2>2 DEF Return
    <3>2. ReplayTypes'
      BY <1>1, <1>2, <2>1, <3>1, SMTT(30) DEF ReplayInv, ReplayTypes
    <3>3. CommandAndPhase' /\ InputsChecked' /\ InputsReplayed'
      BY <1>1, <1>2, <3>1 DEF ReplayInv, CommandAndPhase, InputsChecked, InputsReplayed
    <3>4. QED
      BY <1>3, <3>2, <3>3 DEF ReplayInv
  <2>3. CASE clashes = {}
    <3>1. /\ command' = IF position = TargetCount THEN "checking" ELSE "inspecting"
          /\ position' = IF position = TargetCount THEN 1 ELSE position + 1
          /\ exitCode' = exitCode
      BY <1>5, <2>3
    <3>2. \A i, j \in 1 .. position : i # j => Distinct(i, j)'
      <4>1. \A j \in 1 .. position - 1 : ~ SamePath(position, j) /\ ~ SameOutput(position, j, symbols)
        BY <2>3
      <4>2. \A i, j \in 1 .. position - 1 : i # j => Distinct(i, j)
        BY <1>1 DEF ReplayInv, InputsChecked
      <4>3. ASSUME NEW i \in 1 .. position, NEW j \in 1 .. position, i # j
            PROVE  Distinct(i, j)'
        <5>1. CASE i = position
          BY <1>1, <1>2, <2>1, <4>1, <4>3, <5>1 DEF Distinct, SamePath, SameOutput
        <5>2. CASE j = position
          BY <1>1, <1>2, <2>1, <4>1, <4>3, <5>2 DEF Distinct, SamePath, SameOutput
        <5>3. CASE i # position /\ j # position
          <6>1. i \in 1 .. position - 1 /\ j \in 1 .. position - 1
            BY <1>1, <5>3
          <6>2. QED
            BY <1>2, <2>1, <4>2, <4>3, <6>1 DEF Distinct, SamePath, SameOutput
        <5>4. QED
          BY <5>1, <5>2, <5>3, SMTT(30)
      <4>4. QED
        BY <4>3
    <3> HIDE DEF symbols, clashes
    <3>3. ReplayTypes'
      BY <1>1, <1>2, <2>1, <3>1, SMTT(30) DEF ReplayInv, ReplayTypes
    <3>4. CommandAndPhase' /\ InputsReplayed'
      BY <1>1, <1>2, <3>1 DEF ReplayInv, CommandAndPhase, InputsReplayed
    <3>5. InputsChecked'
      <4>1. CASE position = TargetCount
        BY <1>1, <1>2, <2>1, <3>1, <3>2, <4>1 DEF InputsChecked, Targets
      <4>2. CASE position # TargetCount
        BY <1>1, <1>2, <2>1, <3>1, <3>2, <4>2 DEF InputsChecked, Targets
      <4>3. QED
        BY <4>1, <4>2
    <3>6. QED
      BY <1>3, <3>3, <3>4, <3>5, SMTT(30) DEF ReplayInv
  <2>4. QED
    BY <2>2, <2>3
<1>6. QED
  BY <1>4, <1>5, SMTT(30) DEF InspectInput

LEMMA CheckStep == ReplayInv /\ CheckOutputDirectory => ReplayInv'
<1> SUFFICES ASSUME ReplayInv, CheckOutputDirectory PROVE ReplayInv'
  OBVIOUS
<1>1. /\ UNCHANGED <<mode, phase, directory, sinks, next, rollbackError, firstError, accepted>>
      /\ UNCHANGED <<options, metadata, position, reader, counts, regenerated>>
      /\ command = "checking"
      /\ \/ command' = "exited" /\ exitCode' = "output"
         \/ /\ command' = "opening" /\ exitCode' = exitCode
            /\ \A i \in Targets : options.output # options.inputs[i].parent
  BY DEF CheckOutputDirectory, outputVars, Return
<1>2. OutputInv'
  BY <1>1, SameOutputs, SMTT(30) DEF ReplayInv, outputVars
<1>3. ReplayTypes'
  BY <1>1 DEF ReplayInv, ReplayTypes
<1>4. CommandAndPhase'
  BY <1>1, SMTT(30) DEF ReplayInv, CommandAndPhase
<1>5. InputsChecked'
  BY <1>1, SMTT(30) DEF ReplayInv, InputsChecked, CommandAndPhase, Distinct, SamePath, SameOutput
<1>6. InputsReplayed'
  BY <1>1 DEF ReplayInv, InputsReplayed, ReadToEnd, CommandAndPhase
<1>7. QED
  BY <1>2, <1>3, <1>4, <1>5, <1>6, SMTT(30) DEF ReplayInv

LEMMA OpenStep == ReplayInv /\ OpenReplay => ReplayInv'
<1> SUFFICES ASSUME ReplayInv, OpenReplay PROVE ReplayInv'
  OBVIOUS
<1>1. /\ command = "opening" /\ mode = "replay" /\ exitCode = "none" /\ position = 1
      /\ UNCHANGED <<options, metadata, position, reader, counts, regenerated>>
  BY DEF OpenReplay, ReplayInv, ReplayTypes, CommandAndPhase, InputsChecked, OutputInv, OutputTypes
<1>2. OutputInv'
  BY OpenFilesStep DEF OpenReplay, ReplayInv
<1>3. /\ UNCHANGED <<mode, firstError, accepted>>
      /\ phase' \in {"opening", "rolling_back", "failed", "ready"}
      /\ phase' # "failed" => phase \in {"preparing", "opening", "rolling_back"}
      /\ phase' = "ready" => phase = "opening"
  BY Zenon DEF OpenReplay, OpenFiles, RejectArguments, PrepareOutputDirectory, OpenFile, OpenSucceeds,
         OpenFails, RollbackTarget, RollbackDirectory
<1>4. \/ phase' = "failed" /\ command' = "exited" /\ exitCode' = "output"
      \/ phase' = "ready" /\ command' = "replaying" /\ exitCode' = exitCode
      \/ phase' \in {"opening", "rolling_back"} /\ command' = command /\ exitCode' = exitCode
  <2>1. CASE phase' = "failed"
    BY <2>1 DEF OpenReplay, Return
  <2>2. CASE phase' = "ready"
    BY <2>2 DEF OpenReplay
  <2>3. CASE phase' \in {"opening", "rolling_back"}
    BY <2>3 DEF OpenReplay
  <2>4. QED
    BY <1>3, <2>1, <2>2, <2>3
<1>5. firstError = "none" \/ phase = "rolling_back"
  BY DEF ReplayInv, CommandAndPhase, OpenReplay, OutputInv, OpeningAccounted
<1>6. ReplayTypes'
  BY <1>1, <1>3, <1>4 DEF ReplayInv, ReplayTypes
<1>7. CommandAndPhase'
  BY <1>1, <1>3, <1>4, <1>5, SMTT(30) DEF CommandAndPhase
<1>8. InputsChecked'
  BY <1>1, <1>3, <1>4, SMTT(30) DEF ReplayInv, InputsChecked, Distinct, SamePath, SameOutput
<1>9. InputsReplayed'
  BY <1>1, <1>3, <1>4, TargetCountAssumption, SMTT(30)
     DEF ReplayInv, InputsReplayed, ReadToEnd, Targets
<1>10. QED
  BY <1>2, <1>6, <1>7, <1>8, <1>9 DEF ReplayInv

(* What the actions of the second loop have in common.                     *)
LEMMA LoopFacts ==
  ASSUME ReplayInv, command = "replaying"
  PROVE  /\ mode = "replay" /\ phase = "ready" /\ firstError = "none" /\ exitCode = "none"
         /\ position \in Targets /\ counts.read = counts.processed
         /\ FileKinds = {"book"}
BY DEF ReplayInv, ReplayTypes, CommandAndPhase, InputsReplayed, OutputInv, OutputTypes, FileKinds

LEMMA OpenInputStep == ReplayInv /\ OpenInput => ReplayInv'
<1> SUFFICES ASSUME ReplayInv, OpenInput PROVE ReplayInv'
  OBVIOUS
<1>1. /\ UNCHANGED <<mode, phase, directory, sinks, next, rollbackError, firstError, accepted>>
      /\ UNCHANGED <<options, metadata, position, counts, regenerated>>
      /\ command = "replaying"
      /\ \/ command' = command /\ exitCode' = exitCode /\ reader' = "first"
         \/ command' = "closing" /\ exitCode' = "input" /\ reader' = reader
  BY DEF OpenInput, outputVars, Stop
<1>2. OutputInv'
  BY <1>1, SameOutputs, SMTT(30) DEF ReplayInv, outputVars
<1>3. ReplayTypes' /\ CommandAndPhase'
  BY <1>1, LoopFacts, SMTT(30) DEF ReplayInv, ReplayTypes, CommandAndPhase
<1>4. InputsChecked'
  BY <1>1, SMTT(30) DEF ReplayInv, InputsChecked, Distinct, SamePath, SameOutput
<1>5. InputsReplayed'
  BY <1>1, LoopFacts DEF ReplayInv, InputsReplayed, ReadToEnd
<1>6. QED
  BY <1>2, <1>3, <1>4, <1>5, SMTT(30) DEF ReplayInv

LEMMA RejectRowStep == ReplayInv /\ RejectRow => ReplayInv'
<1> SUFFICES ASSUME ReplayInv, RejectRow PROVE ReplayInv'
  OBVIOUS
<1>1. /\ UNCHANGED <<mode, phase, directory, sinks, next, rollbackError, firstError, accepted>>
      /\ UNCHANGED <<options, metadata, position, reader, regenerated>>
      /\ command = "replaying" /\ command' = "closing" /\ exitCode' = "processing"
      /\ counts' = [counts EXCEPT !.read = @ + 1]
  BY DEF RejectRow, outputVars, Stop
<1>2. OutputInv'
  BY <1>1, SameOutputs DEF ReplayInv, outputVars
<1>3. ReplayTypes' /\ CommandAndPhase'
  BY <1>1, LoopFacts DEF ReplayInv, ReplayTypes, CommandAndPhase
<1>4. InputsChecked'
  BY <1>1 DEF ReplayInv, InputsChecked, Distinct, SamePath, SameOutput
<1>5. InputsReplayed'
  BY <1>1, LoopFacts DEF ReplayInv, InputsReplayed
<1>6. QED
  BY <1>2, <1>3, <1>4, <1>5 DEF ReplayInv

(* The input at position is complete, and was of the expected symbol.      *)
LEMMA EndInputStep == ReplayInv /\ EndInput => ReplayInv'
<1> SUFFICES ASSUME ReplayInv, EndInput PROVE ReplayInv'
  OBVIOUS
<1> USE TargetCountAssumption
<1>1. /\ UNCHANGED <<mode, phase, directory, sinks, next, rollbackError, firstError, accepted>>
      /\ UNCHANGED <<options, metadata, counts>>
      /\ command = "replaying"
  BY DEF EndInput, outputVars
<1>2. OutputInv'
  BY <1>1, SameOutputs DEF ReplayInv, outputVars
<1>3. CASE Stop("input") /\ UNCHANGED <<reader, position, regenerated>>
  <2>1. command' = "closing" /\ exitCode' = "input"
    BY <1>3, SMTT(30) DEF Stop
  <2>2. ReplayTypes' /\ CommandAndPhase'
    BY <1>1, <1>3, <2>1, LoopFacts, SMTT(30) DEF ReplayInv, ReplayTypes, CommandAndPhase
  <2>3. InputsChecked'
    BY <1>1, <1>3, <2>1, SMTT(30) DEF ReplayInv, InputsChecked, Distinct, SamePath, SameOutput
  <2>4. InputsReplayed'
    BY <1>1, <1>3, <2>1, LoopFacts DEF ReplayInv, InputsReplayed
  <2>5. QED
    BY <1>2, <2>2, <2>3, <2>4, SMTT(30) DEF ReplayInv
<1>4. CASE /\ reader = "open"
           /\ regenerated' = [regenerated EXCEPT ![position].complete = TRUE]
           /\ reader' = "unopened"
           /\ position' = position + 1
           /\ IF position = TargetCount THEN Stop("success") ELSE UNCHANGED <<command, exitCode>>
  <2>1. position \in 1 .. TargetCount
    BY <1>1, LoopFacts DEF Targets
  <2>2. \/ position = TargetCount /\ command' = "closing" /\ exitCode' = "success"
        \/ position # TargetCount /\ command' = "replaying" /\ exitCode' = "none"
    BY <1>1, <1>4, LoopFacts DEF Stop
  <2>3. /\ regenerated' \in [Targets -> [symbol : Symbols \cup {"none"}, rows : Nat, books : Nat,
                                         complete : BOOLEAN]]
        /\ \A t \in Targets : /\ regenerated'[t].symbol = regenerated[t].symbol
                              /\ regenerated'[t].books = regenerated[t].books
                              /\ t # position => regenerated'[t] = regenerated[t]
        /\ regenerated'[position].complete
    BY <1>4, <2>1, ZenonT(30) DEF ReplayInv, ReplayTypes, Targets
  <2>4. \A t \in 1 .. position : ReadToEnd(t)'
    <3>1. \A t \in 1 .. position - 1 : ReadToEnd(t)
      BY <1>1 DEF ReplayInv, InputsReplayed
    <3>2. regenerated[position].symbol = metadata[position]
      BY <1>1, <1>4 DEF ReplayInv, InputsReplayed
    <3>3. ASSUME NEW t \in 1 .. position PROVE ReadToEnd(t)'
      <4>1. CASE t = position
        BY <1>1, <2>1, <2>3, <3>2, <4>1 DEF ReadToEnd, Targets
      <4>2. CASE t # position
        <5>1. t \in 1 .. position - 1 /\ t \in Targets
          BY <2>1, <4>2 DEF Targets
        <5>2. QED
          BY <1>1, <2>3, <3>1, <4>2, <5>1 DEF ReadToEnd
      <4>3. QED
        BY <4>1, <4>2, SMTT(30)
    <3>4. QED
      BY <3>3
  <2>5. ReplayTypes'
    BY <1>1, <1>4, <2>1, <2>2, <2>3 DEF ReplayInv, ReplayTypes
  <2>6. CommandAndPhase'
    BY <1>1, <2>2, LoopFacts, SMTT(30) DEF CommandAndPhase
  <2>7. InputsChecked'
    BY <1>1, <2>2 DEF ReplayInv, InputsChecked, Distinct, SamePath, SameOutput
  <2>8. InputsReplayed'
    <3>1. mode' = "replay" => \A t \in Targets : Len(accepted'[t]["book"]) = regenerated'[t].books
      BY <1>1, <2>3, ZenonT(30) DEF ReplayInv, InputsReplayed
    <3>2. CASE position = TargetCount
      BY <1>1, <2>2, <2>4, <3>1, <3>2, LoopFacts, SMTT(30) DEF InputsReplayed, Targets
    <3>3. CASE position # TargetCount
      BY <1>1, <1>4, <2>1, <2>2, <2>4, <3>1, <3>3, LoopFacts DEF InputsReplayed, Targets
    <3>4. QED
      BY <3>2, <3>3, SMTT(30)
  <2>9. QED
    BY <1>2, <2>5, <2>6, <2>7, <2>8 DEF ReplayInv
<1>5. QED
  BY <1>3, <1>4 DEF EndInput

(* A row is counted as regenerated exactly when its file was given it.     *)
LEMMA ReplayRowStep ==
  ASSUME ReplayInv, NEW symbol \in Symbols, NEW book \in BOOLEAN, ReplayRow(symbol, book)
  PROVE  ReplayInv'
<1>1. /\ command = "replaying" /\ reader \in {"first", "open"} /\ reader' = "open"
      /\ UNCHANGED <<options, metadata, position>>
      /\ counts' = [read |-> counts.read + 1, processed |-> counts.processed + 1,
                    book |-> IF book THEN counts.book + 1 ELSE counts.book]
      /\ regenerated' = [regenerated EXCEPT ![position].symbol = symbol,
                                            ![position].rows = @ + 1,
                                            ![position].books = IF book THEN @ + 1 ELSE @]
      /\ \/ firstError' # "none" /\ command' = "closing" /\ exitCode' = "processing"
         \/ firstError' = "none" /\ command' = command /\ exitCode' = exitCode
  BY DEF ReplayRow, Stop
<1>2. /\ mode = "replay" /\ phase = "ready" /\ firstError = "none" /\ exitCode = "none"
      /\ position \in Targets /\ counts.read = counts.processed
      /\ FileKinds = {"book"}
  BY <1>1, LoopFacts
<1>3. symbol = metadata[position]
  BY <1>1 DEF ReplayRow, TargetMatches, ReplayInv, InputsReplayed
<1> DEFINE batch == [audit |-> FALSE, book |-> TRUE]
<1>4. batch \in [audit : BOOLEAN, book : BOOLEAN]
  OBVIOUS
<1>5. IF book THEN WriteBatch(position, batch) ELSE UNCHANGED outputVars
  BY DEF ReplayRow
<1>6. OutputInv'
  BY <1>2, <1>4, <1>5, WriteStep, SameOutputs, Zenon DEF ReplayInv
<1>7. mode' = mode /\ phase' = phase
  BY <1>5 DEF WriteBatch, outputVars
<1>8. /\ accepted \in [Targets -> [FileKinds -> Seq(Nat)]]
      /\ regenerated \in [Targets -> [symbol : Symbols \cup {"none"}, rows : Nat, books : Nat,
                                      complete : BOOLEAN]]
      /\ \A t \in Targets : Len(accepted[t]["book"]) = regenerated[t].books
  BY <1>2, SMTT(30) DEF ReplayInv, OutputInv, OutputTypes, ReplayTypes, InputsReplayed
<1>9. /\ regenerated' \in [Targets -> [symbol : Symbols \cup {"none"}, rows : Nat, books : Nat,
                                       complete : BOOLEAN]]
      /\ \A t \in Targets : t # position => regenerated'[t] = regenerated[t]
      /\ regenerated'[position].symbol = symbol
      /\ regenerated'[position].books
           = IF book THEN regenerated[position].books + 1 ELSE regenerated[position].books
  <2> DEFINE old == regenerated[position]
             new == [symbol |-> symbol, rows |-> old.rows + 1,
                     books |-> IF book THEN old.books + 1 ELSE old.books, complete |-> old.complete]
  <2>1. old \in [symbol : Symbols \cup {"none"}, rows : Nat, books : Nat, complete : BOOLEAN]
    BY <1>2, <1>8, SMTT(30)
  <2>2. new \in [symbol : Symbols \cup {"none"}, rows : Nat, books : Nat, complete : BOOLEAN]
    BY <2>1, SMTT(30)
  <2>3. regenerated'[position] = new
    BY <1>1, <1>2, <1>8, <2>1
  <2>4. regenerated' = [regenerated EXCEPT ![position] = regenerated'[position]]
    BY <1>1, <1>2, <1>8, Zenon
  <2>5. new.symbol = symbol /\ new.books = IF book THEN old.books + 1 ELSE old.books
    OBVIOUS
  <2> HIDE DEF new
  <2>6. regenerated' = [regenerated EXCEPT ![position] = new]
    BY <2>3, <2>4
  <2>7. QED
    BY <1>2, <1>8, <2>2, <2>3, <2>5, <2>6
<1>10. \A t \in Targets : Len(accepted'[t]["book"]) = regenerated'[t].books
  <2>1. CASE ~ book
    BY <1>2, <1>5, <1>8, <1>9, <2>1, Zenon DEF outputVars
  <2>2. CASE book
    <3>1. RowsOf(batch) = <<"book">>
      BY DEF RowsOf
    <3>2. accepted' = [accepted EXCEPT ![position] =
                         [k \in FileKinds |-> IF Contains(RowsOf(batch), k)
                                              THEN Append(@[k], Calls(position) + 1) ELSE @[k]]]
      BY <1>5, <2>2 DEF WriteBatch
    <3>3. Contains(RowsOf(batch), "book")
      BY <3>1, SMTT(30) DEF Contains
    <3>4. \A t \in Targets : accepted'[t]["book"] =
            IF t = position THEN Append(accepted[t]["book"], Calls(position) + 1)
            ELSE accepted[t]["book"]
      BY <1>2, <1>8, <3>2, <3>3
    <3>5. Calls(position) + 1 \in Nat
      BY <1>2, RowNumber, SMTT(30) DEF ReplayInv, OutputInv
    <3>6. Len(Append(accepted[position]["book"], Calls(position) + 1)) = Len(accepted[position]["book"]) + 1
      BY <1>2, <1>8, <3>5, AppendProperties, SMTT(30)
    <3>7. QED
      BY <1>2, <1>8, <1>9, <2>2, <3>4, <3>6, Zenon
  <2>3. QED
    BY <2>1, <2>2
<1>11. counts' \in [read : Nat, processed : Nat, book : Nat] /\ counts'.read = counts'.processed
  BY <1>1, <1>2 DEF ReplayInv, ReplayTypes
<1>12. ReplayTypes'
  BY <1>1, <1>2, <1>7, <1>9, <1>11 DEF ReplayInv, ReplayTypes
<1>13. CommandAndPhase'
  BY <1>1, <1>2, <1>7, SMTT(30) DEF CommandAndPhase
<1>14. InputsChecked'
  BY <1>1, <1>7, SMTT(30) DEF ReplayInv, InputsChecked, Distinct, SamePath, SameOutput
<1>15. InputsReplayed'
  <2>1. \A t \in 1 .. position - 1 : ReadToEnd(t)'
    <3>1. \A t \in 1 .. position - 1 : ReadToEnd(t) /\ t \in Targets /\ t # position
      BY <1>1, <1>2, TargetCountAssumption DEF ReplayInv, InputsReplayed, Targets
    <3>2. QED
      BY <1>1, <1>9, <3>1, SMTT(30) DEF ReadToEnd
  <2>2. QED
    BY <1>1, <1>2, <1>3, <1>9, <1>10, <1>11, <2>1 DEF InputsReplayed
<1>16. QED
  BY <1>6, <1>12, <1>13, <1>14, <1>15 DEF ReplayInv

LEMMA CloseOutputsStep == ReplayInv /\ CloseOutputs => ReplayInv'
<1> SUFFICES ASSUME ReplayInv, CloseOutputs PROVE ReplayInv'
  OBVIOUS
<1>1. /\ command = "closing" /\ command' = "exited" /\ phase' = "closed"
      /\ UNCHANGED <<options, metadata, position, reader, counts, regenerated, mode, accepted>>
      /\ exitCode' = IF firstError' # "none" THEN "output" ELSE exitCode
  BY DEF CloseOutputs, CloseAll, ForEachSink, Return, CloseError
<1>2. OutputInv'
  BY CloseStep DEF ReplayInv, CloseOutputs
<1>3. ReplayTypes'
  BY <1>1 DEF ReplayInv, ReplayTypes
<1>4. CommandAndPhase'
  BY <1>1 DEF ReplayInv, CommandAndPhase
<1>5. InputsChecked'
  BY <1>1, SMTT(30) DEF ReplayInv, InputsChecked, Distinct, SamePath, SameOutput
<1>6. InputsReplayed'
  BY <1>1 DEF ReplayInv, InputsReplayed, ReadToEnd
<1>7. QED
  BY <1>2, <1>3, <1>4, <1>5, <1>6 DEF ReplayInv

LEMMA ReplayInvStep == ReplayInv /\ [ReplayNext]_<<outputVars, commandVars>> => ReplayInv'
<1>1. ASSUME ReplayInv, UNCHANGED <<outputVars, commandVars>> PROVE ReplayInv'
  <2>1. OutputInv'
    BY <1>1, SameOutputs DEF ReplayInv
  <2>2. UNCHANGED <<mode, phase, directory, sinks, next, rollbackError, firstError, accepted,
                    command, options, metadata, position, reader, counts, exitCode, regenerated>>
    BY <1>1 DEF outputVars, commandVars
  <2>3. ReplayTypes' /\ CommandAndPhase'
    BY <1>1, <2>2, SMTT(30) DEF ReplayInv, ReplayTypes, CommandAndPhase
  <2>4. InputsChecked' /\ InputsReplayed'
    BY <1>1, <2>2, ZenonT(30) DEF ReplayInv, InputsChecked, InputsReplayed, ReadToEnd, Distinct, SamePath, SameOutput
  <2>5. QED
    BY <2>1, <2>3, <2>4 DEF ReplayInv
<1>2. QED
  BY <1>1, LiveStep, InspectStep, CheckStep, OpenStep, OpenInputStep, EndInputStep, RejectRowStep,
     ReplayRowStep, CloseOutputsStep DEF ReplayNext

-----------------------------------------------------------------------------
(* The exit code of run_replay, for any inputs: 0 only if every input was  *)
(* read to its end into a file that holds all of its book rows, "output"   *)
(* whenever the output set has failed, and no file at all for inputs that  *)
(* could overwrite each other or be overwritten.                           *)
THEOREM ReplayExitIsAlwaysHonest == ReplaySpec => []ReplayExitIsHonest
BY ReplayInitInv, ReplayInvStep, ReplayInvSuffices, PTL DEF ReplaySpec

LEMMA UsesOutputSet ==
  ReplayInv /\ [ReplayNext]_<<outputVars, commandVars>> => [OutputNext]_outputVars
<1> SUFFICES ASSUME ReplayInv, ReplayNext, ~ UNCHANGED outputVars PROVE OutputNext
  OBVIOUS
<1>1. CASE \E symbol \in Symbols, book \in BOOLEAN : ReplayRow(symbol, book)
  <2>1. PICK symbol \in Symbols, book \in BOOLEAN : ReplayRow(symbol, book)
    BY <1>1
  <2>2. WriteBatch(position, [audit |-> FALSE, book |-> TRUE]) /\ command = "replaying"
    BY <2>1 DEF ReplayRow
  <2>3. position \in Targets /\ [audit |-> FALSE, book |-> TRUE] \in [audit : BOOLEAN, book : BOOLEAN]
    BY <2>2, LoopFacts
  <2>4. QED
    BY <2>2, <2>3, Zenon DEF OutputNext
<1>2. CASE OpenReplay \/ CloseOutputs
  BY <1>2 DEF OpenReplay, CloseOutputs, OutputNext
<1>3. CASE InspectInput \/ CheckOutputDirectory \/ OpenInput \/ EndInput \/ RejectRow
  BY <1>3 DEF InspectInput, CheckOutputDirectory, OpenInput, EndInput, RejectRow
<1>4. QED
  BY <1>1, <1>2, <1>3 DEF ReplayNext

(* run_replay uses the output set only as the set allows, so every step of *)
(* it is a step of the set or leaves the set alone.                        *)
LEMMA ReplayImplementsOutputSet == ReplaySpec => OutputSpec
<1>1. ReplayInit => OutputInit
  BY DEF ReplayInit
<1>2. QED
  BY <1>1, ReplayInitInv, ReplayInvStep, UsesOutputSet, PTL DEF ReplaySpec, OutputSpec

(* Hence what is proved of the set holds in a run: a failed open leaves    *)
(* nothing behind, and files closed without an error hold every row.       *)
THEOREM RunsKeepTheirOutputs == ReplaySpec => [](FailedOpenLeavesNothing /\ OutputsAreComplete)
BY ReplayImplementsOutputSet, RollbackIsComplete, ClosedOutputsHoldEveryRow, PTL
=============================================================================
