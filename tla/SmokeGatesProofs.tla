---------------------------- MODULE SmokeGatesProofs ----------------------------
(***************************************************************************)
(* Proofs about the two smoke tests, for any number of pipes, chunks, runs *)
(* (and any least number of them), builds and attempts: the types; that a  *)
(* group the native gate reports reaped is gone with all of its output     *)
(* read; that a passed report is about the executable it names; and that a *)
(* receipt has its own evidence.                                           *)
(***************************************************************************)
EXTENDS SmokeGates, SequenceTheorems, TLAPS

-----------------------------------------------------------------------------
(* The group *)

\* A reader that has finished without an error has all there is and will be.
ReaderDone(s) == unread \/ (holders[s] = {} /\ read[s] = Len(written[s]))

\* What is kept is what was read, while it is all kept.
KeptIsRead(s) ==
    /\ read[s] <= Len(written[s])
    /\ exceeded \/ ( /\ Len(kept[s]) = read[s]
                     /\ \A i \in 1 .. read[s] : kept[s][i] = written[s][i])

GroupSound ==
    /\ \A p \in group : proc[p] # "none"
    /\ \A s \in Stream : /\ s \notin reading => ReaderDone(s)
                         /\ KeptIsRead(s)

GroupOK == ProcessesTypeOK /\ GroupSound

-----------------------------------------------------------------------------
(* The files *)

Behind(i) == \A n \in Logs : n[1] < i => onDisk[n] = {attempt}

Queued(n) == \E j \in DOMAIN queue : queue[j] = n

\* No log of step i or later has been begun.
Gathered(i) == Behind(i) /\ queue = << >> /\ ~ linked

\* The logs of step i are being written.
Gathering(i) ==
    /\ Behind(i)
    /\ \A n \in Logs : n[1] = i => onDisk[n] = {attempt} \/ Queued(n)
    /\ \A j \in DOMAIN queue : queue[j] \in Logs /\ queue[j][1] = i

\* The logs up to step i are written, and the receipt may be.
Complete(i) ==
    /\ Behind(i + 1)
    /\ \A j \in DOMAIN queue : queue[j] = Receipt

\* A receipt has the logs up to step i with it.
OwnTo(i) ==
    \A a \in onDisk[Receipt] \ {0} : \A n \in Logs : n[1] <= i => onDisk[n] = {a}

FilesSound ==
    /\ \A n \in Name : file[n] \in onDisk[n]
    /\ linked => queue # << >> /\ file[Head(queue)] = attempt

FilesOK == EvidenceTypeOK /\ FilesSound

-----------------------------------------------------------------------------
(* The native gate *)

\* What was run up to the i-th time was the captured build.
RanCaptured(i) == \A j \in 1 .. i : ran[j] = captured

NativeEvidence ==
    /\ gate \notin {"report", "over"} => onDisk[Receipt] = {0}
    /\ gate = "start" => Gathered(1)
    /\ gate \in {"verify", "launch", "polls", "cleans"} => Gathered(run)
    /\ gate = "write" => Gathering(run)
    /\ gate = "report" => Complete(run)
    /\ OwnTo(run)

NativeRuns ==
    /\ gate = "start" => run = 0 /\ ran = << >> /\ captured = 0
    /\ ~ restored => RanCaptured(Len(ran) - 1)
    /\ ~ restored /\ (binary = captured \/ gate = "launch") => RanCaptured(Len(ran))
    /\ gate \in {"verify", "launch"} => run >= 1 /\ Len(ran) = run - 1
    /\ gate \in {"polls", "cleans"} \/ (gate = "write" /\ ~ failure) =>
          run >= 1 /\ Len(ran) = run
    /\ gate = "write" => run >= 1
    /\ gate \notin {"report", "over"} => verdict = "none"
    /\ verdict = "passed" =>
          Len(ran) = Repeats /\ (restored \/ RanCaptured(Repeats - 1))

-----------------------------------------------------------------------------
(* The package row *)

Commanding == phase \in {"command", "supervise", "wait", "join"}

PackageEvidence ==
    /\ phase = "start" => Gathered(1)
    /\ Commanding => Gathered(stage)
    /\ phase = "record" => Gathering(stage)
    /\ phase = "publish" => Complete(3)
    /\ OwnTo(3)

\* What is left of the plan of a stage.
PlanSound ==
    /\ kind \in Kinds /\ (Managed \/ kind \in {"dmg", "tar"})
    /\ cleaning => stage = 1 /\ kind = "dmg"
    /\ phase \in {"record", "publish"} => stage \in 1 .. 3
    /\ Commanding =>
          \/ stage = 1 /\ kind = "dmg" /\ ~ cleaning
             /\ plan \in {<<"attach", "copy", "detach">>, <<"copy", "detach">>, <<"detach">>}
          \/ stage = 1 /\ kind = "dmg" /\ cleaning /\ plan = <<"detach">>
          \/ stage = 1 /\ kind = "tar" /\ plan \in {<<"mkdir", "copy">>, <<"copy">>}
          \/ stage = 1 /\ Managed /\ plan = <<"copy">>
          \/ stage = 2 /\ plan = <<"open">>
          \/ stage = 3 /\ plan = <<"remove">>

CommandSound ==
    phase \in {"supervise", "wait", "join"} =>
       /\ status = "ok" => \/ done \/ installed = "unknown"
                          \/ Command = "open" \/ Command = "remove"
       /\ done /\ Command = "detach" => ~ mounted

StagesSound ==
    /\ phase = "start" => stage = 0 /\ outcome[1] = "none"
    /\ kind # "dmg" \/ installed = "unknown" => ~ mounted
    /\ outcome[1] = "passed" => ~ mounted /\ (stage = 1 => ~ Commanding)
    /\ stage <= 1 => opened = {}
    /\ stage = 2 /\ phase = "command" => opened = {} /\ installed \in {"expected", "unknown"}
    /\ stage = 2 /\ phase \in {"supervise", "wait", "join"} /\ installed = "expected" =>
          opened = {"expected"}
    /\ stage = 2 /\ phase = "record" /\ outcome[2] = "passed" /\ installed = "expected" =>
          opened = {"expected"}
    /\ 2 \in observed => stage = 3 /\ (installed = "unknown" \/ opened = {"expected"})
    /\ phase \notin {"publish", "over"} => verdict = "none"
    /\ verdict = "passed" /\ installed # "unknown" =>
          opened = {"expected"} /\ ~ Residue(installed) /\ ~ mounted

IInv ==
    /\ tool \in {"native", "package"}
    /\ NativeTypeOK /\ PackageTypeOK
    /\ GroupOK
    /\ FilesOK
    /\ tool = "native" => NativeEvidence /\ NativeRuns
    /\ tool = "package" => PackageEvidence /\ PlanSound /\ CommandSound /\ StagesSound

-----------------------------------------------------------------------------
(* Proofs about the group *)

LEMMA GroupInit == NoProcess => GroupOK
<1> SUFFICES ASSUME NoProcess PROVE GroupOK
  OBVIOUS
<1>1. << >> \in Seq(Chunk) /\ Len(<< >>) = 0
  BY EmptySeq
<1>2. ProcessesTypeOK
  <2>1. written \in [Stream -> Seq(Chunk)] /\ kept \in [Stream -> Seq(Chunk)]
    BY <1>1 DEF NoProcess
  <2>2. /\ proc \in [Process -> {"none", "runs", "zombie", "gone"}]
        /\ holders \in [Stream -> SUBSET Process]
        /\ group \subseteq Process /\ doomed \subseteq Process
    BY DEF NoProcess, Process
  <2>3. /\ status \in {"none", "ok", "failed"}
        /\ read \in [Stream -> Nat] /\ reading \subseteq Stream
        /\ clock \in 0 .. Deadline + Grace
    BY OutputAssumption DEF NoProcess
  <2>4. exceeded \in BOOLEAN /\ unread \in BOOLEAN /\ faulty \in BOOLEAN
    BY DEF NoProcess
  <2> QED
    BY <2>1, <2>2, <2>3, <2>4 DEF ProcessesTypeOK
<1>3. GroupSound
  BY <1>1 DEF NoProcess, Process, GroupSound, ReaderDone, KeptIsRead
<1> QED
  BY <1>2, <1>3 DEF GroupOK

LEMMA GroupStutters == GroupOK /\ UNCHANGED groupVars => GroupOK'
  BY DEF groupVars, processVars, readerVars, GroupOK, ProcessesTypeOK, GroupSound,
         ReaderDone, KeptIsRead

LEMMA SpawnKeeps == Spawn => GroupOK'
<1> SUFFICES ASSUME Spawn PROVE GroupOK'
  OBVIOUS
<1>1. << >> \in Seq(Chunk) /\ Len(<< >>) = 0
  BY EmptySeq
<1>2. ProcessesTypeOK'
  <2>1. written' \in [Stream -> Seq(Chunk)] /\ kept' \in [Stream -> Seq(Chunk)]
    BY <1>1 DEF Spawn
  <2>2. /\ proc' \in [Process -> {"none", "runs", "zombie", "gone"}]
        /\ holders' \in [Stream -> SUBSET Process]
        /\ group' \subseteq Process /\ doomed' \subseteq Process
    BY DEF Spawn, Process
  <2>3. /\ status' \in {"none", "ok", "failed"}
        /\ read' \in [Stream -> Nat] /\ reading' \subseteq Stream
        /\ clock' \in 0 .. Deadline + Grace
    BY OutputAssumption DEF Spawn
  <2>4. exceeded' \in BOOLEAN /\ unread' \in BOOLEAN /\ faulty' \in BOOLEAN
    BY DEF Spawn
  <2> QED
    BY <2>1, <2>2, <2>3, <2>4 DEF ProcessesTypeOK
<1>3. GroupSound'
  BY <1>1 DEF Spawn, Process, GroupSound, ReaderDone, KeptIsRead
<1> QED
  BY <1>2, <1>3 DEF GroupOK

LEMMA ForgetKeeps == Forget => GroupOK'
<1> SUFFICES ASSUME Forget PROVE GroupOK'
  OBVIOUS
<1>1. << >> \in Seq(Chunk) /\ Len(<< >>) = 0
  BY EmptySeq
<1>2. ProcessesTypeOK'
  <2>1. written' \in [Stream -> Seq(Chunk)] /\ kept' \in [Stream -> Seq(Chunk)]
    BY <1>1 DEF Forget
  <2>2. /\ proc' \in [Process -> {"none", "runs", "zombie", "gone"}]
        /\ holders' \in [Stream -> SUBSET Process]
        /\ group' \subseteq Process /\ doomed' \subseteq Process
    BY DEF Forget, Process
  <2>3. /\ status' \in {"none", "ok", "failed"}
        /\ read' \in [Stream -> Nat] /\ reading' \subseteq Stream
        /\ clock' \in 0 .. Deadline + Grace
    BY OutputAssumption DEF Forget
  <2>4. exceeded' \in BOOLEAN /\ unread' \in BOOLEAN /\ faulty' \in BOOLEAN
    BY DEF Forget
  <2> QED
    BY <2>1, <2>2, <2>3, <2>4 DEF ProcessesTypeOK
<1>3. GroupSound'
  BY <1>1 DEF Forget, Process, GroupSound, ReaderDone, KeptIsRead
<1> QED
  BY <1>2, <1>3 DEF GroupOK

\* What a supervisor does to a group: reap the leader, kill, fail a call.
LEMMA SupervisorKeeps ==
    ASSUME GroupOK,
           proc' = proc \/ proc' = Reaped,
           UNCHANGED <<group, doomed>> \/ KillGroup,
           faulty' \in BOOLEAN,
           UNCHANGED <<status, holders, written, readerVars, clock>>
    PROVE  GroupOK'
<1>1. proc' \in [Process -> {"none", "runs", "zombie", "gone"}]
      /\ \A p \in group : proc'[p] # "none"
  BY DEF GroupOK, ProcessesTypeOK, GroupSound, Reaped, Process
<1>2. group' \subseteq group /\ doomed' \subseteq Process
  BY DEF GroupOK, ProcessesTypeOK, KillGroup
<1> QED
  BY <1>1, <1>2
  DEF readerVars, GroupOK, ProcessesTypeOK, GroupSound, ReaderDone, KeptIsRead

LEMMA WriteKeeps ==
    ASSUME GroupOK, NEW s \in Stream, NEW p \in Process, Write(s, p)
    PROVE  GroupOK'
<1>1. PICK c \in Chunk : written' = [written EXCEPT ![s] = Append(@, c)]
  BY DEF Write
<1> DEFINE w == written[s]
<1>2. w \in Seq(Chunk)
  BY DEF GroupOK, ProcessesTypeOK
<1>3. /\ Append(w, c) \in Seq(Chunk) /\ Len(Append(w, c)) = Len(w) + 1
      /\ Len(w) \in Nat
      /\ \A i \in 1 .. Len(w) : Append(w, c)[i] = w[i]
  BY <1>2, AppendProperties, LenProperties
<1>4. written'[s] = Append(w, c) /\ \A t \in Stream \ {s} : written'[t] = written[t]
  BY <1>1 DEF GroupOK, ProcessesTypeOK
<1>5. ProcessesTypeOK'
  BY <1>1, <1>3 DEF Write, processVars, readerVars, GroupOK, ProcessesTypeOK
<1>6. ASSUME NEW t \in Stream
      PROVE  (t \notin reading' => ReaderDone(t)') /\ KeptIsRead(t)'
  <2>1. (t \notin reading => ReaderDone(t)) /\ KeptIsRead(t) /\ read[t] \in Nat
    BY DEF GroupOK, GroupSound, ProcessesTypeOK
  <2>2. CASE t = s
    BY <1>3, <1>4, <2>1, <2>2
    DEF Write, processVars, readerVars, ReaderDone, KeptIsRead
  <2>3. CASE t # s
    BY <1>4, <2>1, <2>3
    DEF Write, processVars, readerVars, ReaderDone, KeptIsRead
  <2> QED
    BY <2>2, <2>3
<1> QED
  BY <1>5, <1>6 DEF GroupOK, GroupSound, Write, processVars

LEMMA ReadKeeps ==
    ASSUME GroupOK, NEW s \in Stream, Read(s)
    PROVE  GroupOK'
<1> DEFINE c == written[s][read[s] + 1]
           k == kept[s]
<1>1. /\ k \in Seq(Chunk) /\ written[s] \in Seq(Chunk) /\ read[s] \in Nat
      /\ Len(k) \in Nat /\ Len(written[s]) \in Nat
  BY LenProperties DEF GroupOK, ProcessesTypeOK
<1>2. c \in Chunk
  BY <1>1, ElementOfSeq DEF Read
<1>3. /\ Append(k, c) \in Seq(Chunk) /\ Len(Append(k, c)) = Len(k) + 1
      /\ \A i \in 1 .. Len(k) : Append(k, c)[i] = k[i]
      /\ Append(k, c)[Len(k) + 1] = c
  BY <1>1, <1>2, AppendProperties
<1>4. read' = [read EXCEPT ![s] = @ + 1] /\ read'[s] = read[s] + 1
      /\ \A t \in Stream \ {s} : read'[t] = read[t]
  BY DEF Read, GroupOK, ProcessesTypeOK
<1>5. UNCHANGED <<processVars, written, reading, unread, faulty, clock>>
  BY DEF Read
<1>6. CASE Len(k) < Retained /\ kept' = [kept EXCEPT ![s] = Append(@, c)] /\ UNCHANGED exceeded
  <2>1. kept'[s] = Append(k, c) /\ \A t \in Stream \ {s} : kept'[t] = kept[t]
    BY <1>6 DEF GroupOK, ProcessesTypeOK
  <2>2. ProcessesTypeOK'
    BY <1>3, <1>4, <1>5, <1>6 DEF processVars, GroupOK, ProcessesTypeOK
  <2>3. ASSUME NEW t \in Stream
        PROVE  (t \notin reading' => ReaderDone(t)') /\ KeptIsRead(t)'
    <3>1. (t \notin reading => ReaderDone(t)) /\ KeptIsRead(t)
      BY DEF GroupOK, GroupSound
    <3>2. CASE t = s
      BY <1>1, <1>3, <1>4, <1>5, <1>6, <2>1, <3>1, <3>2
      DEF Read, processVars, ReaderDone, KeptIsRead
    <3>3. CASE t # s
      BY <1>4, <1>5, <1>6, <2>1, <3>1, <3>3 DEF processVars, ReaderDone, KeptIsRead
    <3> QED
      BY <3>2, <3>3
  <2> QED
    BY <1>5, <2>2, <2>3 DEF GroupOK, GroupSound, processVars
<1>7. CASE exceeded' = TRUE /\ UNCHANGED kept
  <2>1. ProcessesTypeOK'
    BY <1>4, <1>5, <1>7 DEF processVars, GroupOK, ProcessesTypeOK
  <2>2. ASSUME NEW t \in Stream
        PROVE  (t \notin reading' => ReaderDone(t)') /\ KeptIsRead(t)'
    <3>1. (t \notin reading => ReaderDone(t)) /\ KeptIsRead(t)
      BY DEF GroupOK, GroupSound
    <3>2. CASE t = s
      BY <1>1, <1>4, <1>5, <1>7, <3>1, <3>2 DEF Read, processVars, ReaderDone, KeptIsRead
    <3>3. CASE t # s
      BY <1>4, <1>5, <1>7, <3>1, <3>3 DEF processVars, ReaderDone, KeptIsRead
    <3> QED
      BY <3>2, <3>3
  <2> QED
    BY <1>5, <2>1, <2>2 DEF GroupOK, GroupSound, processVars
<1> QED
  BY <1>6, <1>7 DEF Read

LEMMA EndsKeeps ==
    ASSUME GroupOK, NEW p \in Process, NEW how \in {"ok", "failed"}, Ends(p, how)
    PROVE  GroupOK'
<1>1. proc' \in [Process -> {"none", "runs", "zombie", "gone"}]
      /\ \A q \in group : proc'[q] # "none"
  BY DEF Ends, GroupOK, ProcessesTypeOK, GroupSound
<1>2. holders' \in [Stream -> SUBSET Process]
      /\ \A s \in Stream : holders[s] = {} => holders'[s] = {}
  BY DEF Ends, GroupOK, ProcessesTypeOK
<1>3. status' \in {"none", "ok", "failed"}
  BY DEF Ends, GroupOK, ProcessesTypeOK
<1>4. ProcessesTypeOK'
  BY <1>1, <1>2, <1>3 DEF Ends, readerVars, GroupOK, ProcessesTypeOK
<1>5. GroupSound'
  BY <1>1, <1>2 DEF Ends, readerVars, GroupOK, GroupSound, ReaderDone, KeptIsRead
<1> QED
  BY <1>4, <1>5 DEF GroupOK

LEMMA GroupNextKeeps == GroupOK /\ GroupNext => GroupOK'
<1> SUFFICES ASSUME GroupOK, GroupNext PROVE GroupOK'
  OBVIOUS
<1>1. CASE Fork
  <2>1. proc' \in [Process -> {"none", "runs", "zombie", "gone"}]
        /\ group' \subseteq Process /\ \A q \in group' : proc'[q] # "none"
    BY <1>1 DEF Fork, GroupOK, ProcessesTypeOK, GroupSound, Process
  <2>2. holders' \in [Stream -> SUBSET Process]
        /\ \A s \in Stream : holders[s] = {} => holders'[s] = {}
    BY <1>1 DEF Fork, GroupOK, ProcessesTypeOK
  <2>3. ProcessesTypeOK'
    BY <1>1, <2>1, <2>2 DEF Fork, readerVars, GroupOK, ProcessesTypeOK
  <2>4. GroupSound'
    BY <1>1, <2>1, <2>2 DEF Fork, readerVars, GroupOK, GroupSound, ReaderDone, KeptIsRead
  <2> QED
    BY <2>3, <2>4 DEF GroupOK
<1>2. CASE LeaveGroup
  BY <1>2 DEF LeaveGroup, readerVars, GroupOK, ProcessesTypeOK, GroupSound, ReaderDone, KeptIsRead
<1>3. ASSUME NEW s \in Stream, NEW p \in Process, Close(s, p) PROVE GroupOK'
  <2>1. holders' \in [Stream -> SUBSET Process]
        /\ \A t \in Stream : holders[t] = {} => holders'[t] = {}
    BY <1>3 DEF Close, GroupOK, ProcessesTypeOK
  <2> QED
    BY <1>3, <2>1
    DEF Close, readerVars, GroupOK, ProcessesTypeOK, GroupSound, ReaderDone, KeptIsRead
<1>4. ASSUME NEW p \in Process, Killed(p) PROVE GroupOK'
  BY <1>4, EndsKeeps DEF Killed
<1>5. CASE Ends("child", "ok")
  BY <1>5, EndsKeeps DEF Process
<1>6. ASSUME NEW s \in Stream, ReadEnd(s) PROVE GroupOK'
  BY <1>6 DEF ReadEnd, processVars, GroupOK, ProcessesTypeOK, GroupSound, ReaderDone, KeptIsRead
<1>7. ASSUME NEW s \in Stream, ReadFails(s) PROVE GroupOK'
  BY <1>7 DEF ReadFails, processVars, GroupOK, ProcessesTypeOK, GroupSound, ReaderDone, KeptIsRead
<1>8. CASE Tick
  BY <1>8, OutputAssumption
  DEF Tick, processVars, readerVars, GroupOK, ProcessesTypeOK, GroupSound, ReaderDone, KeptIsRead
<1> QED
  BY <1>1, <1>2, <1>3, <1>4, <1>5, <1>6, <1>7, <1>8 DEF GroupNext

LEMMA OutputKeeps == GroupOK /\ OutputNext => GroupOK'
  BY WriteKeeps, ReadKeeps DEF OutputNext

-----------------------------------------------------------------------------
(* Proofs about the files *)

LEMMA LogFacts ==
    /\ \A n \in Logs : n \in Name /\ n # Receipt /\ n[1] \in 1 .. Steps /\ n[1] \in Nat
    /\ Receipt \in Name
    /\ Steps \in Nat
  BY EvidenceAssumption DEF Logs, Name, Receipt

LEMMA LogsOfStep ==
    ASSUME NEW i \in 1 .. Steps
    PROVE  /\ LogsOf(i) \in Seq(Name)
           /\ \A j \in DOMAIN LogsOf(i) : LogsOf(i)[j] \in Logs /\ LogsOf(i)[j][1] = i
           /\ \A n \in Logs : n[1] = i => \E j \in DOMAIN LogsOf(i) : LogsOf(i)[j] = n
<1>1. DOMAIN Pipes = 1 .. Len(Pipes) /\ Len(Pipes) \in Nat
  BY GateAssumption, LenProperties
<1>2. \A j \in DOMAIN Pipes : <<i, Pipes[j]>> \in Logs
  BY DEF Logs
<1>3. LogsOf(i) \in [1 .. Len(Pipes) -> Name]
  BY <1>1, <1>2 DEF LogsOf, Name
<1>4. LogsOf(i) \in Seq(Name)
  BY <1>1, <1>3, SeqDef
<1>5. \A j \in DOMAIN LogsOf(i) : LogsOf(i)[j] \in Logs /\ LogsOf(i)[j][1] = i
  BY <1>2 DEF LogsOf
<1>6. \A n \in Logs : n[1] = i => \E j \in DOMAIN Pipes : n = <<i, Pipes[j]>>
  BY DEF Logs
<1> QED
  BY <1>4, <1>5, <1>6 DEF LogsOf

LEMMA FilesInit == NoEvidence => FilesOK /\ onDisk[Receipt] = {0} /\ OwnTo(0) /\ OwnTo(3) /\ Gathered(1)
<1> SUFFICES ASSUME NoEvidence
             PROVE  FilesOK /\ onDisk[Receipt] = {0} /\ OwnTo(0) /\ OwnTo(3) /\ Gathered(1)
  OBVIOUS
<1>1. << >> \in Seq(Name)
  BY EmptySeq
<1>2. EvidenceTypeOK
  <2>1. attempt \in 1 .. MaxAttempts /\ 0 \in Attempt
    BY EvidenceAssumption DEF NoEvidence, Attempt
  <2>2. file \in [Name -> Attempt] /\ onDisk \in [Name -> SUBSET Attempt]
    BY <2>1 DEF NoEvidence
  <2>3. queue \in Seq(Name) /\ linked \in BOOLEAN /\ verdict \in {"none", "passed", "failed"}
    BY <1>1 DEF NoEvidence
  <2> QED
    BY <2>1, <2>2, <2>3 DEF EvidenceTypeOK
<1>3. FilesSound
  BY DEF NoEvidence, FilesSound
<1>4. onDisk[Receipt] = {0}
  BY LogFacts DEF NoEvidence
<1>5. Gathered(1)
  BY LogFacts DEF NoEvidence, Gathered, Behind
<1> QED
  BY <1>2, <1>3, <1>4, <1>5 DEF FilesOK, OwnTo

LEMMA FilesStutter ==
    ASSUME FilesOK, UNCHANGED evidenceVars
    PROVE  /\ FilesOK'
           /\ \A i \in Nat : /\ Gathered(i) <=> Gathered(i)'
                             /\ Gathering(i) <=> Gathering(i)'
                             /\ Complete(i) <=> Complete(i)'
                             /\ OwnTo(i) <=> OwnTo(i)'
           /\ onDisk'[Receipt] = onDisk[Receipt]
<1>1. FilesOK'
  BY DEF evidenceVars, FilesOK, EvidenceTypeOK, FilesSound
<1> QED
  BY <1>1 DEF evidenceVars, Gathered, Gathering, Complete, OwnTo, Behind, Queued

\* The logs of a step begin to be written.
LEMMA LogsQueued ==
    ASSUME FilesOK, NEW i \in 1 .. Steps, Gathered(i),
           queue' = LogsOf(i), verdict' \in {"none", "passed", "failed"},
           UNCHANGED <<attempt, file, onDisk, linked>>
    PROVE  FilesOK' /\ Gathering(i)'
<1>1. ~ linked' /\ queue' \in Seq(Name)
  BY LogsOfStep DEF Gathered
<1>2. FilesOK'
  BY <1>1 DEF FilesOK, EvidenceTypeOK, FilesSound
<1> QED
  BY <1>2, LogsOfStep DEF Gathered, Gathering, Behind, Queued

\* So does the receipt.
LEMMA ReceiptQueued ==
    ASSUME FilesOK, NEW i \in Nat, Gathered(i + 1),
           queue' = <<Receipt>>, verdict' \in {"none", "passed", "failed"},
           UNCHANGED <<attempt, file, onDisk, linked>>
    PROVE  FilesOK' /\ Complete(i)'
<1>1. ~ linked' /\ queue' \in Seq(Name)
  BY LogFacts DEF Gathered
<1>2. FilesOK'
  BY <1>1 DEF FilesOK, EvidenceTypeOK, FilesSound
<1>3. \A j \in DOMAIN queue' : queue'[j] = Receipt
  OBVIOUS
<1> QED
  BY <1>2, <1>3 DEF Gathered, Complete, Behind

\* All logs of a step have been written.
LEMMA StepGathered ==
    ASSUME FilesOK, NEW i \in Nat, Gathering(i), queue = << >>
    PROVE  Gathered(i + 1)
<1>1. ~ linked
  BY DEF FilesOK, FilesSound
<1>2. \A n \in Logs : ~ Queued(n)
  BY DEF Queued
<1>3. ASSUME NEW n \in Logs, n[1] < i + 1 PROVE onDisk[n] = {attempt}
  <2>1. n[1] < i \/ n[1] = i
    BY <1>3, LogFacts
  <2> QED
    BY <1>2, <2>1 DEF Gathering, Behind
<1> QED
  BY <1>1, <1>3 DEF Gathered, Behind

LEMMA HeadQueued ==
    ASSUME FilesOK, queue # << >>
    PROVE  /\ 1 \in DOMAIN queue /\ Head(queue) = queue[1] /\ Head(queue) \in Name
           /\ Tail(queue) \in Seq(Name)
           /\ \A j \in DOMAIN Tail(queue) : j + 1 \in DOMAIN queue /\ Tail(queue)[j] = queue[j + 1]
           /\ \A n : Queued(n) /\ n # Head(queue) =>
                 \E j \in DOMAIN Tail(queue) : Tail(queue)[j] = n
<1>1. queue \in Seq(Name) /\ Len(queue) \in Nat /\ DOMAIN queue = 1 .. Len(queue)
      /\ Len(queue) # 0 /\ Head(queue) = queue[1]
  BY LenProperties, EmptySeq DEF FilesOK, EvidenceTypeOK
<1>2. /\ Tail(queue) \in Seq(Name) /\ Len(Tail(queue)) = Len(queue) - 1
      /\ DOMAIN Tail(queue) = 1 .. Len(queue) - 1
      /\ \A j \in 1 .. Len(queue) - 1 : Tail(queue)[j] = queue[j + 1]
  BY <1>1, HeadTailProperties, LenProperties
<1>3. Head(queue) \in Name
  BY <1>1, HeadTailProperties
<1>4. ASSUME NEW n, Queued(n), n # Head(queue)
      PROVE  \E j \in DOMAIN Tail(queue) : Tail(queue)[j] = n
  <2>1. PICK k \in DOMAIN queue : queue[k] = n
    BY <1>4 DEF Queued
  <2>2. k - 1 \in DOMAIN Tail(queue) /\ Tail(queue)[k - 1] = n
    BY <1>1, <1>2, <1>4, <2>1
  <2> QED
    BY <2>2
<1> QED
  BY <1>1, <1>2, <1>3, <1>4

LEMMA LinkKeeps ==
    ASSUME FilesOK, Link
    PROVE  /\ FilesOK'
           /\ \A i \in Nat : Gathering(i) =>
                 Gathering(i)' /\ onDisk'[Receipt] = onDisk[Receipt]
                 /\ \A k \in Nat : OwnTo(k) => OwnTo(k)'
           /\ \A i \in Nat : Complete(i) /\ OwnTo(i) => Complete(i)' /\ OwnTo(i)'
<1> DEFINE h == Head(queue)
<1>1. queue # << >> /\ ~ linked /\ file[h] = 0 /\ h \in Name /\ Queued(h)
  BY HeadQueued DEF Link, Queued
<1>2. /\ file' = [file EXCEPT ![h] = attempt]
      /\ onDisk' = [onDisk EXCEPT ![h] = @ \cup {attempt}]
      /\ linked' = TRUE
      /\ UNCHANGED <<attempt, queue, verdict>>
  BY DEF Link
<1>3. /\ file'[h] = attempt /\ onDisk'[h] = onDisk[h] \cup {attempt}
      /\ \A n \in Name \ {h} : file'[n] = file[n] /\ onDisk'[n] = onDisk[n]
      /\ attempt \in Nat /\ attempt # 0 /\ attempt \in Attempt
  BY <1>1, <1>2, EvidenceAssumption DEF FilesOK, EvidenceTypeOK, Attempt
<1>4. FilesOK'
  <2>1. EvidenceTypeOK'
    BY <1>2, <1>3 DEF FilesOK, EvidenceTypeOK
  <2>2. FilesSound'
    BY <1>1, <1>2, <1>3 DEF FilesOK, FilesSound
  <2> QED
    BY <2>1, <2>2 DEF FilesOK
<1>5. \A n \in Name : file[n] \in onDisk[n]
  BY DEF FilesOK, FilesSound
\* The head has no file, so no receipt has it with it.
<1>6. ASSUME NEW i \in Nat, OwnTo(i), NEW a \in onDisk[Receipt] \ {0}, NEW n \in Logs, n[1] <= i
      PROVE  n # h /\ onDisk'[n] = {a}
  <2>1. onDisk[n] = {a}
    BY <1>6 DEF OwnTo
  <2>2. n # h
    BY <1>1, <1>5, <1>6, <2>1, LogFacts
  <2> QED
    BY <1>3, <2>1, <2>2, LogFacts
<1>7. ASSUME NEW i \in Nat, Behind(i), \A j \in DOMAIN queue : queue[j] = Receipt \/ queue[j][1] = i
      PROVE  Behind(i)'
  <2>1. ASSUME NEW n \in Logs, n[1] < i PROVE onDisk'[n] = {attempt}
    <3>1. n # h
      BY <1>1, <1>7, <2>1, LogFacts DEF Queued
    <3> QED
      BY <1>3, <1>7, <2>1, <3>1, LogFacts DEF Behind
  <2> QED
    BY <1>2, <2>1 DEF Behind
<1>8. ASSUME NEW i \in Nat, Gathering(i)
      PROVE  Gathering(i)' /\ onDisk'[Receipt] = onDisk[Receipt]
             /\ \A k \in Nat : OwnTo(k) => OwnTo(k)'
  <2>1. h \in Logs /\ h # Receipt
    BY <1>1, <1>8, LogFacts DEF Gathering, Queued
  <2>2. onDisk'[Receipt] = onDisk[Receipt]
    BY <1>3, <2>1, LogFacts
  <2>3. \A k \in Nat : OwnTo(k) => OwnTo(k)'
    BY <1>6, <2>2 DEF OwnTo
  <2>4. \A n \in Logs : n[1] = i => onDisk'[n] = {attempt'} \/ Queued(n)'
    <3>1. ASSUME NEW n \in Logs, n[1] = i PROVE onDisk'[n] = {attempt'} \/ Queued(n)'
      <4>1. onDisk[n] = {attempt} \/ Queued(n)
        BY <1>8, <3>1 DEF Gathering
      <4>2. CASE Queued(n)
        BY <1>2, <4>2 DEF Queued
      <4>3. CASE onDisk[n] = {attempt}
        BY <1>2, <1>3, <4>3, LogFacts
      <4> QED
        BY <4>1, <4>2, <4>3
    <3> QED
      BY <3>1
  <2>5. Behind(i)'
    BY <1>7, <1>8 DEF Gathering
  <2> QED
    BY <1>2, <1>8, <2>2, <2>3, <2>4, <2>5 DEF Gathering
<1>9. ASSUME NEW i \in Nat, Complete(i), OwnTo(i)
      PROVE  Complete(i)' /\ OwnTo(i)'
  <2>1. h = Receipt
    BY <1>1, <1>9 DEF Complete, Queued
  <2>2. \A n \in Logs : onDisk'[n] = onDisk[n]
    BY <1>3, <2>1, LogFacts
  <2>3. Complete(i)'
    BY <1>2, <1>9, <2>2 DEF Complete, Behind
  <2>4. ASSUME NEW a \in onDisk'[Receipt] \ {0}, NEW n \in Logs, n[1] <= i
        PROVE  onDisk'[n] = {a}
    <3>1. a = attempt \/ a \in onDisk[Receipt] \ {0}
      BY <1>3, <2>1, <2>4
    <3>2. CASE a = attempt
      <4>1. n[1] < i + 1
        BY <2>4, LogFacts
      <4> QED
        BY <1>9, <2>2, <3>2, <4>1 DEF Complete, Behind
    <3>3. CASE a \in onDisk[Receipt] \ {0}
      BY <1>6, <1>9, <2>4, <3>3
    <3> QED
      BY <3>1, <3>2, <3>3
  <2> QED
    BY <2>3, <2>4 DEF OwnTo
<1> QED
  BY <1>4, <1>8, <1>9

LEMMA SyncKeeps ==
    ASSUME FilesOK, SyncDirectory
    PROVE  /\ FilesOK'
           /\ \A i \in Nat : Gathering(i) =>
                 Gathering(i)' /\ (onDisk[Receipt] = {0} => onDisk'[Receipt] = {0})
           /\ \A i \in Nat : Complete(i) => Complete(i)'
           /\ \A i \in Nat : OwnTo(i) => OwnTo(i)'
<1> DEFINE h == Head(queue)
<1>1. queue # << >> /\ linked /\ file[h] = attempt /\ h \in Name
  BY HeadQueued DEF SyncDirectory, FilesOK, FilesSound
<1>2. /\ onDisk' = [n \in Name |-> {file[n]}]
      /\ queue' = Tail(queue) /\ linked' = FALSE
      /\ UNCHANGED <<attempt, file, verdict>>
  BY DEF SyncDirectory
<1>3. \A n \in Name : file[n] \in onDisk[n] /\ onDisk'[n] = {file[n]}
  BY <1>2 DEF FilesOK, FilesSound
<1>4. FilesOK'
  <2>1. EvidenceTypeOK'
    <3>1. \A n \in Name : {file[n]} \subseteq Attempt
      BY DEF FilesOK, EvidenceTypeOK
    <3>2. onDisk' \in [Name -> SUBSET Attempt]
      BY <1>2, <3>1
    <3>3. queue' \in Seq(Name)
      BY <1>1, <1>2, HeadQueued
    <3> QED
      BY <1>2, <3>2, <3>3 DEF FilesOK, EvidenceTypeOK
  <2>2. FilesSound'
    BY <1>2, <1>3 DEF FilesSound
  <2> QED
    BY <2>1, <2>2 DEF FilesOK
<1>5. \A n \in Logs : onDisk[n] = {attempt} => onDisk'[n] = {attempt}
  BY <1>3, LogFacts
<1>6. \A i \in Nat : Behind(i) => Behind(i)'
  BY <1>2, <1>5 DEF Behind
<1>7. ASSUME NEW i \in Nat, Gathering(i)
      PROVE  Gathering(i)'
  <2>1. ASSUME NEW n \in Logs, n[1] = i PROVE onDisk'[n] = {attempt'} \/ Queued(n)'
    <3>1. CASE onDisk[n] = {attempt}
      BY <1>2, <1>5, <3>1
    <3>2. CASE n = h
      BY <1>1, <1>2, <1>3, <3>2
    <3>3. CASE Queued(n) /\ n # h
      BY <1>1, <1>2, <3>3, HeadQueued DEF Queued
    <3> QED
      BY <1>7, <2>1, <3>1, <3>2, <3>3 DEF Gathering
  <2>2. \A j \in DOMAIN queue' : queue'[j] \in Logs /\ queue'[j][1] = i
    BY <1>1, <1>2, <1>7, HeadQueued DEF Gathering
  <2> QED
    BY <1>6, <1>7, <2>1, <2>2 DEF Gathering
<1>8. ASSUME NEW i \in Nat, Complete(i) PROVE Complete(i)'
  <2>1. \A j \in DOMAIN queue' : queue'[j] = Receipt
    BY <1>1, <1>2, <1>8, HeadQueued DEF Complete
  <2> QED
    BY <1>6, <1>8, <2>1 DEF Complete
<1>9. ASSUME NEW i \in Nat, OwnTo(i) PROVE OwnTo(i)'
  BY <1>3, <1>9, LogFacts DEF OwnTo
<1>10. onDisk[Receipt] = {0} => onDisk'[Receipt] = {0}
  BY <1>3, LogFacts
<1> QED
  BY <1>4, <1>7, <1>8, <1>9, <1>10

LEMMA PutFailsKeeps ==
    ASSUME FilesOK, PutFails
    PROVE  FilesOK' /\ \A i \in Nat : OwnTo(i) => OwnTo(i)'
<1>1. queue' \in Seq(Name)
  BY EmptySeq DEF PutFails
<1> QED
  BY <1>1 DEF PutFails, FilesOK, EvidenceTypeOK, FilesSound, OwnTo

LEMMA NextAttemptKeeps ==
    ASSUME FilesOK, NextAttempt, UNCHANGED <<file, onDisk>> \/ PowerCut
    PROVE  FilesOK' /\ \A i \in Nat : OwnTo(i) => OwnTo(i)'
<1>1. /\ queue' \in Seq(Name) /\ ~ linked' /\ linked' \in BOOLEAN
      /\ attempt' \in 1 .. MaxAttempts /\ verdict' \in {"none", "passed", "failed"}
  <2>1. << >> \in Seq(Name)
    BY EmptySeq
  <2>2. attempt' \in 1 .. MaxAttempts
    BY EvidenceAssumption DEF NextAttempt, FilesOK, EvidenceTypeOK
  <2> QED
    BY <2>1, <2>2 DEF NextAttempt
<1>2. CASE UNCHANGED <<file, onDisk>>
  BY <1>1, <1>2 DEF FilesOK, EvidenceTypeOK, FilesSound, OwnTo
<1>3. CASE PowerCut
  <2>1. /\ file' \in [Name -> Attempt]
        /\ \A n \in Name : file'[n] \in onDisk[n] /\ onDisk'[n] = {file'[n]}
        /\ onDisk' = [n \in Name |-> {file'[n]}]
    BY <1>3 DEF PowerCut
  <2>2. FilesOK'
    BY <1>1, <2>1 DEF FilesOK, EvidenceTypeOK, FilesSound
  <2>3. \A i \in Nat : OwnTo(i) => OwnTo(i)'
    BY <2>1, LogFacts DEF OwnTo
  <2> QED
    BY <2>2, <2>3
<1> QED
  BY <1>2, <1>3

-----------------------------------------------------------------------------
(* Proofs about the native gate *)

NativeInv == NativeTypeOK /\ NativeEvidence /\ NativeRuns

LEMMA EvidenceStutters ==
    ASSUME FilesOK, NativeEvidence, UNCHANGED <<gate, run>>, UNCHANGED evidenceVars
    PROVE  NativeEvidence'
  BY DEF evidenceVars, NativeEvidence, Gathered, Gathering, Complete, OwnTo, Behind, Queued

\* Between runs and while one is supervised nothing is written.
LEMMA EvidenceWaits ==
    ASSUME FilesOK, NativeEvidence, gate \in {"verify", "launch", "polls", "cleans"},
           gate' \in {"verify", "launch", "polls", "cleans"},
           UNCHANGED run, UNCHANGED evidenceVars
    PROVE  NativeEvidence'
  BY DEF evidenceVars, NativeEvidence, Gathered, OwnTo, Behind

\* A run is over: its output is to be written.
LEMMA RunRecorded ==
    ASSUME FilesOK, NativeTypeOK, NativeEvidence, NativeRuns,
           gate \in {"verify", "launch", "polls", "cleans"}, run >= 1,
           gate' = "write", queue' = LogsOf(run), run' = run,
           UNCHANGED <<attempt, file, onDisk, linked, verdict>>
    PROVE  FilesOK' /\ NativeEvidence'
<1>1. run \in 1 .. Steps
  BY GateAssumption, EvidenceAssumption DEF NativeTypeOK
<1>2. Gathered(run) /\ onDisk[Receipt] = {0}
  BY DEF NativeEvidence
<1> DEFINE i == run
<1>3. verdict' \in {"none", "passed", "failed"}
  BY DEF FilesOK, EvidenceTypeOK
<1>4. PICK r \in 1 .. Steps : r = run
  BY <1>1
<1>5. FilesOK' /\ Gathering(r)'
  BY <1>2, <1>3, <1>4, LogsQueued
<1>6. OwnTo(run)'
  BY <1>2 DEF OwnTo
<1>7. Gathering(run)'
  BY <1>4, <1>5 DEF Gathering, Behind, Queued
<1> QED
  BY <1>2, <1>5, <1>6, <1>7 DEF NativeEvidence

LEMMA CaptureKeeps ==
    ASSUME NativeInv, GroupOK, FilesOK, Capture
    PROVE  NativeInv' /\ GroupOK' /\ FilesOK'
<1>1. GroupOK' /\ FilesOK'
  BY GroupStutters, FilesStutter DEF Capture
<1>2. NativeTypeOK'
  BY GateAssumption DEF Capture, NativeInv, NativeTypeOK
<1>3. NativeRuns'
  <2>1. Len(ran') = 0 /\ ran' = << >> /\ verdict' = "none"
    BY DEF Capture, evidenceVars, NativeInv, NativeRuns
  <2> QED
    BY <2>1 DEF Capture, NativeRuns, RanCaptured
<1>4. NativeEvidence'
  <2>1. Gathered(1) /\ onDisk[Receipt] = {0} /\ UNCHANGED evidenceVars
    BY DEF Capture, NativeInv, NativeEvidence
  <2>2. onDisk'[Receipt] = {0}
    BY <2>1 DEF evidenceVars
  <2>3. OwnTo(run)'
    BY <2>2 DEF OwnTo
  <2>4. gate' = "verify" => Gathered(run)'
    BY <2>1 DEF Capture, evidenceVars, Gathered, Behind
  <2> QED
    BY <2>2, <2>3, <2>4 DEF Capture, NativeEvidence
<1> QED
  BY <1>1, <1>2, <1>3, <1>4 DEF NativeInv

LEMMA VerifyKeeps ==
    ASSUME NativeInv, GroupOK, FilesOK, Verify
    PROVE  NativeInv' /\ GroupOK' /\ FilesOK'
<1>1. GroupOK' /\ gate = "verify" /\ run >= 1
      /\ UNCHANGED <<sup, run, binary, captured, ran, restored, verdict>>
  BY GroupStutters DEF Verify, NativeInv, NativeRuns
<1>2. CASE binary = captured
  <2>1. gate' = "launch" /\ failure' = failure /\ UNCHANGED evidenceVars
    BY <1>2 DEF Verify, evidenceVars
  <2>2. NativeTypeOK'
    BY <1>1, <2>1 DEF NativeInv, NativeTypeOK
  <2>3. ~ restored => RanCaptured(Len(ran))
    BY <1>1, <1>2 DEF NativeInv, NativeRuns
  <2>4. NativeRuns'
    BY <1>1, <2>1, <2>3 DEF NativeInv, NativeRuns, RanCaptured
  <2>5. NativeEvidence' /\ FilesOK'
    BY <1>1, <2>1, EvidenceWaits, FilesStutter DEF NativeInv
  <2> QED
    BY <1>1, <2>2, <2>4, <2>5 DEF NativeInv
<1>3. CASE binary # captured
  <2>1. gate' = "write" /\ failure' = TRUE /\ queue' = LogsOf(run)
        /\ UNCHANGED <<attempt, file, onDisk, linked>>
    BY <1>3 DEF Verify
  <2>2. NativeTypeOK'
    BY <1>1, <2>1 DEF NativeInv, NativeTypeOK
  <2>3. NativeRuns'
    BY <1>1, <2>1 DEF NativeInv, NativeRuns, RanCaptured
  <2>4. FilesOK' /\ NativeEvidence'
    BY <1>1, <2>1, RunRecorded DEF NativeInv
  <2> QED
    BY <1>1, <2>2, <2>3, <2>4 DEF NativeInv
<1> QED
  BY <1>2, <1>3

LEMMA LaunchKeeps ==
    ASSUME NativeInv, GroupOK, FilesOK, Launch
    PROVE  NativeInv' /\ GroupOK' /\ FilesOK'
<1>1. /\ gate = "launch" /\ gate' = "polls" /\ sup' = Idle /\ ran' = Append(ran, binary)
      /\ UNCHANGED <<run, failure, binary, captured, restored, evidenceVars>>
  BY DEF Launch
<1>2. GroupOK' /\ FilesOK'
  BY <1>1, SpawnKeeps, FilesStutter DEF Launch
<1>3. /\ ran \in Seq(1 .. MaxBuilds) /\ binary \in 1 .. MaxBuilds /\ run \in Nat /\ run >= 1
      /\ Len(ran) = run - 1 /\ verdict = "none" /\ (restored \/ RanCaptured(run - 1))
  <2>1. ran \in Seq(1 .. MaxBuilds) /\ binary \in 1 .. MaxBuilds /\ run \in 0 .. Repeats
    BY DEF NativeInv, NativeTypeOK
  <2>2. run >= 1 /\ Len(ran) = run - 1 /\ verdict = "none" /\ (restored \/ RanCaptured(Len(ran)))
    BY <1>1 DEF NativeInv, NativeRuns
  <2>3. run \in Nat
    BY <2>1, GateAssumption, EvidenceAssumption
  <2>4. restored \/ RanCaptured(run - 1)
    BY <2>2
  <2> QED
    BY <2>1, <2>2, <2>3, <2>4
<1>4. /\ ran' \in Seq(1 .. MaxBuilds) /\ Len(ran') = run
      /\ \A i \in 1 .. run - 1 : ran'[i] = ran[i]
      /\ ran'[run] = binary
  BY <1>1, <1>3, AppendProperties
<1>5. NativeTypeOK'
  BY <1>1, <1>4 DEF Idle, NativeInv, NativeTypeOK
<1>6. NativeRuns'
  <2>1. ~ restored => RanCaptured(Len(ran) - 1)'
    BY <1>1, <1>3, <1>4 DEF RanCaptured
  <2>2. ~ restored /\ binary = captured => RanCaptured(Len(ran))'
    <3> SUFFICES ASSUME ~ restored, binary = captured, NEW i \in 1 .. run
                 PROVE  ran'[i] = captured
      BY <1>1, <1>4 DEF RanCaptured
    <3>1. i = run \/ i \in 1 .. run - 1
      BY <1>3
    <3> QED
      BY <1>3, <1>4, <3>1 DEF RanCaptured
  <2> QED
    BY <1>1, <1>3, <1>4, <2>1, <2>2 DEF NativeRuns, evidenceVars
<1>7. NativeEvidence'
  BY <1>1, EvidenceWaits DEF NativeInv
<1> QED
  BY <1>2, <1>5, <1>6, <1>7 DEF NativeInv

LEMMA LaunchFailsKeeps ==
    ASSUME NativeInv, GroupOK, FilesOK, LaunchFails
    PROVE  NativeInv' /\ GroupOK' /\ FilesOK'
<1>1. /\ gate = "launch" /\ gate' = "write" /\ failure' = TRUE /\ queue' = LogsOf(run)
      /\ run >= 1
      /\ UNCHANGED <<sup, run, binary, captured, ran, restored, attempt, file, onDisk, linked, verdict>>
  BY DEF LaunchFails, NativeInv, NativeRuns
<1>2. GroupOK' /\ FilesOK' /\ NativeEvidence'
  BY <1>1, GroupStutters, RunRecorded DEF LaunchFails, NativeInv
<1>3. NativeTypeOK'
  BY <1>1 DEF NativeInv, NativeTypeOK
<1>4. NativeRuns'
  BY <1>1 DEF NativeInv, NativeRuns, RanCaptured
<1> QED
  BY <1>2, <1>3, <1>4 DEF NativeInv

\* What a turn of a supervising loop that goes on leaves of the gate.
LEMMA TurnKeeps ==
    ASSUME NativeInv, FilesOK, gate \in {"polls", "cleans"}, gate' \in {"polls", "cleans"},
           NativeTypeOK', UNCHANGED <<gateVars, evidenceVars>>
    PROVE  NativeInv' /\ FilesOK'
<1>1. NativeRuns'
  BY DEF gateVars, evidenceVars, NativeInv, NativeRuns, RanCaptured
<1>2. NativeEvidence' /\ FilesOK'
  BY EvidenceWaits, FilesStutter DEF gateVars, NativeInv
<1> QED
  BY <1>1, <1>2 DEF NativeInv

LEMMA BreakTypes ==
    ASSUME NativeInv, GroupOK,
           NEW p \in {"success", "exited", "wait", "read", "timeout", "output"}, Break(p),
           UNCHANGED gateVars
    PROVE  NativeTypeOK' /\ gate' = "cleans"
<1> DEFINE stop == IF clock < Deadline THEN clock + Grace ELSE Deadline + Grace
<1>1. stop \in Nat /\ stop - KillSettle \in Nat
  BY OutputAssumption, GateAssumption DEF GroupOK, ProcessesTypeOK
<1>2. sup' = [Idle EXCEPT !.pending = p, !.stopAt = stop, !.killAt = stop - KillSettle]
      /\ gate' = "cleans"
  BY DEF Break
<1>3. sup' \in [pending : {"none", "success", "exited", "wait", "read", "timeout", "output"},
                killed : BOOLEAN, killAt : Nat, stopAt : Nat, reaped : BOOLEAN]
  BY <1>1, <1>2 DEF Idle
<1> QED
  BY <1>2, <1>3 DEF gateVars, NativeInv, NativeTypeOK

LEMMA PollKeeps ==
    ASSUME NativeInv, GroupOK, FilesOK, Poll
    PROVE  NativeInv' /\ GroupOK' /\ FilesOK'
<1>1. \E p \in {"success", "exited", "wait", "read", "timeout", "output"} : Break(p)
  BY DEF Poll
<1>2. NativeTypeOK' /\ gate' = "cleans"
  BY <1>1, BreakTypes DEF Poll
<1>3. NativeInv' /\ FilesOK'
  BY <1>2, TurnKeeps DEF Poll
<1>4. GroupOK'
  <2>1. \/ UNCHANGED groupVars
        \/ /\ proc' = Reaped
           /\ UNCHANGED <<group, doomed, status, holders, written, readerVars, faulty, clock>>
        \/ faulty' = FALSE /\ UNCHANGED <<processVars, written, readerVars, clock>>
    BY DEF Poll
  <2>2. faulty \in BOOLEAN
    BY DEF GroupOK, ProcessesTypeOK
  <2> QED
    BY <2>1, <2>2, GroupStutters, SupervisorKeeps DEF processVars
<1> QED
  BY <1>3, <1>4

LEMMA SupervisedKeeps ==
    ASSUME NativeInv, FilesOK, gate = "cleans",
           NEW r \in BOOLEAN, NEW k \in BOOLEAN, Supervised(r, k)
    PROVE  NativeInv' /\ FilesOK' /\ sup'.reaped = r
<1>1. /\ gate' = "write" /\ sup' = [sup EXCEPT !.reaped = r, !.killed = k]
      /\ failure' = (~ r \/ Outcome(sup.pending) # "receipt") /\ queue' = LogsOf(run)
      /\ UNCHANGED <<run, binary, captured, ran, restored, attempt, file, onDisk, linked, verdict>>
      /\ run >= 1
  BY DEF Supervised, NativeInv, NativeRuns
<1>2. failure' \in BOOLEAN
  BY <1>1
<1>3. NativeTypeOK' /\ sup'.reaped = r
  BY <1>1, <1>2 DEF NativeInv, NativeTypeOK
<1>4. NativeRuns'
  BY <1>1 DEF NativeInv, NativeRuns, RanCaptured
<1>5. FilesOK' /\ NativeEvidence'
  BY <1>1, RunRecorded DEF NativeInv
<1> QED
  BY <1>3, <1>4, <1>5 DEF NativeInv

\* A turn of cleanup_group, and what its end says.
LEMMA CleanKeeps ==
    ASSUME NativeInv, GroupOK, FilesOK, Clean
    PROVE  /\ NativeInv' /\ GroupOK' /\ FilesOK'
           /\ gate' = "write" /\ sup'.reaped =>
                 LET processes == IF proc["leader"] = "zombie" THEN Reaped ELSE proc IN
                 processes["leader"] = "gone" /\ GroupGone(processes) /\ reading = {}
<1> DEFINE processes == IF proc["leader"] = "zombie" THEN Reaped ELSE proc
           kills == ~ sup.killed /\ clock >= sup.killAt
           ended == processes["leader"] = "gone" /\ GroupGone(processes) /\ reading = {}
<1>1. gate = "cleans" /\ sup.killed \in BOOLEAN
  BY DEF Clean, NativeInv, NativeTypeOK
<1>2. CASE ended
  <2>1. Forget /\ Supervised(TRUE, sup.killed)
    BY <1>2 DEF Clean, CleanEnds
  <2> QED
    BY <1>1, <1>2, <2>1, ForgetKeeps, SupervisedKeeps
<1>3. CASE ~ ended
  <2>1. Waits(processes)
    BY <1>3 DEF Clean
  <2>2. CASE clock >= sup.stopAt
    <3>1. Forget /\ Supervised(FALSE, sup.killed \/ kills)
      BY <2>1, <2>2 DEF Waits
    <3>2. (sup.killed \/ kills) \in BOOLEAN
      BY <1>1
    <3> QED
      BY <1>1, <3>1, <3>2, ForgetKeeps, SupervisedKeeps
  <2>3. CASE ~ (clock >= sup.stopAt)
    <3>1. /\ proc' = processes
          /\ UNCHANGED <<group, doomed>> \/ KillGroup
          /\ sup' = [sup EXCEPT !.killed = @ \/ kills]
          /\ UNCHANGED <<gate, gateVars, evidenceVars>>
          /\ UNCHANGED <<status, holders, written, readerVars, faulty, clock>>
      BY <2>1, <2>3 DEF Waits
    <3>2. GroupOK'
      <4>1. faulty' \in BOOLEAN
        BY <3>1 DEF GroupOK, ProcessesTypeOK
      <4> QED
        BY <3>1, <4>1, SupervisorKeeps
    <3>3. NativeTypeOK'
      BY <3>1 DEF gateVars, NativeInv, NativeTypeOK
    <3>4. gate' = "cleans"
      BY <1>1, <3>1
    <3>5. NativeInv' /\ FilesOK'
      BY <1>1, <3>1, <3>3, <3>4, TurnKeeps
    <3> QED
      BY <3>2, <3>4, <3>5
  <2> QED
    BY <2>2, <2>3
<1> QED
  BY <1>2, <1>3

LEMMA WrittenKeeps ==
    ASSUME NativeInv, GroupOK, FilesOK, Written
    PROVE  NativeInv' /\ GroupOK' /\ FilesOK'
<1>1. /\ gate = "write" /\ queue = << >> /\ run \in Nat /\ run >= 1 /\ run <= Repeats
      /\ Gathering(run) /\ onDisk[Receipt] = {0} /\ failure \in BOOLEAN
      /\ UNCHANGED <<sup, failure, binary, captured, ran, restored, attempt, file, onDisk, linked>>
  BY GateAssumption, EvidenceAssumption
  DEF Written, NativeInv, NativeTypeOK, NativeRuns, NativeEvidence
<1>2. GroupOK'
  BY GroupStutters DEF Written
<1>3. PICK r \in Nat : r = run
  BY <1>1
<1>4. Gathered(r + 1)
  BY <1>1, <1>3, StepGathered
<1>5. onDisk'[Receipt] = {0}
  BY <1>1
<1>6. CASE failure \/ run = Repeats
  <2>1. /\ gate' = "report" /\ verdict' = IF failure THEN "failed" ELSE "passed"
        /\ queue' = <<Receipt>> /\ UNCHANGED run
    BY <1>6 DEF Written
  <2>2. FilesOK' /\ Complete(r)'
    BY <1>1, <1>4, <2>1, ReceiptQueued
  <2>3. Complete(run)'
    BY <1>3, <2>1, <2>2 DEF Complete, Behind
  <2>4. NativeEvidence'
    BY <1>5, <2>1, <2>3 DEF NativeEvidence, OwnTo
  <2>5. NativeTypeOK'
    BY <1>1, <2>1 DEF NativeInv, NativeTypeOK
  <2>6. NativeRuns'
    BY <1>1, <1>6, <2>1 DEF NativeInv, NativeRuns, RanCaptured
  <2> QED
    BY <1>2, <2>2, <2>4, <2>5, <2>6 DEF NativeInv
<1>7. CASE ~ (failure \/ run = Repeats)
  <2>1. gate' = "verify" /\ run' = run + 1 /\ UNCHANGED <<verdict, queue>>
    BY <1>7 DEF Written
  <2>2. FilesOK'
    BY <1>1, <2>1, FilesStutter DEF evidenceVars
  <2>3. Gathered(run)'
    BY <1>1, <1>3, <1>4, <2>1 DEF Gathered, Behind
  <2>4. NativeEvidence'
    BY <1>5, <2>1, <2>3 DEF NativeEvidence, OwnTo
  <2>5. run' \in 0 .. Repeats
    BY <1>1, <1>7, <2>1, GateAssumption, EvidenceAssumption
  <2>6. NativeTypeOK'
    BY <1>1, <2>1, <2>5 DEF NativeInv, NativeTypeOK
  <2>7. NativeRuns'
    <3>1. Len(ran) = run /\ verdict = "none"
      BY <1>1, <1>7 DEF NativeInv, NativeRuns
    <3>2. run' - 1 = run /\ run' >= 1
      BY <1>1, <2>1
    <3> QED
      BY <1>1, <2>1, <3>1, <3>2 DEF NativeInv, NativeRuns, RanCaptured
  <2> QED
    BY <1>2, <2>2, <2>4, <2>6, <2>7 DEF NativeInv
<1> QED
  BY <1>6, <1>7

\* The gate ends with what is on the disk.
LEMMA OverKeeps ==
    ASSUME NativeInv, gate' = "over", gate # "start", UNCHANGED <<sup, gateVars, verdict>>,
           OwnTo(run)'
    PROVE  NativeInv'
<1>1. NativeTypeOK'
  BY DEF gateVars, NativeInv, NativeTypeOK
<1>2. NativeEvidence'
  BY DEF NativeEvidence
<1>3. NativeRuns'
  BY DEF gateVars, NativeInv, NativeRuns, RanCaptured
<1> QED
  BY <1>1, <1>2, <1>3 DEF NativeInv

LEMMA ReportedKeeps ==
    ASSUME NativeInv, GroupOK, FilesOK, Reported
    PROVE  NativeInv' /\ GroupOK' /\ FilesOK'
<1>1. OwnTo(run)'
  BY DEF Reported, gateVars, evidenceVars, NativeInv, NativeEvidence, OwnTo
<1>2. NativeInv'
  BY <1>1, OverKeeps DEF Reported, evidenceVars
<1> QED
  BY <1>2, GroupStutters, FilesStutter DEF Reported

LEMMA NativePutKeeps ==
    ASSUME NativeInv, GroupOK, FilesOK, NativePut
    PROVE  NativeInv' /\ GroupOK' /\ FilesOK'
<1>1. /\ gate \in {"write", "report"} /\ UNCHANGED <<sup, gateVars>>
      /\ GroupOK' /\ run \in Nat
  BY GroupStutters, GateAssumption, EvidenceAssumption DEF NativePut, NativeInv, NativeTypeOK
<1>2. PICK r \in Nat : r = run /\ r = run'
  BY <1>1 DEF gateVars
<1>3. /\ OwnTo(r)
      /\ gate = "write" => Gathering(r) /\ onDisk[Receipt] = {0}
      /\ gate = "report" => Complete(r)
  BY <1>2 DEF NativeInv, NativeEvidence, OwnTo, Gathering, Complete, Behind, Queued
<1>4. CASE (Link \/ SyncDirectory) /\ UNCHANGED gate
  <2>1. /\ FilesOK' /\ OwnTo(r)'
        /\ gate = "write" => Gathering(r)' /\ onDisk'[Receipt] = {0}
        /\ gate = "report" => Complete(r)'
    <3>1. CASE Link
      BY <1>1, <1>3, <3>1, LinkKeeps
    <3>2. CASE SyncDirectory
      BY <1>1, <1>3, <3>2, SyncKeeps
    <3> QED
      BY <1>4, <3>1, <3>2
  <2>2. /\ OwnTo(run)'
        /\ gate = "write" => Gathering(run)'
        /\ gate = "report" => Complete(run)'
    BY <1>2, <2>1 DEF OwnTo, Gathering, Complete, Behind, Queued
  <2>3. NativeEvidence'
    BY <1>1, <1>4, <2>1, <2>2 DEF NativeEvidence
  <2>4. UNCHANGED verdict
    BY <1>4 DEF Link, SyncDirectory
  <2>5. NativeTypeOK' /\ NativeRuns'
    BY <1>1, <1>4, <2>4 DEF gateVars, NativeInv, NativeTypeOK, NativeRuns, RanCaptured
  <2> QED
    BY <1>1, <2>1, <2>3, <2>5 DEF NativeInv
<1>5. CASE PutFails /\ gate' = "over"
  <2>1. FilesOK' /\ OwnTo(r)'
    BY <1>3, <1>5, PutFailsKeeps
  <2>2. OwnTo(run)'
    BY <1>2, <2>1 DEF OwnTo
  <2> QED
    BY <1>1, <1>5, <2>1, <2>2, OverKeeps DEF PutFails
<1> QED
  BY <1>4, <1>5 DEF NativePut

LEMMA RebuildKeeps ==
    ASSUME NativeInv, GroupOK, FilesOK, Rebuild
    PROVE  NativeInv' /\ GroupOK' /\ FilesOK'
<1>1. /\ binary' \in 1 .. MaxBuilds /\ binary' # binary
      /\ restored' = (restored \/ (binary' = captured /\ Misled))
      /\ gate \notin {"start", "polls", "cleans"}
      /\ UNCHANGED <<gate, sup, run, failure, captured, ran, groupVars, evidenceVars>>
  BY DEF Rebuild
<1>2. NativeTypeOK'
  <2>1. restored' \in BOOLEAN
    BY <1>1
  <2> QED
    BY <1>1, <2>1 DEF NativeInv, NativeTypeOK
<1>3. NativeRuns'
  <2>1. ASSUME ~ restored', binary' = captured PROVE RanCaptured(Len(ran))
    <3>1. ran \in Seq(1 .. MaxBuilds) /\ Len(ran) \in Nat /\ (ran = << >> <=> Len(ran) = 0)
      BY LenProperties, EmptySeq DEF NativeInv, NativeTypeOK
    <3>2. ~ restored /\ ~ Misled /\ RanCaptured(Len(ran) - 1)
      BY <1>1, <2>1 DEF NativeInv, NativeRuns
    <3>3. ASSUME NEW i \in 1 .. Len(ran) PROVE ran[i] = captured
      <4>1. i = Len(ran) \/ i \in 1 .. Len(ran) - 1
        BY <3>1
      <4> QED
        BY <3>1, <3>2, <4>1 DEF Misled, RanCaptured
    <3> QED
      BY <3>3 DEF RanCaptured
  <2>2. ~ restored' => ~ restored
    BY <1>1
  <2>3. \A i : RanCaptured(i) <=> RanCaptured(i)'
    BY <1>1 DEF RanCaptured
  <2> QED
    BY <1>1, <2>1, <2>2, <2>3 DEF evidenceVars, NativeInv, NativeRuns
<1>4. NativeEvidence' /\ GroupOK' /\ FilesOK'
  BY <1>1, EvidenceStutters, GroupStutters, FilesStutter DEF NativeInv
<1> QED
  BY <1>2, <1>3, <1>4 DEF NativeInv

LEMMA NativeNextKeeps ==
    ASSUME NativeInv, GroupOK, FilesOK, NativeNext
    PROVE  NativeInv' /\ GroupOK' /\ FilesOK'
<1>1. CASE Capture \/ Verify \/ Launch \/ LaunchFails
  BY <1>1, CaptureKeeps, VerifyKeeps, LaunchKeeps, LaunchFailsKeeps
<1>2. CASE Poll \/ Clean
  BY <1>2, PollKeeps, CleanKeeps
<1>3. CASE Written \/ Reported \/ NativePut \/ Rebuild
  BY <1>3, WrittenKeeps, ReportedKeeps, NativePutKeeps, RebuildKeeps
<1>4. CASE /\ gate \in {"polls", "cleans"}
           /\ GroupNext \/ OutputNext \/ \E how \in {"ok", "failed"} : Ends("leader", how)
           /\ UNCHANGED <<nativeVars, evidenceVars>>
  <2>1. GroupOK'
    BY <1>4, GroupNextKeeps, OutputKeeps, EndsKeeps DEF Process
  <2>2. NativeTypeOK' /\ gate' = gate /\ UNCHANGED gateVars
    BY <1>4 DEF nativeVars, gateVars, NativeInv, NativeTypeOK
  <2> QED
    BY <1>4, <2>1, <2>2, TurnKeeps
<1> QED
  BY <1>1, <1>2, <1>3, <1>4 DEF NativeNext

LEMMA NativeStarts == NativeInit /\ NoEvidence => NativeInv
<1> SUFFICES ASSUME NativeInit, NoEvidence PROVE NativeInv
  OBVIOUS
<1>1. << >> \in Seq(1 .. MaxBuilds) /\ Len(<< >>) = 0
  BY EmptySeq
<1>2. run \in 0 .. Repeats /\ binary \in 1 .. MaxBuilds /\ captured \in 0 .. MaxBuilds
  BY GateAssumption, EvidenceAssumption DEF NativeInit
<1>3. NativeTypeOK
  BY <1>1, <1>2 DEF NativeInit, Idle, NativeTypeOK
<1>4. NativeRuns
  BY <1>1 DEF NativeInit, NoEvidence, NativeRuns, RanCaptured
<1>5. NativeEvidence
  BY FilesInit DEF NativeInit, NativeEvidence
<1> QED
  BY <1>3, <1>4, <1>5 DEF NativeInv

-----------------------------------------------------------------------------
(* Proofs about the package row *)

PackageInv == PackageTypeOK /\ PackageEvidence /\ PlanSound /\ CommandSound /\ StagesSound

LEMMA Plans ==
    /\ \A c \in Commands : <<c>> \in Seq(Commands) /\ Len(<<c>>) = 1 /\ Head(<<c>>) = c
    /\ \A c, d \in Commands : /\ <<c, d>> \in Seq(Commands) /\ Len(<<c, d>>) = 2
                              /\ Head(<<c, d>>) = c /\ Tail(<<c, d>>) = <<d>>
    /\ \A c, d, e \in Commands : /\ <<c, d, e>> \in Seq(Commands) /\ Len(<<c, d, e>>) = 3
                                 /\ Head(<<c, d, e>>) = c /\ Tail(<<c, d, e>>) = <<d, e>>
  OBVIOUS

\* The plan of a stage by what is left of it.
LEMMA PlanCases ==
    ASSUME PlanSound, Commanding
    PROVE  /\ stage \in 1 .. 3 /\ plan \in Seq(Commands)
           /\ Command \in Commands
           /\ Command = "attach" => kind = "dmg" /\ stage = 1
           /\ stage = 2 => Command = "open"
           /\ stage = 3 => Command = "remove"
           /\ Command = "open" => stage = 2
           /\ Command = "remove" => stage = 3
           /\ Len(plan) > 1 => stage = 1 /\ ~ cleaning
           /\ Len(plan) > 1 =>
                 \/ kind = "dmg" /\ Tail(plan) \in {<<"copy", "detach">>, <<"detach">>}
                 \/ kind = "tar" /\ Tail(plan) = <<"copy">>
           /\ ~ (Len(plan) > 1) /\ kind = "dmg" /\ stage = 1 => Command = "detach"
<1> USE Plans DEF Commands, Command
<1>1. CASE stage = 1 /\ kind = "dmg"
  <2>1. CASE plan = <<"attach", "copy", "detach">> /\ ~ cleaning
    <3>1. /\ plan \in Seq(Commands) /\ Len(plan) = 3
          /\ Head(plan) = "attach" /\ Tail(plan) = <<"copy", "detach">>
      BY <2>1
    <3> QED
      BY <1>1, <2>1, <3>1
  <2>2. CASE plan = <<"copy", "detach">> /\ ~ cleaning
    <3>1. /\ plan \in Seq(Commands) /\ Len(plan) = 2
          /\ Head(plan) = "copy" /\ Tail(plan) = <<"detach">>
      BY <2>2
    <3> QED
      BY <1>1, <2>2, <3>1
  <2>3. CASE plan = <<"detach">>
    <3>1. plan \in Seq(Commands) /\ Len(plan) = 1 /\ Head(plan) = "detach"
      BY <2>3
    <3> QED
      BY <1>1, <2>3, <3>1
  <2> QED
    BY <1>1, <2>1, <2>2, <2>3 DEF PlanSound, Managed
<1>2. CASE stage = 1 /\ kind = "tar"
  <2>1. CASE plan = <<"mkdir", "copy">>
    BY <1>2, <2>1 DEF PlanSound
  <2>2. CASE plan = <<"copy">>
    BY <1>2, <2>2
  <2> QED
    BY <1>2, <2>1, <2>2 DEF PlanSound
<1>3. CASE stage = 1 /\ Managed /\ plan = <<"copy">>
  BY <1>3 DEF Managed
<1>4. CASE stage = 2 /\ plan = <<"open">>
  BY <1>4
<1>5. CASE stage = 3 /\ plan = <<"remove">>
  BY <1>5
<1> QED
  BY <1>1, <1>2, <1>3, <1>4, <1>5 DEF PlanSound

USE DEF Managed, Finding, Commands, BinaryExists, Residue

\* A command runs, ends, is killed or is reaped.
LEMMA CommandTurns ==
    ASSUME PackageInv, FilesOK,
           phase \in {"supervise", "wait", "join"}, phase' \in {"supervise", "wait", "join"},
           UNCHANGED <<commandVars, machineVars, rowVars, evidenceVars>>,
           timedOut' \in BOOLEAN,
           status' = "ok" => \/ status = "ok" \/ done \/ installed = "unknown"
                             \/ Command = "open" \/ Command = "remove"
    PROVE  PackageInv' /\ FilesOK'
<1>1. FilesOK'
  BY FilesStutter
<1>2. PackageTypeOK'
  BY DEF commandVars, machineVars, rowVars, PackageInv, PackageTypeOK
<1>3. PackageEvidence'
  BY DEF commandVars, evidenceVars, PackageInv, PackageEvidence, Commanding, Gathered, OwnTo, Behind
<1>4. PlanSound' /\ CommandSound'
  BY DEF commandVars, machineVars, PackageInv, PlanSound, CommandSound, Commanding, Command
<1>5. StagesSound'
  BY DEF commandVars, machineVars, rowVars, evidenceVars, PackageInv, StagesSound, Commanding
<1> QED
  BY <1>1, <1>2, <1>3, <1>4, <1>5 DEF PackageInv

\* The output of a stage is to be written.
LEMMA StageRecorded ==
    ASSUME FilesOK, PackageInv, Commanding,
           NEW how \in {"none", "passed", "failed", "skipped"}, Record(how),
           UNCHANGED <<stage, attempt, file, onDisk, linked, verdict>>
    PROVE  /\ FilesOK' /\ PackageEvidence'
           /\ outcome' \in [1 .. 3 -> {"none", "passed", "failed", "skipped"}]
           /\ outcome'[stage] = how
           /\ \A i \in 1 .. 3 \ {stage} : outcome'[i] = outcome[i]
<1>1. stage \in 1 .. 3 /\ stage \in 1 .. Steps
  BY PlanCases, SmokeAssumption, EvidenceAssumption DEF PackageInv
<1>2. /\ outcome' \in [1 .. 3 -> {"none", "passed", "failed", "skipped"}]
      /\ outcome'[stage] = how
      /\ \A i \in 1 .. 3 \ {stage} : outcome'[i] = outcome[i]
  BY <1>1 DEF Record, PackageInv, PackageTypeOK
<1>3. PICK i \in 1 .. Steps : i = stage /\ i = stage'
  BY <1>1
<1>4. Gathered(i) /\ OwnTo(3)
  BY <1>3 DEF PackageInv, PackageEvidence, Gathered, Behind
<1>5. verdict' \in {"none", "passed", "failed"}
  BY DEF FilesOK, EvidenceTypeOK
<1>6. queue' = LogsOf(i)
  BY <1>3 DEF Record
<1>7. FilesOK' /\ Gathering(i)'
  BY <1>4, <1>5, <1>6, LogsQueued
<1>8. Gathering(stage)' /\ OwnTo(3)'
  BY <1>3, <1>4, <1>7 DEF Gathering, OwnTo, Behind, Queued
<1>9. PackageEvidence'
  BY <1>8 DEF Record, PackageEvidence, Commanding
<1> QED
  BY <1>2, <1>7, <1>9

LEMMA ConcludedKeeps ==
    ASSUME PackageInv, FilesOK, phase \in {"command", "join"},
           NEW how \in {"passed", "failed"}, Concluded(how),
           how = "passed" => phase = "join" /\ (Command = "detach" => ~ mounted),
           timedOut' \in BOOLEAN, done' \in BOOLEAN, opened' = opened,
           UNCHANGED <<installed, mounted>> \/ (installed' = "unknown" /\ mounted' = FALSE)
    PROVE  PackageInv' /\ FilesOK'
<1> DEFINE Status == {"none", "passed", "failed", "skipped"}
<1>1. /\ Commanding /\ stage \in 1 .. 3 /\ plan \in Seq(Commands)
      /\ UNCHANGED <<kind, stage, observed, failed, attempt, file, onDisk, linked, verdict>>
      /\ outcome \in [1 .. 3 -> Status] /\ how \in Status
  BY PlanCases DEF Commanding, Concluded, PackageInv, PackageTypeOK, StagesSound
<1>2. /\ verdict = "none"
      /\ installed' # "unknown" => UNCHANGED <<installed, mounted>>
      /\ (~ mounted => ~ mounted') /\ mounted' \in BOOLEAN /\ (installed' = "unknown" => ~ mounted')
      /\ installed' \in Finding \cup {"unknown"}
  <2>1. /\ mounted \in BOOLEAN /\ installed \in Finding \cup {"unknown"}
        /\ installed = "unknown" => ~ mounted
        /\ verdict = "none"
    BY DEF PackageInv, PackageTypeOK, StagesSound
  <2>2. CASE UNCHANGED <<installed, mounted>>
    BY <2>1, <2>2
  <2>3. CASE installed' = "unknown" /\ mounted' = FALSE
    BY <2>1, <2>3
  <2> QED
    BY <2>2, <2>3
\* The cleanup of the disk image begins.
<1>3. CASE /\ ~ cleaning /\ how # "passed" /\ CleanupOnFailure # << >>
           /\ outcome' = [outcome EXCEPT ![stage] = how]
           /\ plan' = CleanupOnFailure
           /\ cleaning' = TRUE
           /\ phase' = "command"
           /\ UNCHANGED queue
  <2>1. stage = 1 /\ kind = "dmg" /\ plan' = <<"detach">>
    BY <1>3 DEF CleanupOnFailure
  <2>2. outcome' \in [1 .. 3 -> Status] /\ outcome'[1] = how
    BY <1>1, <1>3, <2>1
  <2>3. PackageTypeOK'
    BY <1>1, <1>2, <1>3, <2>1, <2>2, Plans DEF Commands, PackageInv, PackageTypeOK
  <2>4. FilesOK'
    BY <1>1, <1>3, FilesStutter DEF evidenceVars
  <2>5. PackageEvidence'
    BY <1>1, <1>3 DEF PackageInv, PackageEvidence, Commanding, Gathered, OwnTo, Behind
  <2>6. PlanSound' /\ CommandSound'
    BY <1>1, <1>3, <2>1 DEF PackageInv, PlanSound, CommandSound, Commanding
  <2>7. StagesSound'
    BY <1>1, <1>2, <1>3, <2>1, <2>2 DEF PackageInv, StagesSound, Commanding
  <2> QED
    BY <2>3, <2>4, <2>5, <2>6, <2>7 DEF PackageInv
\* The stage has failed.
<1>4. CASE /\ ~ cleaning /\ how # "passed" /\ CleanupOnFailure = << >>
           /\ plan' = << >>
           /\ Record(how)
           /\ UNCHANGED cleaning
  <2>1. /\ FilesOK' /\ PackageEvidence' /\ outcome' \in [1 .. 3 -> Status]
        /\ outcome'[stage] = how
        /\ \A i \in 1 .. 3 \ {stage} : outcome'[i] = outcome[i]
        /\ phase' = "record"
    BY <1>1, <1>4, StageRecorded DEF Record
  <2>2. << >> \in Seq(Commands)
    BY EmptySeq
  <2>3. PackageTypeOK'
    BY <1>1, <1>2, <1>4, <2>1, <2>2 DEF Commands, PackageInv, PackageTypeOK
  <2>4. PlanSound' /\ CommandSound'
    BY <1>1, <1>4, <2>1 DEF PackageInv, PlanSound, CommandSound, Commanding
  <2>5. outcome'[1] = "passed" => outcome[1] = "passed" /\ stage # 1
    BY <1>1, <1>4, <2>1
  <2>6. stage = 2 => outcome'[2] # "passed"
    BY <1>4, <2>1
  <2>7. StagesSound'
    BY <1>1, <1>2, <1>4, <2>1, <2>5, <2>6 DEF PackageInv, StagesSound, Commanding
  <2> QED
    BY <2>1, <2>3, <2>4, <2>7 DEF PackageInv
\* The next command, or the end of the stage or of its cleanup.
<1>5. CASE /\ cleaning \/ how = "passed"
           /\ plan' = Tail(plan)
           /\ IF Len(plan) > 1
                THEN phase' = "command" /\ UNCHANGED <<outcome, queue>>
                ELSE Record(IF cleaning THEN outcome[stage] ELSE "passed")
           /\ UNCHANGED cleaning
  <2>1. plan' \in Seq(Commands)
    <3>1. plan # << >>
      BY <1>1, Plans DEF Commands, PackageInv, PlanSound
    <3> QED
      BY <1>1, <1>5, <3>1, HeadTailProperties
  <2>2. CASE Len(plan) > 1
    <3>1. /\ stage = 1 /\ ~ cleaning /\ phase' = "command" /\ UNCHANGED <<outcome, queue>>
          /\ \/ kind = "dmg" /\ plan' \in {<<"copy", "detach">>, <<"detach">>}
             \/ kind = "tar" /\ plan' = <<"copy">>
      BY <1>1, <1>5, <2>2, PlanCases DEF PackageInv
    <3>2. PackageTypeOK'
      BY <1>1, <1>2, <1>5, <2>1, <3>1 DEF Commands, PackageInv, PackageTypeOK
    <3>3. FilesOK'
      BY <1>1, <3>1, FilesStutter DEF evidenceVars
    <3>4. PackageEvidence'
      BY <1>1, <3>1 DEF PackageInv, PackageEvidence, Commanding, Gathered, OwnTo, Behind
    <3>5. PlanSound' /\ CommandSound'
      BY <1>1, <1>5, <3>1 DEF PackageInv, PlanSound, CommandSound, Commanding
    <3>6. StagesSound'
      BY <1>1, <1>2, <3>1 DEF PackageInv, StagesSound, Commanding
    <3> QED
      BY <3>2, <3>3, <3>4, <3>5, <3>6 DEF PackageInv
  <2>3. CASE ~ (Len(plan) > 1)
    <3> DEFINE result == IF cleaning THEN outcome[stage] ELSE "passed"
    <3>1. result \in Status /\ Record(result)
      BY <1>1, <1>5, <2>3
    <3>2. /\ FilesOK' /\ PackageEvidence' /\ outcome' \in [1 .. 3 -> Status]
          /\ outcome'[stage] = result
          /\ \A i \in 1 .. 3 \ {stage} : outcome'[i] = outcome[i]
          /\ phase' = "record"
      BY <1>1, <3>1, StageRecorded DEF Record
    <3>3. PackageTypeOK'
      BY <1>1, <1>2, <1>5, <2>1, <3>2 DEF Commands, PackageInv, PackageTypeOK
    <3>4. PlanSound' /\ CommandSound'
      BY <1>1, <1>5, <3>2 DEF PackageInv, PlanSound, CommandSound, Commanding
    <3>5. outcome'[1] = "passed" => ~ mounted
      <4>1. CASE stage = 1
        <5>1. CASE cleaning
          BY <1>1, <3>2, <4>1, <5>1 DEF PackageInv, StagesSound
        <5>2. CASE ~ cleaning /\ kind = "dmg"
          BY <1>1, <1>5, <2>3, <4>1, <5>2, PlanCases DEF PackageInv
        <5>3. CASE kind # "dmg"
          BY <5>3 DEF PackageInv, StagesSound
        <5> QED
          BY <5>1, <5>2, <5>3
      <4>2. CASE stage # 1
        BY <1>1, <3>2, <4>2 DEF PackageInv, StagesSound
      <4> QED
        BY <4>1, <4>2
    <3>6. stage = 2 /\ outcome'[2] = "passed" /\ installed' = "expected" => opened = {"expected"}
      <4>1. stage = 2 => ~ cleaning
        BY DEF PackageInv, PlanSound
      <4> QED
        BY <1>2, <1>5, <4>1 DEF PackageInv, StagesSound
    <3>7. StagesSound'
      BY <1>1, <1>2, <3>2, <3>5, <3>6 DEF PackageInv, StagesSound, Commanding
    <3> QED
      BY <3>2, <3>3, <3>4, <3>7 DEF PackageInv
  <2> QED
    BY <2>2, <2>3
<1> QED
  BY <1>3, <1>4, <1>5 DEF Concluded

LEMMA ExecuteKeeps ==
    ASSUME PackageInv, FilesOK, Execute
    PROVE  PackageInv' /\ GroupOK' /\ FilesOK'
<1>1. /\ phase = "command" /\ phase' = "supervise" /\ Commanding
      /\ timedOut' = FALSE /\ done' = FALSE /\ status' = "none"
      /\ opened' = IF Command = "open" THEN opened \cup {installed} ELSE opened
      /\ UNCHANGED <<kind, stage, plan, cleaning, installed, mounted>>
      /\ UNCHANGED <<outcome, observed, failed>>
      /\ UNCHANGED evidenceVars
  BY DEF Execute, Spawn, Commanding, commandVars, rowVars
<1>2. GroupOK' /\ FilesOK'
  BY SpawnKeeps, FilesStutter, <1>1 DEF Execute
<1>3. PackageTypeOK'
  BY <1>1 DEF PackageInv, PackageTypeOK
<1>4. PackageEvidence'
  BY <1>1 DEF evidenceVars, PackageInv, PackageEvidence, Commanding, Gathered, OwnTo, Behind
<1>5. PlanSound' /\ CommandSound'
  BY <1>1 DEF PackageInv, PlanSound, CommandSound, Commanding
<1>6. /\ stage = 2 => opened' = {installed}
      /\ stage # 2 => opened' = opened
  BY <1>1, PlanCases DEF PackageInv, StagesSound
<1>7. StagesSound'
  BY <1>1, <1>6 DEF evidenceVars, PackageInv, StagesSound, Commanding
<1> QED
  BY <1>2, <1>3, <1>4, <1>5, <1>7 DEF PackageInv

LEMMA ExecuteFailsKeeps ==
    ASSUME PackageInv, GroupOK, FilesOK, ExecuteFails
    PROVE  PackageInv' /\ GroupOK' /\ FilesOK'
<1>1. /\ phase = "command" /\ Concluded("failed") /\ GroupOK'
      /\ timedOut' \in BOOLEAN /\ done' \in BOOLEAN
      /\ UNCHANGED <<installed, mounted, opened>>
  BY GroupStutters DEF ExecuteFails, machineVars, PackageInv, PackageTypeOK
<1> QED
  BY <1>1, ConcludedKeeps

LEMMA SuperviseKeeps ==
    ASSUME PackageInv, GroupOK, FilesOK, Supervise \/ WaitKilled
    PROVE  PackageInv' /\ GroupOK' /\ FilesOK'
<1>1. /\ phase \in {"supervise", "wait", "join"} /\ phase' \in {"supervise", "wait", "join"}
      /\ UNCHANGED <<commandVars, machineVars, rowVars, evidenceVars>>
      /\ timedOut' \in BOOLEAN /\ status' = status
  BY DEF Supervise, WaitKilled, PackageInv, PackageTypeOK
<1>2. GroupOK'
  <2>1. faulty' \in BOOLEAN
    BY DEF Supervise, WaitKilled, GroupOK, ProcessesTypeOK
  <2> QED
    BY <2>1, SupervisorKeeps DEF Supervise, WaitKilled
<1> QED
  BY <1>1, <1>2, CommandTurns

LEMMA JoinKeeps ==
    ASSUME PackageInv, FilesOK, Join
    PROVE  PackageInv' /\ GroupOK' /\ FilesOK'
<1> DEFINE how == IF ~ timedOut /\ status = "ok" THEN "passed" ELSE "failed"
<1>1. /\ phase = "join" /\ Concluded(how) /\ GroupOK'
      /\ timedOut' \in BOOLEAN /\ done' \in BOOLEAN /\ opened' = opened
      /\ UNCHANGED <<installed, mounted>> \/ (installed' = "unknown" /\ mounted' = FALSE)
  BY ForgetKeeps DEF Join, Abandon
<1>2. how \in {"passed", "failed"}
  OBVIOUS
<1>3. how = "passed" /\ Command = "detach" => ~ mounted
  BY <1>1 DEF PackageInv, CommandSound, StagesSound
<1> QED
  BY <1>1, <1>2, <1>3, ConcludedKeeps

LEMMA DoesKeeps ==
    ASSUME PackageInv, GroupOK, FilesOK, Does
    PROVE  PackageInv' /\ GroupOK' /\ FilesOK'
<1>1. /\ phase \in {"supervise", "wait", "join"} /\ phase' = phase /\ Commanding
      /\ installed # "unknown" /\ ~ done /\ done' = TRUE
      /\ UNCHANGED <<kind, stage, plan, cleaning, timedOut>>
      /\ UNCHANGED <<outcome, observed, failed>>
      /\ UNCHANGED <<groupVars, evidenceVars>>
  BY DEF Does, Commanding, commandVars, rowVars
<1>2. GroupOK' /\ FilesOK'
  BY <1>1, GroupStutters, FilesStutter
<1>3. Command \in Commands /\ status' = status
  BY <1>1, PlanCases DEF PackageInv, groupVars, processVars
<1>4. /\ installed' \in Finding
      /\ mounted' \in BOOLEAN
      /\ opened' \subseteq Finding \cup {"unknown"}
      /\ Command = "detach" => ~ mounted'
      /\ mounted' => mounted \/ Command = "attach"
      /\ Command = "open" => installed' = "other"
      /\ Command # "open" => opened' = opened
  BY <1>1, <1>3 DEF Commands, Finding, Does, PackageInv, PackageTypeOK
<1>5. PackageTypeOK'
  BY <1>1, <1>4 DEF PackageInv, PackageTypeOK
<1>6. PackageEvidence'
  BY <1>1 DEF evidenceVars, PackageInv, PackageEvidence, Commanding, Gathered, OwnTo, Behind
<1>7. PlanSound' /\ CommandSound'
  BY <1>1, <1>3, <1>4 DEF PackageInv, PlanSound, CommandSound, Commanding, Command
<1>8. StagesSound'
  BY <1>1, <1>4, PlanCases DEF Finding, evidenceVars, PackageInv, StagesSound, Commanding
<1> QED
  BY <1>2, <1>5, <1>6, <1>7, <1>8 DEF PackageInv

LEMMA CommandEndsKeeps ==
    ASSUME PackageInv, GroupOK, FilesOK, CommandEnds
    PROVE  PackageInv' /\ GroupOK' /\ FilesOK'
<1>1. GroupOK'
  BY EndsKeeps DEF CommandEnds, Process
<1>2. /\ phase \in {"supervise", "wait", "join"} /\ phase' = phase
      /\ UNCHANGED <<commandVars, machineVars, rowVars, evidenceVars>>
      /\ timedOut' \in BOOLEAN
  BY DEF CommandEnds, packageVars, PackageInv, PackageTypeOK
<1>3. status' = "ok" => done \/ installed = "unknown" \/ Command = "open" \/ Command = "remove"
  BY DEF CommandEnds, Ends
<1> QED
  BY <1>1, <1>2, <1>3, CommandTurns

LEMMA GroupGoesOn ==
    ASSUME PackageInv, GroupOK, FilesOK, phase \in {"supervise", "wait", "join"},
           GroupNext, UNCHANGED <<packageVars, evidenceVars>>
    PROVE  PackageInv' /\ GroupOK' /\ FilesOK'
<1>1. status' \in {status, "failed"}
  BY DEF GroupNext, Fork, LeaveGroup, Close, Killed, Ends, ReadEnd, ReadFails, Tick, processVars
<1>2. phase' = phase /\ timedOut' \in BOOLEAN
      /\ UNCHANGED <<commandVars, machineVars, rowVars, evidenceVars>>
  BY DEF packageVars, PackageInv, PackageTypeOK
<1> QED
  BY <1>1, <1>2, GroupNextKeeps, CommandTurns

\* run_smoke returns.
LEMMA ReturnKeeps ==
    ASSUME PackageInv, phase' = "over", FilesOK', OwnTo(3)',
           UNCHANGED <<commandVars, timedOut, machineVars, rowVars, verdict>>
    PROVE  PackageInv'
<1>1. PackageTypeOK'
  BY DEF commandVars, machineVars, rowVars, PackageInv, PackageTypeOK
<1>2. PackageEvidence' /\ PlanSound' /\ CommandSound'
  BY DEF commandVars, PackageInv, PackageEvidence, PlanSound, CommandSound, Commanding
<1>3. StagesSound'
  BY DEF commandVars, machineVars, rowVars, PackageInv, StagesSound, Commanding
<1> QED
  BY <1>1, <1>2, <1>3 DEF PackageInv

LEMMA RefuseKeeps ==
    ASSUME PackageInv, GroupOK, FilesOK, Refuse \/ Published
    PROVE  PackageInv' /\ GroupOK' /\ FilesOK'
<1>1. /\ phase' = "over" /\ UNCHANGED groupVars /\ UNCHANGED evidenceVars
      /\ UNCHANGED <<commandVars, timedOut, machineVars, rowVars, verdict>>
  BY DEF Refuse, Published, evidenceVars
<1>2. FilesOK' /\ OwnTo(3)'
  BY <1>1, FilesStutter DEF PackageInv, PackageEvidence
<1> QED
  BY <1>1, <1>2, GroupStutters, ReturnKeeps

LEMMA PackagePutKeeps ==
    ASSUME PackageInv, GroupOK, FilesOK, PackagePut
    PROVE  PackageInv' /\ GroupOK' /\ FilesOK'
<1>1. /\ phase \in {"record", "publish"}
      /\ UNCHANGED <<commandVars, timedOut, machineVars, rowVars>>
      /\ GroupOK'
  BY GroupStutters DEF PackagePut
<1>2. PICK i \in Nat : i = stage /\ i = stage'
  BY <1>1 DEF commandVars, PackageInv, PackageTypeOK
<1>3. /\ OwnTo(3)
      /\ phase = "record" => Gathering(i)
      /\ phase = "publish" => Complete(3)
  BY <1>2 DEF PackageInv, PackageEvidence, Gathering, Behind
<1>4. CASE (Link \/ SyncDirectory) /\ UNCHANGED phase
  <2>1. /\ FilesOK' /\ OwnTo(3)'
        /\ phase = "record" => Gathering(i)'
        /\ phase = "publish" => Complete(3)'
    <3>1. CASE Link
      BY <1>1, <1>3, <3>1, LinkKeeps
    <3>2. CASE SyncDirectory
      BY <1>1, <1>3, <3>2, SyncKeeps
    <3> QED
      BY <1>4, <3>1, <3>2
  <2>2. PackageEvidence'
    BY <1>1, <1>2, <1>4, <2>1 DEF PackageEvidence, Commanding, Gathering, Behind, Queued
  <2>3. UNCHANGED <<phase, verdict>>
    BY <1>4 DEF Link, SyncDirectory
  <2>4. PackageTypeOK' /\ PlanSound' /\ CommandSound'
    BY <1>1, <2>3 DEF commandVars, machineVars, rowVars, PackageInv, PackageTypeOK, PlanSound,
                      CommandSound, Commanding
  <2>5. StagesSound'
    BY <1>1, <2>3 DEF commandVars, machineVars, rowVars, PackageInv, StagesSound, Commanding
  <2> QED
    BY <1>1, <2>1, <2>2, <2>4, <2>5 DEF PackageInv
<1>5. CASE PutFails /\ phase' = "over"
  <2>1. FilesOK' /\ OwnTo(3)' /\ UNCHANGED verdict
    BY <1>3, <1>5, PutFailsKeeps DEF PutFails
  <2> QED
    BY <1>1, <1>5, <2>1, ReturnKeeps
<1> QED
  BY <1>4, <1>5 DEF PackagePut

LEMMA BeginKeeps ==
    ASSUME PackageInv, GroupOK, FilesOK, Begin
    PROVE  PackageInv' /\ GroupOK' /\ FilesOK'
<1>1. /\ phase = "start" /\ stage = 0 /\ outcome[1] = "none" /\ ~ cleaning
      /\ Gathered(1) /\ OwnTo(3) /\ verdict = "none"
      /\ UNCHANGED <<kind, cleaning, timedOut, machineVars, rowVars>>
      /\ UNCHANGED groupVars /\ UNCHANGED evidenceVars
  BY DEF Begin, PackageInv, PackageEvidence, PlanSound, StagesSound
<1>2. GroupOK' /\ FilesOK' /\ Gathered(1)' /\ OwnTo(3)' /\ verdict' = verdict
  BY <1>1, GroupStutters, FilesStutter DEF evidenceVars
<1>3. CASE phase' = "over" /\ UNCHANGED <<stage, plan>>
  <2>1. UNCHANGED <<commandVars, timedOut, machineVars, rowVars, verdict>>
    BY <1>1, <1>2, <1>3 DEF commandVars
  <2> QED
    BY <1>2, <1>3, <2>1, ReturnKeeps
<1>4. CASE phase' = "command" /\ stage' = 1 /\ plan' = Plan(1)
  <2>1. phase' = "command" /\ stage' = 1 /\ plan' = Plan(1)
    BY <1>4
  <2>2. \/ kind = "dmg" /\ plan' = <<"attach", "copy", "detach">>
        \/ kind = "tar" /\ plan' = <<"mkdir", "copy">>
        \/ Managed /\ plan' = <<"copy">>
    BY <2>1 DEF Plan, Managed, PackageInv, PlanSound
  <2>3. plan' \in Seq(Commands)
    <3>1. CASE plan' = <<"attach", "copy", "detach">>
      BY <3>1, Plans DEF Commands
    <3>2. CASE plan' = <<"mkdir", "copy">>
      BY <3>2, Plans DEF Commands
    <3>3. CASE plan' = <<"copy">>
      BY <3>3, Plans DEF Commands
    <3> QED
      BY <2>2, <3>1, <3>2, <3>3
  <2>4. PackageTypeOK'
    BY <1>1, <2>1, <2>3 DEF Commands, machineVars, rowVars, PackageInv, PackageTypeOK
  <2>5. PackageEvidence'
    BY <1>2, <2>1 DEF PackageEvidence, Commanding, Gathered, Behind
  <2>6. PlanSound' /\ CommandSound'
    BY <1>1, <2>1, <2>2 DEF PackageInv, PlanSound, CommandSound, Commanding, Managed
  <2>7. StagesSound'
    BY <1>1, <1>2, <2>1 DEF machineVars, rowVars, PackageInv, StagesSound, Commanding
  <2> QED
    BY <1>2, <2>4, <2>5, <2>6, <2>7 DEF PackageInv
<1> QED
  BY <1>3, <1>4 DEF Begin

LEMMA InstalledKeeps ==
    ASSUME PackageInv, GroupOK, FilesOK, Installed
    PROVE  PackageInv' /\ GroupOK' /\ FilesOK'
<1>1. /\ phase = "record" /\ queue = << >> /\ stage = 1 /\ stage' = 2 /\ cleaning' = FALSE
      /\ UNCHANGED <<kind, timedOut, machineVars, attempt, file, onDisk, linked, verdict>>
      /\ GroupOK' /\ OwnTo(3) /\ verdict = "none"
      /\ opened = {} /\ 2 \notin observed
  BY GroupStutters DEF Installed, Recorded, PackageInv, PackageEvidence, StagesSound
<1>2. Gathered(2)
  <2>1. Gathering(1)
    BY <1>1 DEF PackageInv, PackageEvidence
  <2> QED
    BY <1>1, <2>1, StepGathered
<1>3. CASE /\ outcome[1] = "passed" /\ \E seen \in Seen : seen = "expected"
           /\ observed' = {1}
           /\ phase' = "command"
           /\ plan' = Plan(2)
           /\ UNCHANGED <<outcome, failed, queue>>
  <2>1. /\ observed' = {1} /\ phase' = "command" /\ plan' = <<"open">>
        /\ UNCHANGED <<outcome, failed>> /\ UNCHANGED evidenceVars
        /\ installed \in {"expected", "unknown"}
    BY <1>1, <1>3 DEF Plan, evidenceVars, Seen
  <2>2. plan' \in Seq(Commands)
    BY <2>1, Plans DEF Commands
  <2>3. PackageTypeOK'
    <3>1. stage' \in 0 .. 3 /\ observed' \subseteq {1, 2}
      BY <1>1, <2>1
    <3>2. cleaning' \in BOOLEAN
      BY <1>1
    <3> QED
      BY <1>1, <2>1, <2>2, <3>1, <3>2 DEF Commands, machineVars, PackageInv, PackageTypeOK
  <2>4. FilesOK' /\ Gathered(2)' /\ OwnTo(3)'
    BY <1>1, <1>2, <2>1, FilesStutter
  <2>5. PackageEvidence'
    BY <1>1, <2>1, <2>4 DEF PackageEvidence, Commanding, Gathered, Behind
  <2>6. PlanSound' /\ CommandSound'
    BY <1>1, <2>1 DEF PackageInv, PlanSound, CommandSound, Commanding
  <2>7. StagesSound'
    BY <1>1, <1>3, <2>1 DEF machineVars, PackageInv, StagesSound, Commanding
  <2> QED
    BY <1>1, <2>3, <2>4, <2>5, <2>6, <2>7 DEF PackageInv
<1>4. CASE /\ failed' = TRUE
           /\ outcome' = [outcome EXCEPT ![2] = "skipped"]
           /\ queue' = LogsOf(2)
           /\ UNCHANGED <<phase, plan, observed>>
  <2>1. /\ failed' = TRUE /\ outcome' = [outcome EXCEPT ![2] = "skipped"]
        /\ queue' = LogsOf(2) /\ UNCHANGED <<phase, plan, observed>>
    BY <1>4
  <2>2. /\ outcome' \in [1 .. 3 -> {"none", "passed", "failed", "skipped"}]
        /\ outcome'[1] = outcome[1] /\ outcome'[2] = "skipped"
    BY <2>1 DEF PackageInv, PackageTypeOK
  <2>3. PackageTypeOK'
    <3>1. stage' \in 0 .. 3
      BY <1>1
    <3>2. cleaning' \in BOOLEAN /\ failed' \in BOOLEAN
      BY <1>1, <2>1
    <3> QED
      BY <1>1, <2>1, <2>2, <3>1, <3>2 DEF machineVars, PackageInv, PackageTypeOK
  <2>4. FilesOK' /\ Gathering(2)'
    <3>1. verdict' \in {"none", "passed", "failed"}
      BY <1>1
    <3> QED
      BY <1>1, <1>2, <2>1, <3>1, LogsQueued, SmokeAssumption, EvidenceAssumption
  <2>5. PackageEvidence'
    BY <1>1, <2>1, <2>4 DEF PackageEvidence, Commanding, Gathering, Behind, Queued, OwnTo
  <2>6. PlanSound' /\ CommandSound'
    BY <1>1, <2>1 DEF PackageInv, PlanSound, CommandSound, Commanding
  <2>7. StagesSound'
    BY <1>1, <2>1, <2>2 DEF machineVars, PackageInv, StagesSound, Commanding
  <2> QED
    BY <1>1, <2>3, <2>4, <2>5, <2>6, <2>7 DEF PackageInv
<1> QED
  BY <1>3, <1>4 DEF Installed

LEMMA OpenedKeeps ==
    ASSUME PackageInv, GroupOK, FilesOK, Opened
    PROVE  PackageInv' /\ GroupOK' /\ FilesOK'
<1>1. /\ phase = "record" /\ queue = << >> /\ stage = 2 /\ stage' = 3
      /\ phase' = "command" /\ plan' = <<"remove">>
      /\ UNCHANGED <<kind, cleaning, timedOut, outcome, machineVars>>
      /\ UNCHANGED evidenceVars /\ GroupOK' /\ OwnTo(3) /\ verdict = "none"
  BY GroupStutters DEF Opened, Recorded, Plan, PackageInv, PackageEvidence, StagesSound
<1>2. Gathered(3)
  <2>1. Gathering(2)
    BY <1>1 DEF PackageInv, PackageEvidence
  <2> QED
    BY <1>1, <2>1, StepGathered
<1>3. FilesOK' /\ Gathered(3)' /\ OwnTo(3)' /\ verdict' = verdict
  BY <1>1, <1>2, FilesStutter DEF evidenceVars
<1>4. /\ observed' \subseteq {1, 2} /\ failed' \in BOOLEAN
      /\ 2 \in observed' => installed = "unknown" \/ opened = {"expected"}
  BY <1>1 DEF Opened, Seen, PackageInv, PackageTypeOK, StagesSound
<1>5. plan' \in Seq(Commands)
  BY <1>1, Plans DEF Commands
<1>6. PackageTypeOK'
  BY <1>1, <1>4, <1>5 DEF Commands, machineVars, PackageInv, PackageTypeOK
<1>7. PackageEvidence'
  BY <1>1, <1>3 DEF PackageEvidence, Commanding, Gathered, Behind
<1>8. PlanSound' /\ CommandSound'
  BY <1>1 DEF PackageInv, PlanSound, CommandSound, Commanding
<1>9. StagesSound'
  BY <1>1, <1>3, <1>4 DEF machineVars, PackageInv, StagesSound, Commanding
<1> QED
  BY <1>1, <1>3, <1>6, <1>7, <1>8, <1>9 DEF PackageInv

LEMMA UninstalledKeeps ==
    ASSUME PackageInv, GroupOK, FilesOK, Uninstalled
    PROVE  PackageInv' /\ GroupOK' /\ FilesOK'
<1>1. /\ phase = "record" /\ queue = << >> /\ stage = 3 /\ phase' = "publish"
      /\ queue' = <<Receipt>>
      /\ UNCHANGED <<commandVars, timedOut, outcome, observed, machineVars>>
      /\ UNCHANGED <<attempt, file, onDisk, linked>>
      /\ GroupOK' /\ OwnTo(3)
  BY GroupStutters DEF Uninstalled, Recorded, PackageInv, PackageEvidence
<1>2. /\ failed' \in BOOLEAN /\ verdict' \in {"passed", "failed"}
      /\ verdict' = "passed" /\ installed # "unknown" =>
            observed = {1, 2} /\ outcome[1] = "passed" /\ ~ Residue(installed)
  <2>1. PICK seen \in Seen : failed' = (failed \/ outcome[3] # "passed" \/ Residue(seen))
    BY DEF Uninstalled
  <2>2. verdict' = IF ~ failed' /\ observed = {1, 2} /\ \A i \in 1 .. 3 : outcome[i] = "passed"
                     THEN "passed" ELSE "failed"
    BY DEF Uninstalled
  <2>3. failed' \in BOOLEAN /\ (~ failed' => ~ Residue(seen))
    BY <2>1
  <2>4. installed # "unknown" => seen = installed
    BY <2>1 DEF Seen
  <2>5. 1 \in 1 .. 3
    OBVIOUS
  <2> QED
    BY <2>2, <2>3, <2>4, <2>5
<1>3. Gathered(4)
  <2>1. Gathering(3)
    BY <1>1 DEF PackageInv, PackageEvidence
  <2> QED
    BY <1>1, <2>1, StepGathered
<1>4. FilesOK' /\ Complete(3)' /\ OwnTo(3)'
  <2>1. Gathered(3 + 1)
    BY <1>3
  <2>2. FilesOK' /\ Complete(3)'
    BY <1>1, <1>2, <2>1, ReceiptQueued
  <2> QED
    BY <1>1, <2>2 DEF OwnTo
<1>5. PackageTypeOK'
  BY <1>1, <1>2 DEF commandVars, machineVars, PackageInv, PackageTypeOK
<1>6. PackageEvidence'
  BY <1>1, <1>4 DEF PackageEvidence, Commanding
<1>7. PlanSound' /\ CommandSound'
  BY <1>1 DEF commandVars, PackageInv, PlanSound, CommandSound, Commanding
<1>8. StagesSound'
  BY <1>1, <1>2 DEF commandVars, machineVars, PackageInv, StagesSound, Commanding, Residue,
                    BinaryExists
<1> QED
  BY <1>1, <1>4, <1>5, <1>6, <1>7, <1>8 DEF PackageInv

\* xtask starts again, after a power cut or without one.
LEMMA RestartKeeps ==
    ASSUME PackageInv, GroupOK, FilesOK, Again \/ PowerLoss
    PROVE  PackageInv' /\ GroupOK' /\ FilesOK'
<1>1. /\ NextAttempt /\ Restarted
      /\ UNCHANGED <<file, onDisk>> \/ PowerCut
      /\ Forget
      /\ mounted' \in BOOLEAN /\ (mounted' => mounted)
      /\ installed' \in Finding \cup {"unknown"} /\ (installed' = "unknown" => ~ mounted')
  <2>1. mounted \in BOOLEAN /\ installed \in Finding \cup {"unknown"}
        /\ (installed = "unknown" => ~ mounted)
    BY DEF PackageInv, PackageTypeOK, StagesSound
  <2>2. CASE Again
    BY <2>1, <2>2 DEF Again, Abandon
  <2>3. CASE PowerLoss
    <3>1. installed' \in Finding /\ "unknown" \notin Finding /\ mounted' = FALSE
      BY <2>1, <2>3 DEF PowerLoss, Seen, Finding
    <3> QED
      BY <2>3, <3>1 DEF PowerLoss
  <2> QED
    BY <2>2, <2>3
<1>2. GroupOK'
  BY <1>1, ForgetKeeps
<1>3. FilesOK' /\ OwnTo(3)'
  BY <1>1, NextAttemptKeeps DEF PackageInv, PackageEvidence
<1>4. /\ << >> \in Seq(Commands)
      /\ [i \in 1 .. 3 |-> "none"] \in [1 .. 3 -> {"none", "passed", "failed", "skipped"}]
      /\ [i \in 1 .. 3 |-> "none"][1] = "none"
  BY EmptySeq
<1>5. PackageTypeOK'
  <2>1. /\ phase' = "start" /\ stage' = 0 /\ plan' = << >>
        /\ observed' = {} /\ opened' = {} /\ outcome' = [i \in 1 .. 3 |-> "none"]
        /\ UNCHANGED kind
    BY <1>1 DEF Restarted
  <2>2. /\ phase' \in {"start", "command", "supervise", "wait", "join", "record", "publish", "over"}
        /\ kind' \in Kinds \cup {"none"} /\ stage' \in 0 .. 3 /\ plan' \in Seq(Commands)
    BY <1>4, <2>1 DEF PackageInv, PackageTypeOK
  <2>3. /\ outcome' \in [1 .. 3 -> {"none", "passed", "failed", "skipped"}]
        /\ observed' \subseteq {1, 2}
        /\ installed' \in Finding \cup {"unknown"}
        /\ opened' \subseteq Finding \cup {"unknown"}
    BY <1>1, <1>4, <2>1 DEF PackageInv, PackageTypeOK
  <2>4. /\ cleaning' \in BOOLEAN /\ timedOut' \in BOOLEAN /\ failed' \in BOOLEAN
        /\ done' \in BOOLEAN /\ mounted' \in BOOLEAN
    BY <1>1 DEF Restarted
  <2> QED
    BY <2>2, <2>3, <2>4 DEF Commands, PackageTypeOK
<1>6. PackageEvidence'
  BY <1>1, <1>3, LogFacts DEF NextAttempt, Restarted, PackageEvidence, Commanding, Gathered, Behind
<1>7. PlanSound' /\ CommandSound'
  BY <1>1 DEF Restarted, PackageInv, PlanSound, CommandSound, Commanding
<1>8. StagesSound'
  BY <1>1, <1>4 DEF NextAttempt, Restarted, PackageInv, StagesSound, Commanding
<1> QED
  BY <1>2, <1>3, <1>5, <1>6, <1>7, <1>8 DEF PackageInv

LEMMA PackageNextKeeps ==
    ASSUME PackageInv, GroupOK, FilesOK, PackageNext
    PROVE  PackageInv' /\ GroupOK' /\ FilesOK'
<1>1. CASE Begin \/ Refuse \/ Published \/ PackagePut
  BY <1>1, BeginKeeps, RefuseKeeps, PackagePutKeeps
<1>2. CASE Execute \/ ExecuteFails \/ Supervise \/ WaitKilled \/ Join
  BY <1>2, ExecuteKeeps, ExecuteFailsKeeps, SuperviseKeeps, JoinKeeps
<1>3. CASE Installed \/ Opened \/ Uninstalled
  BY <1>3, InstalledKeeps, OpenedKeeps, UninstalledKeeps
<1>4. CASE Does \/ CommandEnds
  BY <1>4, DoesKeeps, CommandEndsKeeps
<1>5. CASE Again \/ PowerLoss
  BY <1>5, RestartKeeps
<1>6. CASE /\ phase \in {"supervise", "wait", "join"}
           /\ GroupNext
           /\ UNCHANGED <<packageVars, evidenceVars>>
  BY <1>6, GroupGoesOn
<1> QED
  BY <1>1, <1>2, <1>3, <1>4, <1>5, <1>6 DEF PackageNext

LEMMA PackageStarts == PackageInit /\ kind # "none" /\ NoEvidence => PackageInv
<1> SUFFICES ASSUME PackageInit, kind # "none", NoEvidence PROVE PackageInv
  OBVIOUS
<1>1. /\ << >> \in Seq(Commands) /\ outcome[1] = "none"
      /\ outcome \in [1 .. 3 -> {"none", "passed", "failed", "skipped"}]
  BY EmptySeq DEF PackageInit
<1>2. PackageTypeOK
  <2>1. stage \in 0 .. 3 /\ observed \subseteq {1, 2} /\ plan = << >>
    BY DEF PackageInit
  <2> QED
    BY <1>1, <2>1 DEF Commands, PackageInit, PackageTypeOK
<1>3. PackageEvidence
  BY FilesInit DEF PackageInit, PackageEvidence, Commanding
<1>4. PlanSound /\ CommandSound /\ StagesSound
  BY <1>1, SmokeAssumption
  DEF PackageInit, NoEvidence, PlanSound, CommandSound, StagesSound, Commanding
<1> QED
  BY <1>2, <1>3, <1>4 DEF PackageInv


-----------------------------------------------------------------------------
(* Proofs about both *)

LEMMA Initialised == Init => IInv
<1> SUFFICES ASSUME Init PROVE IInv
  OBVIOUS
<1>1. NativeInv
  BY NativeStarts DEF Init
<1>2. tool = "package" => PackageInv
  BY PackageStarts DEF Init
<1>3. GroupOK /\ FilesOK
  BY GroupInit, FilesInit DEF Init
<1>4. PackageTypeOK
  <2>1. /\ << >> \in Seq(Commands)
        /\ outcome \in [1 .. 3 -> {"none", "passed", "failed", "skipped"}]
    BY EmptySeq DEF Init, PackageInit
  <2>2. stage \in 0 .. 3 /\ observed \subseteq {1, 2} /\ plan = << >>
    BY DEF Init, PackageInit
  <2> QED
    BY <2>1, <2>2 DEF Init, Commands, PackageInit, PackageTypeOK
<1> QED
  BY <1>1, <1>2, <1>3, <1>4 DEF Init, IInv, NativeInv, PackageInv

LEMMA Kept == IInv /\ [Next]_vars => IInv'
<1> SUFFICES ASSUME IInv, [Next]_vars PROVE IInv'
  OBVIOUS
<1>1. GroupOK /\ FilesOK /\ NativeTypeOK /\ PackageTypeOK
      /\ (tool = "native" => NativeInv) /\ (tool = "package" => PackageInv)
  BY DEF IInv, NativeInv, PackageInv
<1>2. CASE tool = "native" /\ NativeNext /\ UNCHANGED <<tool, packageVars>>
  <2>1. NativeInv' /\ GroupOK' /\ FilesOK'
    BY <1>1, <1>2, NativeNextKeeps
  <2>2. PackageTypeOK' /\ tool' = "native"
    BY <1>1, <1>2 DEF packageVars, commandVars, machineVars, rowVars, PackageTypeOK
  <2> QED
    BY <2>1, <2>2 DEF IInv, NativeInv
<1>3. CASE tool = "package" /\ PackageNext /\ UNCHANGED <<tool, nativeVars>>
  <2>1. PackageInv' /\ GroupOK' /\ FilesOK'
    BY <1>1, <1>3, PackageNextKeeps
  <2>2. NativeTypeOK' /\ tool' = "package"
    BY <1>1, <1>3 DEF nativeVars, gateVars, NativeTypeOK
  <2> QED
    BY <2>1, <2>2 DEF IInv, PackageInv
<1>4. CASE UNCHANGED vars
  <2>1. /\ UNCHANGED <<tool, gate, sup, run, failure, binary, captured, ran, restored>>
        /\ UNCHANGED <<phase, commandVars, timedOut, machineVars, rowVars>>
        /\ UNCHANGED groupVars /\ UNCHANGED evidenceVars
        /\ UNCHANGED <<status, verdict>>
    BY <1>4 DEF vars, nativeVars, gateVars, packageVars, groupVars, processVars, evidenceVars
  <2>2. GroupOK' /\ FilesOK'
    BY <1>1, <2>1, GroupStutters, FilesStutter
  <2>3. NativeTypeOK' /\ PackageTypeOK'
    BY <1>1, <2>1 DEF commandVars, machineVars, rowVars, NativeTypeOK, PackageTypeOK
  <2>4. tool = "native" => NativeEvidence' /\ NativeRuns'
    BY <1>1, <2>1, EvidenceStutters DEF NativeInv, NativeRuns, RanCaptured
  <2>5. ASSUME tool = "package" PROVE PackageEvidence'
    BY <1>1, <2>1, <2>5
    DEF commandVars, evidenceVars, PackageInv, PackageEvidence, Commanding, Gathered, Gathering,
        Complete, OwnTo, Behind, Queued
  <2>6. ASSUME tool = "package" PROVE PlanSound' /\ CommandSound'
    BY <1>1, <2>1, <2>6
    DEF commandVars, machineVars, PackageInv, PlanSound, CommandSound, Commanding, Command
  <2>7. ASSUME tool = "package" PROVE StagesSound'
    BY <1>1, <2>1, <2>7
    DEF commandVars, machineVars, rowVars, PackageInv, StagesSound, Commanding
  <2> QED
    BY <2>1, <2>2, <2>3, <2>4, <2>5, <2>6, <2>7 DEF IInv
<1> QED
  BY <1>2, <1>3, <1>4 DEF Next

LEMMA Invariance == Spec => []IInv
  BY Initialised, Kept, PTL DEF Spec

(***************************************************************************)
(* Supervisor, group, files and both gates keep to their types, whatever   *)
(* the number of runs, pipes and attempts.                                 *)
(***************************************************************************)
THEOREM Typed == Spec => []TypeOK
<1>1. IInv => TypeOK
  BY DEF IInv, GroupOK, FilesOK, TypeOK
<1> QED
  BY <1>1, Invariance, PTL

LEMMA EndOfCleanup ==
    ASSUME IInv, [Next]_vars, gate = "cleans", gate' = "write", sup'.reaped
    PROVE  /\ \A p \in group : proc[p] = "gone" \/ (p = "leader" /\ proc[p] = "zombie")
           /\ reading = {}
<1>1. tool = "native" /\ NativeNext
  BY DEF Next, vars, nativeVars
<1>2. Clean
  BY <1>1 DEF NativeNext, Capture, Verify, Launch, LaunchFails, Poll, Written, Reported,
              NativePut, Rebuild, nativeVars
<1> DEFINE processes == IF proc["leader"] = "zombie" THEN Reaped ELSE proc
<1>3. processes["leader"] = "gone" /\ GroupGone(processes) /\ reading = {}
  BY <1>1, <1>2, CleanKeeps DEF IInv, NativeInv
<1>4. ASSUME NEW p \in group
      PROVE  proc[p] = "gone" \/ (p = "leader" /\ proc[p] = "zombie")
  <2>1. /\ p \in Process /\ proc[p] # "none" /\ processes[p] \in {"none", "gone"}
        /\ proc \in [Process -> {"none", "runs", "zombie", "gone"}]
    BY <1>3 DEF IInv, GroupOK, GroupSound, ProcessesTypeOK, GroupGone
  <2> QED
    BY <2>1 DEF Reaped, Process
<1> QED
  BY <1>3, <1>4

LEMMA AllKept ==
    ASSUME GroupOK, reading = {}, ~ exceeded, ~ unread
    PROVE  kept = written
<1>1. ASSUME NEW s \in Stream PROVE kept[s] = written[s]
  <2>1. /\ kept[s] \in Seq(Chunk) /\ written[s] \in Seq(Chunk)
        /\ Len(kept[s]) = Len(written[s])
        /\ \A i \in 1 .. Len(kept[s]) : kept[s][i] = written[s][i]
    BY DEF GroupOK, GroupSound, ProcessesTypeOK, ReaderDone, KeptIsRead
  <2> QED
    BY <2>1, SeqEqual
<1> QED
  BY <1>1 DEF GroupOK, ProcessesTypeOK

(***************************************************************************)
(* Where cleanup_group reports the group reaped it is gone, nobody can     *)
(* write to its pipes, and all that was written has been retained, unless  *)
(* a limit or a reader's error is reported.                                *)
(***************************************************************************)
THEOREM ReapedIsGone == Spec => ReapedMeansGone
<1> DEFINE Gone ==
       gate = "cleans" /\ gate' = "write" /\ sup'.reaped
         => /\ \A p \in group : proc[p] = "gone" \/ (p = "leader" /\ proc[p] = "zombie")
            /\ unread \/ \A s \in Stream : holders[s] = {}
            /\ exceeded \/ unread \/ kept = written
<1>1. IInv /\ [Next]_vars => [Gone]_vars
  <2> SUFFICES ASSUME IInv, [Next]_vars, gate = "cleans", gate' = "write", sup'.reaped
               PROVE  /\ \A p \in group : proc[p] = "gone" \/ (p = "leader" /\ proc[p] = "zombie")
                      /\ unread \/ \A s \in Stream : holders[s] = {}
                      /\ exceeded \/ unread \/ kept = written
    OBVIOUS
  <2>1. /\ \A p \in group : proc[p] = "gone" \/ (p = "leader" /\ proc[p] = "zombie")
        /\ reading = {} /\ GroupOK
    BY EndOfCleanup DEF IInv
  <2>2. unread \/ \A s \in Stream : holders[s] = {}
    BY <2>1 DEF GroupOK, GroupSound, ReaderDone
  <2>3. exceeded \/ unread \/ kept = written
    BY <2>1, AllKept
  <2> QED
    BY <2>1, <2>2, <2>3
<1> QED
  BY <1>1, Invariance, PTL DEF Spec, ReapedMeansGone

(***************************************************************************)
(* A passed report is about the executable it names (run_gate, run_smoke). *)
(***************************************************************************)
THEOREM PassedReportsAreTrue == Spec => []PassedIsTrue
<1>1. IInv => PassedIsTrue
  <2> SUFFICES ASSUME IInv, verdict = "passed" PROVE PassedIsTrue
    BY DEF PassedIsTrue
  <2>1. CASE tool = "native"
    BY <2>1 DEF IInv, NativeRuns, RanCaptured, PassedIsTrue
  <2>2. CASE tool = "package"
    BY <2>2 DEF IInv, StagesSound, PackageTypeOK, Finding, Residue, BinaryExists, PassedIsTrue
  <2> QED
    BY <2>1, <2>2 DEF IInv
<1> QED
  BY <1>1, Invariance, PTL

(***************************************************************************)
(* A receipt that is found has all the evidence it names, of the attempt   *)
(* it is about (write_file, write_create_only).                            *)
(***************************************************************************)
THEOREM EvidenceBelongs == Spec => []EvidenceIsOwn
<1>1. IInv => EvidenceIsOwn
  <2> SUFFICES ASSUME IInv PROVE EvidenceIsOwn
    OBVIOUS
  <2>1. CASE tool = "native"
    BY <2>1 DEF IInv, NativeEvidence, OwnTo, EvidenceIsOwn, Named
  <2>2. CASE tool = "package"
    BY <2>2 DEF IInv, PackageEvidence, OwnTo, EvidenceIsOwn, Named
  <2> QED
    BY <2>1, <2>2 DEF IInv
<1> QED
  BY <1>1, Invariance, PTL
===============================================================================
