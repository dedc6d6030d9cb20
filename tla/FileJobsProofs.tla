--------------------------- MODULE FileJobsProofs ---------------------------
(***************************************************************************)
(* Proofs about the jobs on one audio file, for every budget, every number *)
(* of jobs and whatever the host does to the file: what is sent is one     *)
(* version, what is removed was checked, and the destination of a download *)
(* is never part of one. The modification time of the open file is the     *)
(* fence: as long as it is the one taken at the open, every block read is  *)
(* of the content that was opened.                                         *)
(***************************************************************************)
EXTENDS FileJobs, SequenceTheorems, TLAPS

\* What a whole request and a fstat are.
USE FileAssumption DEF WholeFile, Stat

\* Jobs that read a file the host owns.
Source == {"read", "upload", "inspect", "delete"}

\* Types, as weak as the argument needs them; inodes beyond the fresh one are unused and
\* no file is newer than the host's last act.
FileTyped ==
  /\ inodes \in [Inodes -> [data : Seq(Blocks), mtime : Nat, whole : BOOLEAN]]
  /\ \A i \in Inodes : inodes[i].mtime <= writes
  /\ writes \in 0..MaxWrites /\ fileJobs \in 0..MaxFileJobs
  /\ fresh \in Nat \ {0} /\ fresh <= 2 + writes + fileJobs
  /\ audio \in Inodes \cup {NoFile} /\ (audio # NoFile => audio < fresh)
  /\ fd \in Inodes \cup {NoFile} /\ (fd # NoFile => fd < fresh)
  /\ got \in Seq(Blocks) /\ opened \in Seq(Blocks) /\ expected \in Seq(Blocks)
  /\ range \in Ranges \cup {WholeFile}
  /\ touched \in BOOLEAN /\ replaced \in BOOLEAN

\* The steps of each kind of job; a running job has no result.
FileSteps ==
  /\ filePc \in {"idle", "send", "report", "drop", "hash", "stat", "unlink", "download"}
  /\ filePc = "send" => fileKind \in {"read", "upload"}
  /\ filePc = "hash" => fileKind \in {"inspect", "delete"}
  /\ filePc \in {"stat", "unlink"} => fileKind = "delete"
  /\ filePc = "report" => fileKind \in {"read", "upload", "delete", "sync"}
  /\ filePc = "drop" => fileKind = "upload"
  /\ filePc = "download" => fileKind = "sync"
  /\ filePc # "idle" => fileResult = "none"
  /\ fileKind = "upload" => range = WholeFile

\* The open file is the one that was opened as long as its time is the same.
SourceOpen ==
  filePc # "idle" /\ fileKind \in Source =>
    /\ fd # NoFile
    /\ before = [ino |-> fd, size |-> Len(opened), mtime |-> before.mtime]
    /\ before.mtime \in Nat /\ before.mtime <= inodes[fd].mtime
    /\ inodes[fd].mtime = before.mtime => inodes[fd].data = opened

\* What was read so far is of the version that was opened.
ReadSoFar ==
  /\ filePc = "send" =>
       /\ ByteRange(range, Len(opened)) # NoFile
       /\ Len(got) <= Budgeted(range).length
       /\ inodes[fd].mtime = before.mtime =>
            \A n \in 1..Len(got) : got[n] = opened[Budgeted(range).start + n]
  /\ filePc = "hash" /\ inodes[fd].mtime = before.mtime =>
       /\ Len(got) <= Len(opened)
       /\ \A n \in 1..Len(got) : got[n] = opened[n]
  /\ (filePc \in {"report", "drop"} \/ fileResult = "done") /\ fileKind \in {"read", "upload"} =>
       got = Slice(opened, ByteRange(range, Len(opened)))
  /\ (filePc \in {"stat", "unlink", "report"} \/ fileResult = "done")
       /\ fileKind \in {"inspect", "delete"} =>
       opened = expected

\* What is about to be removed, or was, is what was checked.
RemovalChecked ==
  /\ filePc \in {"send", "hash", "stat", "unlink", "drop"} => removed = NoFile
  /\ filePc = "report" /\ fileKind = "upload" => removed = NoFile
  /\ filePc \in {"send", "report", "drop"} /\ fileKind = "upload" /\ ~replaced =>
       audio \in {fd, NoFile}
  /\ filePc \in {"report", "drop"} /\ fileKind = "upload" /\ ~touched => inodes[fd].data = got
  /\ filePc = "unlink" /\ ~touched /\ audio # NoFile => inodes[audio].data = expected
  /\ RemovedWasChecked

\* A download has a file of its own.
DownloadApart ==
  /\ filePc = "download" =>
       fd # audio /\ inodes[fd].whole = (got = expected)
  /\ fileKind = "sync" => fd # NoFile
  /\ DestinationPreserved

FileInv == FileTyped /\ FileSteps /\ SourceOpen /\ ReadSoFar /\ RemovalChecked /\ DownloadApart

\* Facts about ranges and sequences.
LEMMA ByteRangeBounds ==
  ASSUME NEW r \in Ranges \cup {WholeFile}, NEW size \in Nat,
         ByteRange(r, size) # NoFile
  PROVE  /\ ByteRange(r, size) \in [start : Nat, length : Nat]
         /\ ByteRange(r, size).start + ByteRange(r, size).length <= size
<1>1. CASE r = WholeFile
  BY <1>1 DEF ByteRange
<1>2. CASE r # WholeFile
  <2> DEFINE start == IF r.first # NoFile THEN r.first
                      ELSE IF r.last >= size THEN 0 ELSE size - r.last
             end == IF r.first = NoFile \/ r.last = NoFile THEN size - 1
                    ELSE Min({r.last, size - 1})
  <2>1. r.first \in Nat \cup {NoFile} /\ r.last \in Nat \cup {NoFile}
    BY <1>2 DEF Ranges, Bounds
  <2>2. /\ ~(size = 0 \/ (r.first = NoFile /\ r.last \in {NoFile, 0}))
        /\ ~(start >= size \/ end < start)
        /\ ByteRange(r, size) = [start |-> start, length |-> end - start + 1]
    BY <1>2 DEF ByteRange
  <2>3. start \in Nat
    BY <2>1, <2>2
  <2>4. end \in Int /\ end <= size - 1
    <3>1. \A a, b \in Int : Min({a, b}) \in {a, b} /\ Min({a, b}) <= b
      BY DEF Min
    <3>2. CASE r.first = NoFile \/ r.last = NoFile
      BY <3>2
    <3>3. CASE r.first # NoFile /\ r.last # NoFile
      BY <2>1, <3>1, <3>3
    <3> QED
      BY <3>2, <3>3
  <2> QED
    BY <2>2, <2>3, <2>4
<1> QED
  BY <1>1, <1>2

\* A sequence that agrees with a slice is the slice.
LEMMA SliceEqual ==
  ASSUME NEW c \in Seq(Blocks), NEW g \in Seq(Blocks),
         NEW b \in [start : Nat, length : Nat], b.start + b.length <= Len(c),
         Len(g) = b.length,
         \A n \in 1..Len(g) : g[n] = c[b.start + n]
  PROVE  g = Slice(c, b)
<1> DEFINE s == SubSeq(c, b.start + 1, b.start + b.length)
<1>1. b.start \in Nat /\ b.length \in Nat /\ Len(c) \in Nat
  OBVIOUS
<1>2. /\ s \in Seq(Blocks) /\ Len(s) = b.length
      /\ \A n \in 1..b.length : s[n] = c[b.start + n]
  BY <1>1, SubSeqProperties
<1>3. g = s
  <2>1. Len(g) = Len(s) /\ \A n \in 1..Len(g) : g[n] = s[n]
    BY <1>1, <1>2
  <2> HIDE DEF s
  <2> QED
    BY <1>2, <2>1, SeqEqual
<1> QED
  BY <1>3 DEF Slice

\* A content is a sequence of blocks.
LEMMA ContentsAreSequences == Contents \subseteq Seq(Blocks)
BY DEF Contents

\* A failure or a stop leaves no result, or a failed one.
LEMMA FileEndsInv ==
  ASSUME FileInv, FileFails \/ FileStop
  PROVE  FileInv'
<1>1. FileTyped'
  BY DEF FileInv, FileTyped, FileFails, FileStop, FileEnd
<1>2. FileSteps'
  BY DEF FileInv, FileTyped, FileSteps, FileFails, FileStop, FileEnd
<1>3. SourceOpen'
  BY DEF FileInv, FileTyped, FileSteps, SourceOpen, FileFails, FileStop, FileEnd
<1>4. ReadSoFar'
  BY DEF FileInv, FileTyped, FileSteps, ReadSoFar, FileFails, FileStop, FileEnd
<1>5. RemovalChecked'
  BY DEF FileInv, FileTyped, FileSteps, RemovalChecked, RemovedWasChecked, FileFails, FileStop, FileEnd
<1>6. DownloadApart'
  BY DEF FileInv, FileTyped, FileSteps, DownloadApart, DestinationPreserved, FileFails, FileStop, FileEnd
<1> QED
  BY <1>1, <1>2, <1>3, <1>4, <1>5, <1>6 DEF FileInv

\* A job opens a file, or has none.
LEMMA StartFileJobInv ==
  ASSUME FileInv, NEW k \in Source, NEW r \in Ranges \cup {WholeFile}, NEW c \in Seq(Blocks),
         StartFileJob(k, r, c), k = "upload" => r = WholeFile
  PROVE  FileInv'
<1>0. /\ c \in Seq(Blocks) /\ <<>> \in Seq(Blocks) /\ Len(<<>>) = 0
      /\ audio # NoFile =>
           /\ inodes[audio].data \in Seq(Blocks) /\ inodes[audio].mtime \in Nat
           /\ Len(inodes[audio].data) \in Nat
  BY EmptySeq, LenProperties DEF FileInv, FileTyped
<1>1. FileTyped'
  <2>1. opened' \in {inodes[audio].data, <<>>} /\ fd' \in {audio, NoFile}
        /\ (audio = NoFile => opened' = <<>>)
    BY DEF StartFileJob
  <2>2. opened' \in Seq(Blocks) /\ got' \in Seq(Blocks) /\ expected' \in Seq(Blocks)
    BY <1>0, <2>1 DEF StartFileJob
  <2>3. /\ UNCHANGED <<inodes, audio, fresh, writes>> /\ fileJobs' = fileJobs + 1
        /\ fileJobs < MaxFileJobs /\ range' = r /\ touched' = FALSE /\ replaced' = FALSE
    BY DEF StartFileJob
  <2>4. /\ fileJobs' \in 0..MaxFileJobs /\ fresh' <= 2 + writes' + fileJobs'
    BY <2>3 DEF FileInv, FileTyped
  <2>5. /\ fd' \in Inodes \cup {NoFile} /\ (fd' # NoFile => fd' < fresh')
    BY <2>1, <2>3 DEF FileInv, FileTyped
  <2>6. touched' \in BOOLEAN /\ replaced' \in BOOLEAN
    BY <2>3
  <2>7. /\ inodes' \in [Inodes -> [data : Seq(Blocks), mtime : Nat, whole : BOOLEAN]]
        /\ \A i \in Inodes : inodes'[i].mtime <= writes'
    BY <2>3 DEF FileInv, FileTyped
  <2>8. writes' \in 0..MaxWrites /\ fresh' \in Nat \ {0} /\ audio' \in Inodes \cup {NoFile}
        /\ (audio' # NoFile => audio' < fresh') /\ range' \in Ranges \cup {WholeFile}
    BY <2>3 DEF FileInv, FileTyped
  <2> QED
    BY <2>2, <2>4, <2>5, <2>6, <2>7, <2>8 DEF FileTyped
<1>2. FileSteps'
  <2>1. filePc' \in {"idle", "hash", "send"} /\ fileKind' = k /\ range' = r
    BY DEF StartFileJob, FileEnd
  <2>2. filePc' = "send" => k \in {"read", "upload"}
    BY DEF StartFileJob, FileEnd, Source
  <2>3. filePc' = "hash" => k \in {"inspect", "delete"}
    BY DEF StartFileJob, FileEnd
  <2>4. filePc' # "idle" => fileResult' = "none"
    BY DEF StartFileJob, FileEnd
  <2> QED
    BY <2>1, <2>2, <2>3, <2>4 DEF FileSteps
<1>3. SourceOpen'
  BY SMTT(30) DEF FileInv, FileTyped, FileSteps, SourceOpen, StartFileJob, FileEnd
<1>4. ReadSoFar'
  <2>1. filePc' \in {"idle", "hash", "send"} /\ fileResult' # "done" /\ got' = <<>>
    BY DEF StartFileJob, FileEnd
  <2>2. ASSUME filePc' = "send"
        PROVE  /\ ByteRange(range', Len(opened')) # NoFile
               /\ 0 <= Budgeted(range)'.length
    <3>1. /\ range' = r /\ before'.size = Len(opened') /\ Len(opened') \in Nat
          /\ k \in {"read", "upload"} /\ (k = "read" => ByteRange(r, before'.size) # NoFile)
      BY <1>0, <2>2 DEF StartFileJob, FileEnd, Source
    <3>2. ByteRange(range', Len(opened')) # NoFile
      <4>1. ByteRange(WholeFile, Len(opened')) = [start |-> 0, length |-> Len(opened')]
        BY DEF ByteRange
      <4>2. [start |-> 0, length |-> Len(opened')] \in [start : Nat, length : Nat]
        BY <3>1
      <4>3. ByteRange(WholeFile, Len(opened')) # NoFile
        BY <4>1, <4>2
      <4> QED
        BY <3>1, <4>3
    <3>3. Budgeted(range)' = ByteRange(range', Len(opened'))
      BY <3>1, <3>2 DEF Budgeted
    <3>4. range' \in Ranges \cup {WholeFile}
      BY <3>1
    <3>5. ByteRange(range', Len(opened')) \in [start : Nat, length : Nat]
      BY <3>1, <3>2, <3>4, ByteRangeBounds
    <3> QED
      BY <3>2, <3>3, <3>5
  <2> QED
    BY <1>0, <2>1, <2>2 DEF ReadSoFar
<1>5. RemovalChecked'
  BY DEF FileInv, FileTyped, FileSteps, RemovalChecked, RemovedWasChecked, StartFileJob, FileEnd
<1>6. DownloadApart'
  <2>1. /\ filePc' # "download" /\ fileKind' # "sync" /\ UNCHANGED <<audio, inodes>>
    BY DEF StartFileJob, FileEnd, Source
  <2> QED
    BY <2>1 DEF FileInv, DownloadApart, DestinationPreserved
<1> QED
  BY <1>1, <1>2, <1>3, <1>4, <1>5, <1>6 DEF FileInv

\* What a sender has: a part of the version it opened.
LEMMA SendFacts ==
  ASSUME FileInv, filePc = "send"
  PROVE  /\ fileKind \in {"read", "upload"} /\ (fileKind = "upload" => range = WholeFile)
         /\ fd \in Inodes /\ inodes[fd].data \in Seq(Blocks)
         /\ opened \in Seq(Blocks) /\ got \in Seq(Blocks) /\ range \in Ranges \cup {WholeFile}
         /\ before.size = Len(opened) /\ ByteRange(range, Len(opened)) # NoFile
<1>1. fileKind \in {"read", "upload"} /\ (fileKind = "upload" => range = WholeFile)
  BY DEF FileInv, FileSteps
<1>2. fd # NoFile /\ before = [ino |-> fd, size |-> Len(opened), mtime |-> before.mtime]
  BY <1>1 DEF FileInv, SourceOpen, Source
<1>3. /\ fd \in Inodes /\ opened \in Seq(Blocks) /\ got \in Seq(Blocks)
      /\ range \in Ranges \cup {WholeFile} /\ inodes[fd].data \in Seq(Blocks)
  BY <1>2 DEF FileInv, FileTyped
<1>4. ByteRange(range, Len(opened)) # NoFile
  BY DEF FileInv, ReadSoFar
<1> QED
  BY <1>1, <1>2, <1>3, <1>4

\* A block is of the open file.
LEMMA SendBlockInv ==
  ASSUME FileInv, SendBlock
  PROVE  FileInv'
<1>0. /\ fd \in Inodes /\ inodes[fd].data \in Seq(Blocks) /\ Len(inodes[fd].data) \in Nat
      /\ got \in Seq(Blocks) /\ Len(got) \in Nat
      /\ Len(opened) \in Nat /\ before.size = Len(opened)
      /\ Budgeted(range) = ByteRange(range, Len(opened))
      /\ Budgeted(range) \in [start : Nat, length : Nat]
      /\ Budgeted(range).start + Budgeted(range).length <= Len(opened)
  <2>1. /\ fd \in Inodes /\ before.size = Len(opened) /\ got \in Seq(Blocks)
        /\ opened \in Seq(Blocks) /\ inodes[fd].data \in Seq(Blocks)
        /\ ByteRange(range, Len(opened)) # NoFile /\ range \in Ranges \cup {WholeFile}
    BY SendFacts DEF SendBlock
  <2> QED
    BY <2>1, LenProperties, ByteRangeBounds DEF Budgeted
<1> DEFINE at == Budgeted(range).start + Len(got) + 1
<1>b. \/ /\ at <= Len(inodes[fd].data) /\ Len(got) < Budgeted(range).length
         /\ got' = Append(got, inodes[fd].data[at]) /\ got' \in Seq(Blocks)
         /\ Len(got') = Len(got) + 1 /\ got'[Len(got')] = inodes[fd].data[at]
         /\ \A n \in 1..Len(got) : got'[n] = got[n]
         /\ UNCHANGED <<filePc, fileResult>>
      \/ got' = got /\ filePc' = "idle" /\ fileResult' = "failed"
  <2>1. CASE at > Len(inodes[fd].data)
    BY <2>1 DEF SendBlock, FileEnd
  <2>2. CASE ~(at > Len(inodes[fd].data))
    <3>1. at \in 1..Len(inodes[fd].data)
      BY <1>0, <2>2
    <3>2. inodes[fd].data[at] \in Blocks
      BY <1>0, <3>1, ElementOfSeq
    <3>3. /\ Len(got) < Budgeted(range).length
          /\ got' = Append(got, inodes[fd].data[at]) /\ UNCHANGED <<filePc, fileResult>>
      BY <2>2 DEF SendBlock
    <3> HIDE DEF at
    <3>4. /\ got' \in Seq(Blocks) /\ Len(got') = Len(got) + 1
          /\ got'[Len(got) + 1] = inodes[fd].data[at]
          /\ \A n \in 1..Len(got) : got'[n] = got[n]
      BY <1>0, <3>2, <3>3, AppendProperties
    <3> QED
      BY <3>1, <3>3, <3>4
  <2> QED
    BY <2>1, <2>2
<1>1. FileTyped'
  <2>1. got' \in Seq(Blocks)
    BY <1>0, <1>b
  <2> QED
    BY <2>1 DEF FileInv, FileTyped, SendBlock
<1>2. FileSteps'
  BY DEF FileInv, FileTyped, FileSteps, SendBlock, FileEnd
<1>3. SourceOpen'
  BY DEF FileInv, FileTyped, FileSteps, SourceOpen, SendBlock, FileEnd
<1>4. ReadSoFar'
  <2>1. UNCHANGED <<inodes, fd, before, range, opened>> /\ Budgeted(range)' = Budgeted(range)
    BY DEF SendBlock, Budgeted
  <2>2. CASE filePc' = "idle" /\ fileResult' = "failed"
    BY <2>2 DEF ReadSoFar
  <2>3. CASE UNCHANGED <<filePc, fileResult>> /\ Len(got') = Len(got) + 1
    <3>1. /\ Len(got') <= Budgeted(range).length
          /\ at <= Len(inodes[fd].data) /\ got'[Len(got')] = inodes[fd].data[at]
          /\ \A n \in 1..Len(got) : got'[n] = got[n]
      BY <1>0, <1>b, <2>3
    <3>2. ASSUME inodes[fd].mtime = before.mtime, NEW n \in 1..Len(got')
          PROVE  got'[n] = opened[Budgeted(range).start + n]
      <4>1. inodes[fd].data = opened
        BY <3>2 DEF FileInv, FileSteps, SourceOpen, SendBlock, Source
      <4>2. CASE n = Len(got')
        BY <1>0, <2>3, <3>1, <4>1, <4>2
      <4>3. CASE n \in 1..Len(got)
        BY <3>1, <3>2, <4>3 DEF FileInv, ReadSoFar, SendBlock
      <4> QED
        BY <1>0, <2>3, <4>2, <4>3
    <3>3. filePc = "send" /\ fileResult = "none" /\ ByteRange(range, Len(opened)) # NoFile
      BY DEF FileInv, FileSteps, ReadSoFar, SendBlock
    <3> QED
      BY <2>1, <2>3, <3>1, <3>2, <3>3 DEF ReadSoFar
  <2> QED
    BY <1>0, <1>b, <2>2, <2>3
<1>5. RemovalChecked'
  BY DEF FileInv, FileTyped, FileSteps, RemovalChecked, RemovedWasChecked, SendBlock, FileEnd
<1>6. DownloadApart'
  BY DEF FileInv, FileTyped, FileSteps, DownloadApart, DestinationPreserved, SendBlock, FileEnd
<1> QED
  BY <1>1, <1>2, <1>3, <1>4, <1>5, <1>6 DEF FileInv

\* What was sent is the version that was opened.
LEMMA CheckSentInv ==
  ASSUME FileInv, CheckSent
  PROVE  FileInv'
<1>a. /\ filePc = "send" /\ fileKind \in {"read", "upload"} /\ fd \in Inodes
      /\ opened \in Seq(Blocks) /\ got \in Seq(Blocks) /\ range \in Ranges \cup {WholeFile}
      /\ Len(opened) \in Nat /\ ByteRange(range, Len(opened)) # NoFile
      /\ Len(got) = ByteRange(range, Len(opened)).length
      /\ fileKind = "upload" => range = WholeFile
  <2>1. /\ filePc = "send" /\ fileKind \in {"read", "upload"} /\ fd \in Inodes
        /\ opened \in Seq(Blocks) /\ got \in Seq(Blocks) /\ range \in Ranges \cup {WholeFile}
        /\ before.size = Len(opened) /\ ByteRange(range, Len(opened)) # NoFile
        /\ Len(got) = Budgeted(range).length /\ (fileKind = "upload" => range = WholeFile)
    BY SendFacts DEF CheckSent
  <2> QED
    BY <2>1, LenProperties DEF Budgeted
<1>b. ASSUME filePc' = "report"
      PROVE  inodes[fd].data = opened /\ got = Slice(opened, ByteRange(range, Len(opened)))
  <2> DEFINE b == ByteRange(range, Len(opened))
  <2>1. inodes[fd].mtime = before.mtime
    BY <1>b DEF CheckSent, FileEnd
  <2>2. inodes[fd].data = opened
    BY <1>a, <2>1 DEF FileInv, SourceOpen, Source
  <2>3. Budgeted(range) = b
    BY <1>a DEF FileInv, SourceOpen, Source, Budgeted
  <2>4. \A n \in 1..Len(got) : got[n] = opened[b.start + n]
    BY <1>a, <2>1, <2>3 DEF FileInv, ReadSoFar
  <2>5. b \in [start : Nat, length : Nat] /\ b.start + b.length <= Len(opened)
    BY <1>a, ByteRangeBounds
  <2> HIDE DEF b
  <2>6. Len(got) = b.length
    BY <1>a DEF b
  <2>7. got = Slice(opened, b)
    BY <1>a, <2>4, <2>5, <2>6, SliceEqual
  <2> QED
    BY <2>2, <2>7 DEF b
<1>c. /\ filePc' \in {"report", "idle"} /\ (filePc' = "idle" => fileResult' = "failed")
      /\ filePc' = "report" => fileResult' = fileResult
      /\ UNCHANGED <<inodes, audio, range, fd, opened, got, fileKind, expected, removed, replaced>>
  BY DEF CheckSent, FileEnd
<1>1. FileTyped'
  BY DEF FileInv, FileTyped, CheckSent, FileEnd
<1>2. FileSteps'
  BY DEF FileInv, FileTyped, FileSteps, CheckSent, FileEnd
<1>3. SourceOpen'
  BY DEF FileInv, FileTyped, FileSteps, SourceOpen, CheckSent, FileEnd
<1>4. ReadSoFar'
  BY <1>a, <1>b, <1>c DEF ReadSoFar
<1>5. RemovalChecked'
  <2>1. fileKind = "upload" /\ filePc' = "report" => inodes[fd].data = got
    <3>1. fileKind = "upload" => Slice(opened, ByteRange(range, Len(opened))) = opened
      BY <1>a, SubSeqFull DEF Slice, ByteRange
    <3> QED
      BY <1>b, <3>1
  <2>2. removed = NoFile /\ (fileKind = "upload" /\ ~replaced => audio \in {fd, NoFile})
    BY <1>a DEF FileInv, RemovalChecked
  <2> QED
    BY <1>a, <1>c, <2>1, <2>2 DEF RemovalChecked, RemovedWasChecked
<1>6. DownloadApart'
  BY DEF FileInv, FileTyped, FileSteps, DownloadApart, DestinationPreserved, CheckSent, FileEnd
<1> QED
  BY <1>1, <1>2, <1>3, <1>4, <1>5, <1>6 DEF FileInv

\* The report and the removal of an upload.
LEMMA FileReportedInv ==
  ASSUME FileInv, FileReported
  PROVE  FileInv'
<1>1. FileTyped'
  BY DEF FileInv, FileTyped, FileReported, FileEnd
<1>2. FileSteps'
  BY DEF FileInv, FileTyped, FileSteps, FileReported, FileEnd
<1>3. SourceOpen'
  BY DEF FileInv, FileTyped, FileSteps, SourceOpen, FileReported, FileEnd
<1>4. ReadSoFar'
  BY DEF FileInv, FileTyped, FileSteps, ReadSoFar, FileReported, FileEnd
<1>5. RemovalChecked'
  BY DEF FileInv, FileTyped, FileSteps, RemovalChecked, RemovedWasChecked, FileReported, FileEnd
<1>6. DownloadApart'
  BY DEF FileInv, FileTyped, FileSteps, DownloadApart, DestinationPreserved, FileReported, FileEnd
<1> QED
  BY <1>1, <1>2, <1>3, <1>4, <1>5, <1>6 DEF FileInv

\* An upload removes what it sent.
LEMMA DropRecordingInv ==
  ASSUME FileInv, DropRecording
  PROVE  FileInv'
<1>1. FileTyped'
  BY DEF FileInv, FileTyped, DropRecording, FileEnd
<1>2. FileSteps'
  BY DEF FileInv, FileTyped, FileSteps, DropRecording, FileEnd
<1>3. SourceOpen'
  BY DEF FileInv, FileTyped, FileSteps, SourceOpen, DropRecording, FileEnd
<1>4. ReadSoFar'
  BY DEF FileInv, FileTyped, FileSteps, ReadSoFar, DropRecording, FileEnd
<1>5. RemovalChecked'
  BY DEF FileInv, FileTyped, FileSteps, RemovalChecked, RemovedWasChecked, DropRecording, FileEnd
<1>6. DownloadApart'
  BY DEF FileInv, FileTyped, FileSteps, DownloadApart, DestinationPreserved, DropRecording, FileEnd
<1> QED
  BY <1>1, <1>2, <1>3, <1>4, <1>5, <1>6 DEF FileInv

\* A block is of the open file.
LEMMA HashBlockInv ==
  ASSUME FileInv, HashBlock
  PROVE  FileInv'
<1>a. /\ filePc = "hash" /\ fd \in Inodes /\ inodes[fd].data \in Seq(Blocks) /\ got \in Seq(Blocks)
      /\ opened \in Seq(Blocks) /\ Len(got) < Len(inodes[fd].data)
      /\ got' = Append(got, inodes[fd].data[Len(got) + 1])
      /\ UNCHANGED <<inodes, fd, before, opened, filePc, fileKind, fileResult, expected>>
  BY DEF FileInv, FileTyped, FileSteps, SourceOpen, Source, HashBlock
<1>b. Len(got) \in Nat /\ Len(inodes[fd].data) \in Nat /\ Len(opened) \in Nat
  BY <1>a, LenProperties
<1>c. inodes[fd].data[Len(got) + 1] \in Blocks
  BY <1>a, <1>b, ElementOfSeq
<1>d. /\ got' \in Seq(Blocks) /\ Len(got') = Len(got) + 1
      /\ got'[Len(got) + 1] = inodes[fd].data[Len(got) + 1]
      /\ \A n \in 1..Len(got) : got'[n] = got[n]
  BY <1>a, <1>c, AppendProperties
<1>1. FileTyped'
  BY <1>d DEF FileInv, FileTyped, HashBlock
<1>2. FileSteps'
  BY DEF FileInv, FileTyped, FileSteps, HashBlock, FileEnd
<1>3. SourceOpen'
  BY DEF FileInv, FileTyped, FileSteps, SourceOpen, HashBlock, FileEnd
<1>4. ReadSoFar'
  <2>1. ASSUME inodes[fd].mtime = before.mtime
        PROVE  /\ Len(got') <= Len(opened)
               /\ \A n \in 1..Len(got') : got'[n] = opened[n]
    <3>1. inodes[fd].data = opened /\ \A n \in 1..Len(got) : got[n] = opened[n]
      BY <1>a, <2>1 DEF FileInv, FileSteps, SourceOpen, ReadSoFar, Source
    <3> QED
      BY <1>a, <1>b, <1>d, <3>1
  <2>2. fileResult = "none"
    BY <1>a DEF FileInv, FileSteps
  <2> QED
    BY <1>a, <2>1, <2>2 DEF ReadSoFar
<1>5. RemovalChecked'
  BY DEF FileInv, FileTyped, FileSteps, RemovalChecked, RemovedWasChecked, HashBlock, FileEnd
<1>6. DownloadApart'
  BY DEF FileInv, FileTyped, FileSteps, DownloadApart, DestinationPreserved, HashBlock, FileEnd
<1> QED
  BY <1>1, <1>2, <1>3, <1>4, <1>5, <1>6 DEF FileInv

\* The digest is of the version that was opened.
LEMMA CheckDigestInv ==
  ASSUME FileInv, CheckDigest
  PROVE  FileInv'
<1>1. FileTyped'
  BY DEF FileInv, FileTyped, CheckDigest, FileEnd
<1>2. FileSteps'
  BY DEF FileInv, FileTyped, FileSteps, CheckDigest, FileEnd
<1>3. SourceOpen'
  BY DEF FileInv, FileTyped, FileSteps, SourceOpen, CheckDigest, FileEnd
<1>4. ReadSoFar'
  <2>1. /\ filePc' \in {"stat", "idle"} /\ filePc = "hash" /\ fileKind \in {"inspect", "delete"}
        /\ UNCHANGED <<inodes, range, fd, opened, got, fileKind, expected>>
        /\ got \in Seq(Blocks) /\ opened \in Seq(Blocks) /\ fd \in Inodes
        /\ filePc' = "stat" \/ fileResult' = "done" =>
             got = expected /\ inodes[fd].mtime = before.mtime /\ inodes[fd].data = opened
    BY SMTT(30) DEF FileInv, FileTyped, FileSteps, SourceOpen, Source, CheckDigest, FileEnd
  <2>2. ASSUME filePc' = "stat" \/ fileResult' = "done" PROVE opened = expected
    <3>1. /\ got = expected /\ Len(got) <= Len(opened) /\ Len(opened) <= Len(got)
          /\ \A n \in 1..Len(got) : got[n] = opened[n]
      BY <2>1, <2>2 DEF FileInv, ReadSoFar, CheckDigest
    <3>2. Len(got) \in Nat /\ Len(opened) \in Nat
      BY <2>1, LenProperties
    <3>3. Len(got) = Len(opened)
      BY <3>1, <3>2
    <3> QED
      BY <2>1, <3>1, <3>3, SeqEqual
  <2> QED
    BY <2>1, <2>2 DEF ReadSoFar
<1>5. RemovalChecked'
  BY DEF FileInv, FileTyped, FileSteps, RemovalChecked, RemovedWasChecked, CheckDigest, FileEnd
<1>6. DownloadApart'
  BY DEF FileInv, FileTyped, FileSteps, DownloadApart, DestinationPreserved, CheckDigest, FileEnd
<1> QED
  BY <1>1, <1>2, <1>3, <1>4, <1>5, <1>6 DEF FileInv

\* The path names the checked file.
LEMMA StatNameInv ==
  ASSUME FileInv, StatName
  PROVE  FileInv'
<1>1. FileTyped'
  BY DEF FileInv, FileTyped, StatName, FileEnd
<1>2. FileSteps'
  BY DEF FileInv, FileTyped, FileSteps, StatName, FileEnd
<1>3. SourceOpen'
  BY DEF FileInv, FileTyped, FileSteps, SourceOpen, StatName, FileEnd
<1>4. ReadSoFar'
  BY DEF FileInv, FileTyped, FileSteps, ReadSoFar, StatName, FileEnd
<1>5. RemovalChecked'
  <2>1. /\ filePc' \in {"unlink", "idle"} /\ fileKind = "delete" /\ removed = NoFile
        /\ UNCHANGED <<inodes, audio, fd, removed, fileKind, expected>>
    BY DEF FileInv, FileSteps, RemovalChecked, StatName, FileEnd
  <2>2. ASSUME filePc' = "unlink" PROVE inodes[audio].data = expected
    <3>1. audio = fd /\ inodes[fd].mtime = before.mtime
      BY <2>1, <2>2 DEF FileInv, SourceOpen, Source, StatName, FileEnd
    <3> QED
      BY <2>1, <3>1 DEF FileInv, SourceOpen, ReadSoFar, Source, StatName
  <2> QED
    BY <2>1, <2>2 DEF RemovalChecked, RemovedWasChecked
<1>6. DownloadApart'
  BY DEF FileInv, FileTyped, FileSteps, DownloadApart, DestinationPreserved, StatName, FileEnd
<1> QED
  BY <1>1, <1>2, <1>3, <1>4, <1>5, <1>6 DEF FileInv

\* The file is removed.
LEMMA UnlinkAudioInv ==
  ASSUME FileInv, UnlinkAudio
  PROVE  FileInv'
<1>1. FileTyped'
  BY DEF FileInv, FileTyped, UnlinkAudio, FileEnd
<1>2. FileSteps'
  BY DEF FileInv, FileTyped, FileSteps, UnlinkAudio, FileEnd
<1>3. SourceOpen'
  BY DEF FileInv, FileTyped, FileSteps, SourceOpen, UnlinkAudio, FileEnd
<1>4. ReadSoFar'
  BY DEF FileInv, FileTyped, FileSteps, ReadSoFar, UnlinkAudio, FileEnd
<1>5. RemovalChecked'
  BY DEF FileInv, FileTyped, FileSteps, RemovalChecked, RemovedWasChecked, UnlinkAudio, FileEnd
<1>6. DownloadApart'
  BY DEF FileInv, FileTyped, FileSteps, DownloadApart, DestinationPreserved, UnlinkAudio, FileEnd
<1> QED
  BY <1>1, <1>2, <1>3, <1>4, <1>5, <1>6 DEF FileInv

\* A media removal keeps nothing.
LEMMA RemoveMediaInv ==
  ASSUME FileInv, RemoveMedia
  PROVE  FileInv'
<1>1. FileTyped'
  BY DEF FileInv, FileTyped, RemoveMedia, FileEnd
<1>2. FileSteps'
  BY DEF FileInv, FileTyped, FileSteps, RemoveMedia, FileEnd
<1>3. SourceOpen'
  BY DEF FileInv, FileTyped, FileSteps, SourceOpen, RemoveMedia, FileEnd
<1>4. ReadSoFar'
  BY DEF FileInv, FileTyped, FileSteps, ReadSoFar, RemoveMedia, FileEnd
<1>5. RemovalChecked'
  BY DEF FileInv, FileTyped, FileSteps, RemovalChecked, RemovedWasChecked, RemoveMedia, FileEnd
<1>6. DownloadApart'
  BY DEF FileInv, FileTyped, FileSteps, DownloadApart, DestinationPreserved, RemoveMedia, FileEnd
<1> QED
  BY <1>1, <1>2, <1>3, <1>4, <1>5, <1>6 DEF FileInv

\* A download starts in a file of its own.
LEMMA StartMediaSyncInv ==
  ASSUME FileInv, NEW c \in Contents, StartMediaSync(c)
  PROVE  FileInv'
<1>a. /\ c \in Seq(Blocks) /\ <<>> \in Seq(Blocks) /\ fresh \in Inodes
      /\ audio # fresh
  <2>1. <<>> \in Seq(Blocks)
    BY EmptySeq
  <2>2. c \in Seq(Blocks)
    BY ContentsAreSequences
  <2>3. fresh \in Inodes /\ audio # fresh
    <3>1. /\ fresh \in Nat \ {0} /\ fresh <= 2 + writes + fileJobs
          /\ writes \in 0..MaxWrites /\ fileJobs \in 0..MaxFileJobs
          /\ audio # NoFile => audio < fresh
      BY DEF FileInv, FileTyped
    <3>2. fileJobs < MaxFileJobs
      BY DEF StartMediaSync
    <3> QED
      BY <3>1, <3>2 DEF Inodes
  <2> QED
    BY <2>1, <2>2, <2>3
<1>b. /\ inodes' = [inodes EXCEPT ![fresh] = [data |-> <<>>, mtime |-> 0,
                                              whole |-> c = <<>>]]
      /\ fd' = fresh /\ fresh' = fresh + 1 /\ fileJobs' = fileJobs + 1
      /\ fileKind' = "sync" /\ filePc' = "download" /\ fileResult' = "none"
      /\ got' = <<>> /\ expected' = c
      /\ UNCHANGED <<audio, range, before, opened, removed, touched, replaced, writes>>
  BY DEF StartMediaSync
<1>d. /\ inodes' \in [Inodes -> [data : Seq(Blocks), mtime : Nat, whole : BOOLEAN]]
      /\ inodes'[fresh].whole = (c = <<>>) /\ inodes'[fresh].mtime = 0
      /\ \A i \in Inodes : i # fresh => inodes'[i] = inodes[i]
  <2>1. [data |-> <<>>, mtime |-> 0, whole |-> c = <<>>]
          \in [data : Seq(Blocks), mtime : Nat, whole : BOOLEAN]
    BY <1>a
  <2> QED
    BY <1>a, <1>b, <2>1 DEF FileInv, FileTyped
<1>1. FileTyped'
  <2>1. \A i \in Inodes : inodes'[i].mtime <= writes'
    BY <1>b, <1>d DEF FileInv, FileTyped
  <2>2. /\ fileJobs' \in 0..MaxFileJobs /\ fresh' \in Nat \ {0}
        /\ fresh' <= 2 + writes' + fileJobs' /\ writes' \in 0..MaxWrites
    BY <1>b DEF FileInv, FileTyped, StartMediaSync
  <2>3. /\ audio' \in Inodes \cup {NoFile} /\ (audio' # NoFile => audio' < fresh')
        /\ fd' \in Inodes \cup {NoFile} /\ fd' < fresh'
    BY <1>a, <1>b DEF FileInv, FileTyped, Inodes
  <2>4. /\ got' \in Seq(Blocks) /\ opened' \in Seq(Blocks) /\ expected' \in Seq(Blocks)
        /\ range' \in Ranges \cup {WholeFile} /\ touched' \in BOOLEAN /\ replaced' \in BOOLEAN
    BY <1>a, <1>b DEF FileInv, FileTyped
  <2> QED
    BY <1>d, <2>1, <2>2, <2>3, <2>4 DEF FileTyped
<1>2. FileSteps'
  BY DEF FileInv, FileTyped, FileSteps, StartMediaSync
<1>3. SourceOpen'
  BY <1>b DEF SourceOpen, Source
<1>4. ReadSoFar'
  BY DEF FileInv, FileTyped, FileSteps, ReadSoFar, StartMediaSync
<1>5. RemovalChecked'
  BY DEF FileInv, FileTyped, FileSteps, RemovalChecked, RemovedWasChecked, StartMediaSync
<1>6. DownloadApart'
  <2>1. audio # NoFile => inodes'[audio] = inodes[audio]
    BY <1>a, <1>d DEF FileInv, FileTyped
  <2>2. fd' # NoFile /\ fd' # audio'
    BY <1>a, <1>b DEF Inodes
  <2>3. inodes'[fd'].whole = (got' = expected')
    BY <1>b, <1>d
  <2>4. DestinationPreserved'
    BY <1>b, <2>1 DEF FileInv, DownloadApart, DestinationPreserved
  <2> QED
    BY <2>2, <2>3, <2>4 DEF DownloadApart
<1> QED
  BY <1>1, <1>2, <1>3, <1>4, <1>5, <1>6 DEF FileInv

\* A block is added to it.
LEMMA DownloadBlockInv ==
  ASSUME FileInv, DownloadBlock
  PROVE  FileInv'
<1>a. /\ filePc = "download" /\ fileKind = "sync" /\ fd \in Inodes /\ fd # audio
      /\ got \in Seq(Blocks) /\ expected \in Seq(Blocks)
      /\ UNCHANGED <<audio, fresh, fileKind, range, expected, fd, opened, removed, touched,
                     replaced, writes, fileJobs>>
  BY DEF FileInv, FileTyped, FileSteps, DownloadApart, DownloadBlock
<1>b. \/ /\ inodes' = inodes /\ got' = got /\ filePc' = "idle" /\ fileResult' = "failed"
      \/ /\ inodes' = [inodes EXCEPT ![fd] = [data |-> got', mtime |-> inodes[fd].mtime,
                                               whole |-> got' = expected]]
         /\ got' = Append(got, expected[Len(got) + 1]) /\ got' \in Seq(Blocks)
         /\ filePc' = "download" /\ fileResult' = fileResult
  <2>1. Len(got) < Len(expected) /\ Len(got) \in Nat /\ Len(expected) \in Nat
    BY <1>a, LenProperties DEF DownloadBlock
  <2>2. expected[Len(got) + 1] \in Blocks
    BY <1>a, <2>1, ElementOfSeq
  <2>3. Append(got, expected[Len(got) + 1]) \in Seq(Blocks)
    BY <1>a, <2>2, AppendProperties
  <2> QED
    BY <2>3 DEF DownloadBlock, FileEnd
<1>c. /\ inodes' \in [Inodes -> [data : Seq(Blocks), mtime : Nat, whole : BOOLEAN]]
      /\ \A i \in Inodes : inodes'[i].mtime = inodes[i].mtime
      /\ \A i \in Inodes : i # fd => inodes'[i] = inodes[i]
      /\ filePc' = "download" => inodes'[fd].whole = (got' = expected)
  <2>1. CASE inodes' = inodes /\ filePc' = "idle"
    BY <2>1 DEF FileInv, FileTyped
  <2>2. CASE /\ inodes' = [inodes EXCEPT ![fd] = [data |-> got', mtime |-> inodes[fd].mtime,
                                                    whole |-> got' = expected]]
             /\ got' \in Seq(Blocks)
    <3>1. [data |-> got', mtime |-> inodes[fd].mtime, whole |-> (got' = expected)]
            \in [data : Seq(Blocks), mtime : Nat, whole : BOOLEAN]
      BY <1>a, <2>2 DEF FileInv, FileTyped
    <3> QED
      BY <1>a, <2>2, <3>1 DEF FileInv, FileTyped
  <2> QED
    BY <1>b, <2>1, <2>2
<1>1. FileTyped'
  <2>1. got' \in Seq(Blocks)
    BY <1>a, <1>b
  <2> QED
    BY <1>a, <1>c, <2>1 DEF FileInv, FileTyped
<1>2. FileSteps'
  BY DEF FileInv, FileTyped, FileSteps, DownloadBlock, FileEnd
<1>3. SourceOpen'
  BY <1>a DEF SourceOpen, Source
<1>4. ReadSoFar'
  BY DEF FileInv, FileTyped, FileSteps, ReadSoFar, DownloadBlock, FileEnd
<1>5. RemovalChecked'
  BY DEF FileInv, FileTyped, FileSteps, RemovalChecked, RemovedWasChecked, DownloadBlock, FileEnd
<1>6. DownloadApart'
  <2>1. audio # NoFile => inodes'[audio] = inodes[audio]
    BY <1>a, <1>c DEF FileInv, FileTyped
  <2> QED
    BY <1>a, <1>b, <1>c, <2>1 DEF FileInv, DownloadApart, DestinationPreserved
<1> QED
  BY <1>1, <1>2, <1>3, <1>4, <1>5, <1>6 DEF FileInv

\* A whole download takes the name.
LEMMA RenameDownloadInv ==
  ASSUME FileInv, RenameDownload
  PROVE  FileInv'
<1>1. FileTyped'
  BY DEF FileInv, FileTyped, RenameDownload, FileEnd
<1>2. FileSteps'
  BY DEF FileInv, FileTyped, FileSteps, RenameDownload, FileEnd
<1>3. SourceOpen'
  BY DEF FileInv, FileTyped, FileSteps, SourceOpen, RenameDownload, FileEnd
<1>4. ReadSoFar'
  BY DEF FileInv, FileTyped, FileSteps, ReadSoFar, RenameDownload, FileEnd
<1>5. RemovalChecked'
  BY DEF FileInv, FileTyped, FileSteps, RemovalChecked, RemovedWasChecked, RenameDownload, FileEnd
<1>6. DownloadApart'
  BY DEF FileInv, FileTyped, FileSteps, DownloadApart, DestinationPreserved, RenameDownload, FileEnd
<1> QED
  BY <1>1, <1>2, <1>3, <1>4, <1>5, <1>6 DEF FileInv

\* A write leaves a content.
LEMMA WrittenIsContent ==
  ASSUME NEW c \in Seq(Blocks), NEW d \in Written(c)
  PROVE  d \in Seq(Blocks)
<1>1. \/ d = <<>>
      \/ \E b \in Blocks : d = Append(c, b)
      \/ \E n \in 1..Len(c), b \in Blocks : d = [c EXCEPT ![n] = b]
  <2>1. \/ d \in {<<>>}
        \/ d \in {Append(c, b) : b \in Blocks}
        \/ d \in {[c EXCEPT ![n] = b] : n \in 1..Len(c), b \in Blocks}
    BY DEF Written
  <2> QED
    BY <2>1
<1>2. CASE d = <<>>
  BY <1>2, EmptySeq
<1>3. CASE \E b \in Blocks : d = Append(c, b)
  BY <1>3, AppendProperties
<1>4. CASE \E n \in 1..Len(c), b \in Blocks : d = [c EXCEPT ![n] = b]
  <2>1. PICK n \in 1..Len(c), b \in Blocks : d = [c EXCEPT ![n] = b]
    BY <1>4
  <2> QED
    BY <2>1, ExceptSeq
<1> QED
  BY <1>1, <1>2, <1>3, <1>4

\* The host changes the file and its time, or the path.
LEMMA HostActsInv ==
  ASSUME FileInv, HostActs
  PROVE  FileInv'
<1>a. /\ writes \in Nat /\ writes' = writes + 1 /\ touched' = TRUE
      /\ UNCHANGED <<filePc, fileKind, range, expected, fd, before, got, fileResult, opened,
                     removed, fileJobs>>
  BY DEF FileInv, FileTyped, HostActs
\* What is written is a file of the new time.
<1> DEFINE Recs == [data : Seq(Blocks), mtime : Nat, whole : BOOLEAN]
           Acts(i, e) ==
             /\ inodes' \in {inodes, [inodes EXCEPT ![i] = e]}
             /\ e.mtime = writes + 1 /\ e.whole
             /\ \/ /\ i = audio /\ UNCHANGED <<audio, fresh, replaced>>
                \/ /\ i = fresh /\ audio' = fresh /\ fresh' = fresh + 1 /\ replaced' = TRUE
                   /\ inodes' = [inodes EXCEPT ![i] = e]
                \/ /\ inodes' = inodes /\ audio' = NoFile /\ fresh' = fresh /\ replaced' = TRUE
<1>b. \E i \in Inodes : \E e \in Recs : Acts(i, e)
  <2>1. fresh \in Inodes
    BY DEF FileInv, FileTyped, Inodes, HostActs
  <2>2. ASSUME NEW d \in Seq(Blocks)
        PROVE  [data |-> d, mtime |-> writes + 1, whole |-> TRUE] \in Recs
    BY <1>a
  <2>3. <<>> \in Seq(Blocks) /\ \A b \in Blocks : <<b, b>> \in Seq(Blocks)
    BY EmptySeq
  <2>4. ASSUME audio # NoFile, UNCHANGED <<audio, fresh, replaced>>, NEW d \in Seq(Blocks),
               inodes' = [inodes EXCEPT ![audio] = [data |-> d, mtime |-> writes + 1,
                                                    whole |-> TRUE]]
        PROVE  \E i \in Inodes : \E e \in Recs : Acts(i, e)
    <3>1. audio \in Inodes
      BY <2>4 DEF FileInv, FileTyped
    <3>2. Acts(audio, [data |-> d, mtime |-> writes + 1, whole |-> TRUE])
      BY <2>4
    <3> HIDE DEF Acts, Recs
    <3> QED
      BY <2>2, <3>1, <3>2
  <2>5. ASSUME NEW b \in Blocks,
               inodes' = [inodes EXCEPT ![fresh] = [data |-> <<b, b>>, mtime |-> writes + 1,
                                                    whole |-> TRUE]],
               audio' = fresh, fresh' = fresh + 1, replaced' = TRUE
        PROVE  \E i \in Inodes : \E e \in Recs : Acts(i, e)
    <3>1. Acts(fresh, [data |-> <<b, b>>, mtime |-> writes + 1, whole |-> TRUE])
      BY <2>5
    <3> HIDE DEF Acts, Recs
    <3> QED
      BY <2>1, <2>2, <2>3, <3>1
  <2>6. ASSUME UNCHANGED <<inodes, fresh>>, audio' = NoFile, replaced' = TRUE
        PROVE  \E i \in Inodes : \E e \in Recs : Acts(i, e)
    <3>1. Acts(fresh, [data |-> <<>>, mtime |-> writes + 1, whole |-> TRUE])
      BY <2>6
    <3> HIDE DEF Acts, Recs
    <3> QED
      BY <2>1, <2>2, <2>3, <3>1
  <2>7. ASSUME audio # NoFile, UNCHANGED <<audio, fresh, replaced>>,
               NEW d \in Written(inodes[audio].data),
               inodes' = [inodes EXCEPT ![audio] = [data |-> d, mtime |-> writes + 1,
                                                    whole |-> TRUE]]
        PROVE  \E i \in Inodes : \E e \in Recs : Acts(i, e)
    <3>1. d \in Seq(Blocks)
      BY <2>7, WrittenIsContent DEF FileInv, FileTyped
    <3> QED
      BY <2>4, <2>7, <3>1
  <2>8. \/ /\ audio # NoFile /\ UNCHANGED <<audio, fresh, replaced>>
           /\ \E d \in Written(inodes[audio].data) :
                inodes' = [inodes EXCEPT ![audio] = [data |-> d, mtime |-> writes + 1,
                                                     whole |-> TRUE]]
        \/ /\ \E b \in Blocks :
                inodes' = [inodes EXCEPT ![fresh] = [data |-> <<b, b>>, mtime |-> writes + 1,
                                                     whole |-> TRUE]]
           /\ audio' = fresh /\ fresh' = fresh + 1 /\ replaced' = TRUE
        \/ /\ audio # NoFile /\ audio' = NoFile /\ replaced' = TRUE
           /\ UNCHANGED <<inodes, fresh>>
    BY DEF HostActs
  <2> HIDE DEF Acts, Recs
  <2> QED
    BY <2>5, <2>6, <2>7, <2>8
<1>c. PICK i \in Inodes : \E e \in Recs : Acts(i, e)
  BY <1>b
<1>d. PICK e \in Recs : Acts(i, e)
  BY <1>c
<1>e. /\ inodes' \in [Inodes -> Recs]
      /\ \A j \in Inodes : inodes'[j] = inodes[j]
                           \/ (j = i /\ inodes'[j].mtime = writes + 1 /\ inodes'[j].whole)
  <2>1. inodes \in [Inodes -> Recs]
    BY DEF FileInv, FileTyped
  <2>2. inodes' \in {inodes, [inodes EXCEPT ![i] = e]} /\ e.mtime = writes + 1 /\ e.whole
    BY <1>d
  <2> HIDE DEF Recs, Acts
  <2> QED
    BY <1>d, <2>1, <2>2
<1>f. \A j \in Inodes : inodes[j].mtime <= writes /\ inodes[j].mtime \in Nat
  BY DEF FileInv, FileTyped
\* A file with the time it had is the file it was.
<1>g. \A j \in Inodes : /\ inodes'[j].mtime <= writes'
                        /\ inodes[j].mtime <= inodes'[j].mtime
                        /\ \A m \in Nat : m <= inodes[j].mtime /\ inodes'[j].mtime = m =>
                             inodes'[j] = inodes[j]
  BY <1>a, <1>e, <1>f
<1>1. FileTyped'
  <2>1. writes' \in 0..MaxWrites /\ fresh' \in Nat \ {0} /\ fresh' <= 2 + writes' + fileJobs'
        /\ fileJobs' \in 0..MaxFileJobs
    BY <1>a, <1>d DEF FileInv, FileTyped, HostActs
  <2>2. /\ audio' \in Inodes \cup {NoFile} /\ (audio' # NoFile => audio' < fresh')
        /\ fd' \in Inodes \cup {NoFile} /\ (fd' # NoFile => fd' < fresh')
    <3>1. /\ audio' \in {audio, fresh, NoFile} /\ (audio' = fresh => fresh \in Inodes)
          /\ fresh' \in {fresh, fresh + 1} /\ (audio' = fresh => fresh' = fresh + 1)
      BY <1>d DEF FileInv, FileTyped
    <3>2. /\ fresh \in Nat /\ audio \in Inodes \cup {NoFile} /\ fd \in Inodes \cup {NoFile}
          /\ (audio # NoFile => audio < fresh) /\ (fd # NoFile => fd < fresh)
          /\ Inodes \subseteq Nat
      BY DEF FileInv, FileTyped, Inodes
    <3> QED
      BY <1>a, <3>1, <3>2
  <2>3. /\ got' \in Seq(Blocks) /\ opened' \in Seq(Blocks) /\ expected' \in Seq(Blocks)
        /\ range' \in Ranges \cup {WholeFile} /\ touched' \in BOOLEAN
    BY <1>a DEF FileInv, FileTyped
  <2>4. replaced' \in BOOLEAN
    BY <1>d DEF FileInv, FileTyped
  <2> QED
    BY <1>e, <1>g, <2>1, <2>2, <2>3, <2>4 DEF FileTyped
<1>2. FileSteps'
  BY <1>a DEF FileInv, FileSteps
<1>3. SourceOpen'
  <2> SUFFICES ASSUME filePc # "idle", fileKind \in Source PROVE SourceOpen'
    BY <1>a DEF SourceOpen
  <2>1. /\ fd \in Inodes /\ fd # NoFile
        /\ before = [ino |-> fd, size |-> Len(opened), mtime |-> before.mtime]
        /\ before.mtime \in Nat /\ before.mtime <= inodes[fd].mtime
        /\ inodes[fd].mtime = before.mtime => inodes[fd].data = opened
    <3>1. /\ fd # NoFile
          /\ before = [ino |-> fd, size |-> Len(opened), mtime |-> before.mtime]
          /\ before.mtime \in Nat /\ before.mtime <= inodes[fd].mtime
          /\ inodes[fd].mtime = before.mtime => inodes[fd].data = opened
      BY DEF FileInv, SourceOpen
    <3>2. fd \in Inodes \cup {NoFile}
      BY DEF FileInv, FileTyped
    <3> QED
      BY <3>1, <3>2
  <2>2. inodes'[fd].mtime \in Nat /\ inodes[fd].mtime \in Nat
    BY <1>e, <1>f, <2>1
  <2>3. before.mtime <= inodes'[fd].mtime
    BY <1>g, <2>1, <2>2
  <2>4. inodes'[fd].mtime = before.mtime => inodes'[fd] = inodes[fd]
    BY <1>g, <2>1
  <2> QED
    BY <1>a, <2>1, <2>3, <2>4 DEF SourceOpen
<1>4. ReadSoFar'
  <2>1. filePc \in {"send", "hash"} =>
          /\ fd \in Inodes
          /\ inodes'[fd].mtime = before.mtime => inodes'[fd] = inodes[fd]
    <3>1. filePc \in {"send", "hash"} =>
            fd \in Inodes /\ before.mtime \in Nat /\ before.mtime <= inodes[fd].mtime
      BY DEF FileInv, FileTyped, FileSteps, SourceOpen, Source
    <3> QED
      BY <1>g, <3>1
  <2>2. Budgeted(range)' = Budgeted(range)
    BY <1>a DEF Budgeted
  <2> QED
    BY <1>a, <2>1, <2>2 DEF FileInv, ReadSoFar
<1>5. RemovalChecked'
  <2>1. replaced' = FALSE => audio' = audio /\ replaced = FALSE
    BY <1>d DEF FileInv, FileTyped
  <2> QED
    BY <1>a, <2>1 DEF FileInv, FileTyped, RemovalChecked, RemovedWasChecked
<1>6. DownloadApart'
  <2>1. audio' # NoFile => inodes'[audio'].whole
    BY <1>d DEF FileInv, FileTyped, DownloadApart, DestinationPreserved
  <2>2. fd # NoFile /\ fd # audio => fd # audio' /\ inodes'[fd] = inodes[fd]
    BY <1>d DEF FileInv, FileTyped
  <2>3. fd # audio => fd # audio' \/ fd = NoFile
    BY <2>2
  <2>4. filePc = "idle" /\ fileKind = "sync" /\ fileResult = "failed" => audio' # fd
    BY <2>2 DEF FileInv, DownloadApart, DestinationPreserved
  <2> QED
    BY <1>a, <2>1, <2>2, <2>4 DEF FileInv, FileSteps, DownloadApart, DestinationPreserved
<1> QED
  BY <1>1, <1>2, <1>3, <1>4, <1>5, <1>6 DEF FileInv

\* The path names one file of two blocks.
LEMMA FileInitInv ==
  ASSUME FileInit
  PROVE  FileInv
<1>1. PICK b \in Blocks :
        inodes = [i \in Inodes |-> [data |-> [n \in 1..(IF i = 1 THEN 2 ELSE 0) |-> b],
                                    mtime |-> 0, whole |-> TRUE]]
  BY DEF FileInit
<1>2. /\ audio = 1 /\ fresh = 2 /\ filePc = "idle" /\ fileKind = "read" /\ fd = NoFile
      /\ got = <<>> /\ opened = <<>> /\ expected = <<>> /\ range = NoFile
      /\ fileResult = "none" /\ removed = NoFile /\ touched = FALSE /\ replaced = FALSE
      /\ writes = 0 /\ fileJobs = 0
  BY DEF FileInit
<1>3. ASSUME NEW i \in Inodes
      PROVE  [data |-> [n \in 1..(IF i = 1 THEN 2 ELSE 0) |-> b], mtime |-> 0, whole |-> TRUE]
               \in [data : Seq(Blocks), mtime : Nat, whole : BOOLEAN]
  <2>1. \A m \in Nat : [n \in 1..m |-> b] \in Seq(Blocks)
    BY <1>1
  <2> QED
    BY <2>1
<1>4. FileTyped
  <2>1. inodes \in [Inodes -> [data : Seq(Blocks), mtime : Nat, whole : BOOLEAN]]
    BY <1>1, <1>3
  <2>2. \A i \in Inodes : inodes[i].mtime <= writes
    BY <1>1, <1>2
  <2>3. 1 \in Inodes
    BY DEF Inodes
  <2>4. got \in Seq(Blocks) /\ opened \in Seq(Blocks) /\ expected \in Seq(Blocks)
    BY <1>2, EmptySeq
  <2>5. /\ writes \in 0..MaxWrites /\ fileJobs \in 0..MaxFileJobs
        /\ fresh \in Nat \ {0} /\ fresh <= 2 + writes + fileJobs
    BY <1>2
  <2>6. audio \in Inodes \cup {NoFile} /\ audio < fresh /\ fd = NoFile
    BY <1>2, <2>3
  <2>7. range \in Ranges \cup {WholeFile}
    BY <1>2 DEF Ranges
  <2>8. touched \in BOOLEAN /\ replaced \in BOOLEAN
    BY <1>2
  <2> QED
    BY <2>1, <2>2, <2>4, <2>5, <2>6, <2>7, <2>8 DEF FileTyped
<1>5. FileSteps /\ SourceOpen /\ RemovalChecked
  BY <1>2 DEF FileSteps, SourceOpen, RemovalChecked, RemovedWasChecked
<1>6. ReadSoFar
  BY <1>2 DEF ReadSoFar
<1>7. DownloadApart
  BY <1>1, <1>2, <1>4 DEF DownloadApart, DestinationPreserved, FileTyped
<1> QED
  BY <1>4, <1>5, <1>6, <1>7 DEF FileInv

\* One step per action of the file jobs.
LEMMA FileNextInv ==
  ASSUME FileInv, [FileNext]_fileVars
  PROVE  FileInv'
<1>1. ASSUME NEW r \in Ranges \cup {WholeFile}, StartFileJob("read", r, <<>>)
      PROVE  FileInv'
  BY <1>1, EmptySeq, StartFileJobInv DEF Source
<1>2. CASE StartFileJob("upload", WholeFile, <<>>)
  BY <1>2, EmptySeq, StartFileJobInv DEF Source
<1>3. ASSUME NEW k \in {"inspect", "delete"}, NEW c \in Contents,
             StartFileJob(k, WholeFile, c)
      PROVE  FileInv'
  BY <1>3, ContentsAreSequences, StartFileJobInv DEF Source
<1>4. CASE \E c \in Contents : StartMediaSync(c)
  BY <1>4, StartMediaSyncInv
<1>5. CASE RemoveMedia
  BY <1>5, RemoveMediaInv
<1>6. CASE SendBlock
  BY <1>6, SendBlockInv
<1>7. CASE CheckSent
  BY <1>7, CheckSentInv
<1>8. CASE FileReported
  BY <1>8, FileReportedInv
<1>9. CASE DropRecording
  BY <1>9, DropRecordingInv
<1>10. CASE HashBlock
  BY <1>10, HashBlockInv
<1>11. CASE CheckDigest
  BY <1>11, CheckDigestInv
<1>12. CASE StatName
  BY <1>12, StatNameInv
<1>13. CASE UnlinkAudio
  BY <1>13, UnlinkAudioInv
<1>14. CASE DownloadBlock
  BY <1>14, DownloadBlockInv
<1>15. CASE RenameDownload
  BY <1>15, RenameDownloadInv
<1>16. CASE FileFails \/ FileStop
  BY <1>16, FileEndsInv
<1>17. CASE HostActs
  BY <1>17, HostActsInv
<1>18. CASE UNCHANGED fileVars
  BY <1>18 DEF fileVars, fileJob, FileInv, FileTyped, FileSteps, SourceOpen, ReadSoFar,
     Budgeted, RemovalChecked, RemovedWasChecked, DownloadApart, DestinationPreserved
<1> QED
  BY <1>1, <1>2, <1>3, <1>4, <1>5, <1>6, <1>7, <1>8, <1>9, <1>10, <1>11, <1>12, <1>13,
     <1>14, <1>15, <1>16, <1>17, <1>18 DEF FileNext

\* The invariant holds of every behaviour.
LEMMA FileAlways == FileSpec => []FileInv
<1>1. FileInit => FileInv
  BY FileInitInv
<1>2. FileInv /\ [FileNext]_fileVars => FileInv'
  BY FileNextInv
<1> QED
  BY <1>1, <1>2, PTL DEF FileSpec

\* What a read or an upload reported as complete is the asked part of the one version it
\* opened, and an inspected file the expected one: the modification time fences every block
\* (send_audio, uploadStream, inspect_or_delete).
THEOREM SentIsOneVersionHolds == FileSpec => []SentIsOneVersion
<1>1. FileInv => SentIsOneVersion
  BY DEF FileInv, ReadSoFar, SentIsOneVersion
<1> QED
  BY <1>1, FileAlways, PTL

\* What a delete or an upload removed by name is what it checked, unless the host acted on
\* the path in between (inspect_or_delete, uploadJob).
THEOREM RemovedWasCheckedHolds == FileSpec => []RemovedWasChecked
<1>1. FileInv => RemovedWasChecked
  BY DEF FileInv, RemovalChecked
<1> QED
  BY <1>1, FileAlways, PTL

\* The destination of a media sync never holds part of a download (syncMediaFileJob).
THEOREM DestinationHolds == FileSpec => []DestinationPreserved
<1>1. FileInv => DestinationPreserved
  BY DEF FileInv, DownloadApart
<1> QED
  BY <1>1, FileAlways, PTL

-----------------------------------------------------------------------------
(* No file, job or history outgrows the budget and one block.              *)

Sized ==
  /\ inodes \in [Inodes -> Inode]
  /\ fileKind \in FileKinds /\ fileResult \in {"none", "done", "failed", "absent"}
  /\ before \in [ino : Inodes \cup {NoFile}, size : Nat, mtime : Nat]
  /\ expected \in Contents /\ got \in Contents /\ opened \in Contents
  /\ removed \in Contents \cup {NoFile} /\ fileStops \in Nat

\* Contents are the sequences within that size.
LEMMA ContentSize ==
  \A c : c \in Contents <=> c \in Seq(Blocks) /\ Len(c) <= MaxSize + 1
<1>1. ASSUME NEW c \in Contents PROVE c \in Seq(Blocks) /\ Len(c) <= MaxSize + 1
  <2>1. PICK n \in 0..(MaxSize + 1) : c \in [1..n -> Blocks]
    BY DEF Contents
  <2>2. n \in Nat
    OBVIOUS
  <2>3. c \in Seq(Blocks)
    BY <2>1, <2>2
  <2>4. Len(c) = n
    BY <2>1, <2>2
  <2> QED
    BY <2>3, <2>4
<1>2. ASSUME NEW c, c \in Seq(Blocks), Len(c) <= MaxSize + 1 PROVE c \in Contents
  <2>1. Len(c) \in 0..(MaxSize + 1) /\ c \in [1..Len(c) -> Blocks]
    BY <1>2, LenProperties
  <2> QED
    BY <2>1 DEF Contents
<1> QED
  BY <1>1, <1>2

LEMMA NothingIsContent == <<>> \in Contents
<1>1. <<>> \in Seq(Blocks) /\ Len(<<>>) = 0
  OBVIOUS
<1>2. 0 <= MaxSize + 1
  OBVIOUS
<1> QED
  BY <1>1, <1>2, ContentSize

\* A write keeps to it.
LEMMA WrittenSized ==
  ASSUME NEW c \in Contents, NEW d \in Written(c)
  PROVE  d \in Contents
<1>1. c \in Seq(Blocks) /\ Len(c) <= MaxSize + 1 /\ Len(c) \in Nat
  BY ContentSize, LenProperties
<1>2. d \in Seq(Blocks)
  BY <1>1, WrittenIsContent
<1>3. Len(d) <= MaxSize + 1
  <2>1. \/ d \in {<<>>}
        \/ Len(c) <= MaxSize /\ d \in {Append(c, b) : b \in Blocks}
        \/ d \in {[c EXCEPT ![n] = b] : n \in 1..Len(c), b \in Blocks}
    BY <1>1 DEF Written
  <2>2. CASE d \in {<<>>}
    BY <2>2
  <2>3. CASE Len(c) <= MaxSize /\ d \in {Append(c, b) : b \in Blocks}
    <3>1. PICK b \in Blocks : d = Append(c, b)
      BY <2>3
    <3>2. Len(d) = Len(c) + 1
      BY <1>1, <3>1, AppendProperties
    <3> QED
      BY <1>1, <2>3, <3>2
  <2>4. CASE d \in {[c EXCEPT ![n] = b] : n \in 1..Len(c), b \in Blocks}
    <3>1. PICK n \in 1..Len(c), b \in Blocks : d = [c EXCEPT ![n] = b]
      BY <2>4
    <3>2. Len(d) = Len(c)
      BY <1>1, <3>1, ExceptSeq
    <3> QED
      BY <1>1, <3>2
  <2> QED
    BY <2>1, <2>2, <2>3, <2>4
<1> QED
  BY <1>2, <1>3, ContentSize

\* What is read or downloaded is no longer than its source.
LEMMA GotSized ==
  ASSUME FileInv, FileInv', Sized, SendBlock \/ HashBlock \/ DownloadBlock
  PROVE  got' \in Contents
<1>1. /\ got' \in Seq(Blocks) /\ got \in Seq(Blocks) /\ Len(got) \in Nat
      /\ got' = got \/ \E b : got' = Append(got, b)
  BY LenProperties DEF FileInv, FileTyped, SendBlock, HashBlock, DownloadBlock
<1>2. CASE got' = got
  BY <1>2 DEF Sized
<1>3. CASE got' # got
  <2>1. Len(got) < MaxSize + 1
    <3>1. CASE SendBlock
      <4>1. /\ range \in Ranges \cup {WholeFile} /\ opened \in Seq(Blocks)
            /\ before.size = Len(opened) /\ ByteRange(range, Len(opened)) # NoFile
            /\ Len(got) < Budgeted(range).length
        BY <3>1, SendFacts DEF SendBlock
      <4>2. Len(opened) \in Nat /\ Len(opened) <= MaxSize + 1
        BY <4>1, LenProperties, ContentSize DEF Sized
      <4>3. /\ Budgeted(range) = ByteRange(range, Len(opened))
            /\ ByteRange(range, Len(opened)) \in [start : Nat, length : Nat]
            /\ ByteRange(range, Len(opened)).start + ByteRange(range, Len(opened)).length
                 <= Len(opened)
        BY <4>1, <4>2, ByteRangeBounds DEF Budgeted
      <4> QED
        BY <1>1, <4>1, <4>2, <4>3
    <3>2. CASE HashBlock
      <4>1. Len(got) < Len(inodes[fd].data) /\ fd \in Inodes
        BY <3>2 DEF HashBlock, FileInv, FileSteps, SourceOpen, Source, FileTyped
      <4>2. inodes[fd].data \in Contents
        BY <4>1 DEF Sized, Inode
      <4>3. Len(inodes[fd].data) <= MaxSize + 1 /\ Len(inodes[fd].data) \in Nat
        BY <4>2, ContentSize, LenProperties
      <4> QED
        BY <1>1, <4>1, <4>3
    <3>3. CASE DownloadBlock
      <4>1. Len(got) < Len(expected) /\ Len(expected) <= MaxSize + 1 /\ Len(expected) \in Nat
        BY <3>3, ContentSize, LenProperties DEF DownloadBlock, Sized
      <4> QED
        BY <1>1, <4>1
    <3> QED
      BY <3>1, <3>2, <3>3
  <2>2. Len(got') = Len(got) + 1
    BY <1>1, <1>3
  <2> QED
    BY <1>1, <2>1, <2>2, ContentSize
<1> QED
  BY <1>2, <1>3

\* A start takes its content from the list or from the file.
LEMMA StartSized ==
  ASSUME FileInv, Sized, NEW k \in FileKinds, NEW r \in Ranges \cup {WholeFile},
         NEW c \in Contents, StartFileJob(k, r, c)
  PROVE  Sized'
<1>1. /\ fileKind' \in FileKinds /\ expected' \in Contents /\ got' \in Contents
      /\ removed' = NoFile /\ UNCHANGED <<inodes, fileStops>>
  BY NothingIsContent DEF StartFileJob
<1>2. CASE audio = NoFile
  <2>1. /\ fileResult' \in {"absent", "failed"} /\ opened' \in Contents
        /\ before' \in [ino : Inodes \cup {NoFile}, size : Nat, mtime : Nat]
    BY <1>2, NothingIsContent DEF StartFileJob, FileEnd, NoStat
  <2> QED
    BY <1>1, <2>1 DEF Sized
<1>3. CASE audio # NoFile
  <2>1. audio \in Inodes /\ inodes[audio] \in Inode
    BY <1>3 DEF FileInv, FileTyped, Sized
  <2>2. inodes[audio].data \in Contents /\ inodes[audio].mtime \in Nat
    BY <2>1 DEF Inode
  <2>3. Len(inodes[audio].data) \in Nat
    BY <2>2, ContentSize, LenProperties
  <2>4. /\ fileResult' \in {"none", "failed"} /\ opened' = inodes[audio].data
        /\ before' = Stat(audio)
    BY <1>3 DEF StartFileJob, FileEnd
  <2> QED
    BY <1>1, <2>1, <2>2, <2>3, <2>4 DEF Sized
<1> QED
  BY <1>2, <1>3

\* What the host writes stays within the size too.
LEMMA HostActsSized ==
  ASSUME FileInv, FileInv', Sized, HostActs
  PROVE  inodes' \in [Inodes -> Inode]
<1>1. ASSUME NEW i \in Inodes, NEW e \in Inode, inodes' = [inodes EXCEPT ![i] = e]
      PROVE  inodes' \in [Inodes -> Inode]
  BY <1>1 DEF Sized
<1>2. writes + 1 \in Nat
  BY DEF FileInv, FileTyped
<1>3. CASE UNCHANGED inodes
  BY <1>3 DEF Sized
<1>4. ASSUME audio # NoFile,
             NEW d \in Written(inodes[audio].data),
             inodes' = [inodes EXCEPT ![audio] = [data |-> d, mtime |-> writes + 1,
                                                  whole |-> TRUE]]
      PROVE  inodes' \in [Inodes -> Inode]
  <2>1. audio \in Inodes /\ inodes[audio].data \in Contents
    BY <1>4 DEF FileInv, FileTyped, Sized, Inode
  <2>2. d \in Contents
    BY <1>4, <2>1, WrittenSized
  <2> QED
    BY <1>1, <1>2, <1>4, <2>1, <2>2 DEF Inode
<1>5. ASSUME NEW b \in Blocks, audio' = fresh,
             inodes' = [inodes EXCEPT ![fresh] = [data |-> <<b, b>>,
                                                  mtime |-> writes + 1, whole |-> TRUE]]
      PROVE  inodes' \in [Inodes -> Inode]
  <2>1. <<b, b>> \in Seq(Blocks) /\ Len(<<b, b>>) = 2
    OBVIOUS
  <2>2. <<b, b>> \in Contents
    <3>1. 2 <= MaxSize + 1
      OBVIOUS
    <3> QED
      BY <2>1, <3>1, ContentSize
  <2>3. fresh \in Inodes
    BY <1>5 DEF FileInv, FileTyped, Inodes
  <2> QED
    BY <1>1, <1>2, <1>5, <2>2, <2>3 DEF Inode
<1> QED
  BY <1>3, <1>4, <1>5 DEF HostActs

LEMMA SizedKept ==
  ASSUME FileInv, FileInv', Sized, [FileNext]_fileVars
  PROVE  Sized'
<1>1. CASE UNCHANGED fileVars
  BY <1>1 DEF Sized, fileVars, fileJob
<1>2. ASSUME NEW r \in Ranges \cup {WholeFile}, StartFileJob("read", r, <<>>)
      PROVE  Sized'
  BY <1>2, StartSized, NothingIsContent DEF FileKinds
<1>3. CASE StartFileJob("upload", WholeFile, <<>>)
  <2>1. "upload" \in FileKinds /\ WholeFile \in Ranges \cup {WholeFile}
    BY DEF FileKinds
  <2> QED
    BY <1>3, <2>1, StartSized, NothingIsContent
<1>4. ASSUME NEW k \in {"inspect", "delete"}, NEW c \in Contents,
             StartFileJob(k, WholeFile, c)
      PROVE  Sized'
  <2>1. k \in FileKinds /\ WholeFile \in Ranges \cup {WholeFile}
    BY DEF FileKinds
  <2> QED
    BY <1>4, <2>1, StartSized
<1>5. ASSUME NEW c \in Contents, StartMediaSync(c)
      PROVE  Sized'
  <2>1. fresh \in Inodes
    BY <1>5 DEF FileInv, FileTyped, Inodes, StartMediaSync
  <2>2. inodes' \in [Inodes -> Inode]
    BY <1>5, <2>1, NothingIsContent DEF StartMediaSync, Sized, Inode
  <2> QED
    BY <1>5, <2>2, NothingIsContent DEF StartMediaSync, Sized, FileKinds
<1>6. CASE RemoveMedia
  BY <1>6 DEF RemoveMedia, FileEnd, Sized, FileKinds
<1>7. CASE SendBlock \/ HashBlock
  <2>1. got' \in Contents
    BY <1>7, GotSized
  <2>2. fileResult' \in {fileResult, "failed"} /\ UNCHANGED <<inodes, fileKind, before,
          expected, opened, removed, fileStops>>
    BY <1>7 DEF SendBlock, HashBlock, FileEnd
  <2> QED
    BY <2>1, <2>2 DEF Sized
<1>8. CASE CheckSent \/ FileReported \/ CheckDigest \/ StatName \/ RenameDownload \/ FileFails
  BY <1>8 DEF CheckSent, FileReported, CheckDigest, StatName, RenameDownload, FileFails,
              FileEnd, Sized
<1>9. CASE DropRecording \/ UnlinkAudio
  <2>1. removed' \in Contents \cup {NoFile}
    <3>1. audio \in Inodes => inodes[audio].data \in Contents
      BY DEF Sized, Inode
    <3>2. audio \in Inodes \cup {NoFile}
      BY DEF FileInv, FileTyped
    <3> QED
      BY <1>9, <3>1, <3>2 DEF DropRecording, UnlinkAudio, Sized
  <2>2. fileResult' \in {fileResult, "failed", "done"} /\ UNCHANGED <<inodes, fileKind,
          before, expected, got, opened, fileStops>>
    BY <1>9 DEF DropRecording, UnlinkAudio, FileEnd
  <2> QED
    BY <2>1, <2>2 DEF Sized
<1>10. CASE DownloadBlock
  <2>1. got' \in Contents
    BY <1>10, GotSized
  <2>2. fd \in Inodes
    BY <1>10 DEF DownloadBlock, FileInv, FileSteps, DownloadApart, FileTyped
  <2>3. inodes' \in [Inodes -> Inode]
    <3>1. inodes[fd] \in Inode
      BY <2>2 DEF Sized
    <3>2. [data |-> got', mtime |-> inodes[fd].mtime, whole |-> got' = expected] \in Inode
      BY <2>1, <3>1 DEF Inode
    <3> QED
      BY <1>10, <2>2, <3>2 DEF DownloadBlock, Sized
  <2> QED
    BY <1>10, <2>1, <2>3 DEF DownloadBlock, FileEnd, Sized
<1>11. CASE FileStop
  BY <1>11 DEF FileStop, FileEnd, Sized
<1>12. CASE HostActs
  <2>1. inodes' \in [Inodes -> Inode]
    BY <1>12, HostActsSized
  <2> QED
    BY <1>12, <2>1 DEF HostActs, Sized
<1> QED
  BY <1>1, <1>2, <1>3, <1>4, <1>5, <1>6, <1>7, <1>8, <1>9, <1>10, <1>11, <1>12 DEF FileNext

LEMMA FileInitSized == FileInit => Sized
<1> SUFFICES ASSUME FileInit PROVE Sized
  OBVIOUS
<1>1. PICK b \in Blocks :
        inodes = [i \in Inodes |-> [data |-> [n \in 1..(IF i = 1 THEN 2 ELSE 0) |-> b],
                                    mtime |-> 0, whole |-> TRUE]]
  BY DEF FileInit
<1>2. ASSUME NEW n \in {0, 2} PROVE [m \in 1..n |-> b] \in Contents
  BY DEF Contents
<1>3. inodes \in [Inodes -> Inode]
  <2>1. ASSUME NEW i \in Inodes PROVE inodes[i] \in Inode
    <3>1. (IF i = 1 THEN 2 ELSE 0) \in {0, 2}
      OBVIOUS
    <3>2. inodes[i].data \in Contents
      BY <1>1, <1>2, <3>1
    <3> QED
      BY <1>1, <3>2 DEF Inode
  <2> QED
    BY <1>1, <2>1
<1> QED
  BY <1>3, NothingIsContent DEF FileInit, NoStat, Sized, FileKinds

\* Every variable keeps its type: whatever the host writes, no content a job opens, reads,
\* downloads or removes is longer than the budget and one block (filesystem-transfer.py,
\* main.ts).
THEOREM FileTypeCorrect == FileSpec => []FileTypeOK
<1>1. FileInit => Sized
  BY FileInitSized
<1>2. FileInv /\ FileInv' /\ Sized /\ [FileNext]_fileVars => Sized'
  BY SizedKept
<1>3. FileInv /\ Sized => FileTypeOK
  BY DEF FileInv, FileTyped, FileSteps, Sized, FileTypeOK
<1> QED
  BY <1>1, <1>2, <1>3, FileAlways, PTL DEF FileSpec

HIDE FileAssumption DEF WholeFile, Stat
=============================================================================
