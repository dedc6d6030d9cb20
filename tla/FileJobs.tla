------------------------------- MODULE FileJobs -------------------------------
(***************************************************************************)
(* Jobs on one audio file: filesystem.transfer (read, inspect, delete, in  *)
(* filesystem-transfer.py), the recording upload and the media sync or     *)
(* removal (main.ts, bounded-io.ts), beside a host that writes, replaces   *)
(* and removes the file at any moment.                                     *)
(*                                                                         *)
(* A file is an inode, a sequence of blocks with a modification time that  *)
(* every write advances; a digest is the content itself.  The helper       *)
(* compares nanoseconds, uploadJob only milliseconds (main.ts:1931): two   *)
(* writes that leave the size as it is are taken not to share one.  Leases *)
(* and reports are the job lane's (JobLane).                               *)
(***************************************************************************)
EXTENDS Integers, Sequences, FiniteSetsExt

CONSTANTS
  Blocks,       \* what a block may hold
  MaxSize,      \* transfer budget: blocks of a file
  NoFile,       \* no inode, no range bound
  MaxWrites,    \* bound: what the host does to the file
  MaxFileJobs,  \* bound: jobs on the file
  MaxFileStops  \* bound: stops of the Agent

ASSUME FileAssumption ==
  /\ MaxSize \in Nat \ {0}
  /\ MaxWrites \in Nat /\ MaxFileJobs \in Nat /\ MaxFileStops \in Nat
  /\ NoFile \notin Nat /\ NoFile \notin [start : Nat, length : Nat]

Inodes == 1..(1 + MaxWrites + MaxFileJobs)
Contents == UNION {[1..n -> Blocks] : n \in 0..(MaxSize + 1)}
Inode == [data : Contents, mtime : Nat, whole : BOOLEAN]
FileKinds == {"read", "inspect", "delete", "upload", "sync", "remove"}
Bounds == 0..MaxSize \cup {NoFile}
Ranges == [first : Bounds, last : Bounds]
WholeFile == NoFile     \* a request without a range

VARIABLES
  inodes,    \* the inodes of the file system
  audio,     \* the inode the path names, or NoFile
  fresh,     \* the next unused inode
  filePc,    \* the step of the running job, "idle" between jobs
  fileKind, range, expected,   \* the job and its payload
  fd,        \* the inode the job holds open
  before,    \* fstat after the open
  got,       \* the blocks sent, hashed or downloaded so far
  fileResult,
  opened,    \* history: the content when it was opened
  removed,   \* history: the content a checked removal unlinked
  touched,   \* history: the host acted since the job's last check
  replaced,  \* history: the host gave the path another file since the open
  writes, fileJobs, fileStops  \* bounded counters

fileJob == <<filePc, fileKind, range, expected, fd, before, got, fileResult,
             opened, removed, touched, replaced>>
fileVars == <<inodes, audio, fresh, fileJob, writes, fileJobs, fileStops>>

\* byte_range: where a range starts and how many blocks it takes, or NoFile when
\* it cannot be satisfied; a missing last bound is the end of the file, a missing
\* first one counts from it.
ByteRange(r, size) ==
  LET empty == size = 0 \/ (r.first = NoFile /\ r.last \in {NoFile, 0})
      start == IF r.first # NoFile THEN r.first
               ELSE IF r.last >= size THEN 0 ELSE size - r.last
      end == IF r.first = NoFile \/ r.last = NoFile THEN size - 1
             ELSE Min({r.last, size - 1})
  IN IF r = WholeFile THEN [start |-> 0, length |-> size]
     ELSE IF empty \/ start >= size \/ end < start THEN NoFile
     ELSE [start |-> start, length |-> end - start + 1]

Slice(c, b) == SubSeq(c, b.start + 1, b.start + b.length)
Stat(i) == [ino |-> i, size |-> Len(inodes[i].data), mtime |-> inodes[i].mtime]
NoStat == [ino |-> NoFile, size |-> 0, mtime |-> 0]
Budgeted(r) == IF ByteRange(r, before.size) = NoFile THEN [start |-> 0, length |-> 0]
               ELSE ByteRange(r, before.size)
-----------------------------------------------------------------------------
FileInit ==
  /\ \E b \in Blocks :
       inodes = [i \in Inodes |-> [data |-> [n \in 1..(IF i = 1 THEN 2 ELSE 0) |-> b],
                                   mtime |-> 0, whole |-> TRUE]]
  /\ audio = 1 /\ fresh = 2
  /\ filePc = "idle" /\ fileKind = "read" /\ range = WholeFile /\ expected = <<>>
  /\ fd = NoFile /\ before = NoStat /\ got = <<>> /\ fileResult = "none"
  /\ opened = <<>> /\ removed = NoFile
  /\ touched = FALSE /\ replaced = FALSE
  /\ writes = 0 /\ fileJobs = 0 /\ fileStops = 0

\* The job ends with a report of this kind.
FileEnd(r) == filePc' = "idle" /\ fileResult' = r

\* Any failure ends the job as failed: a refusal, a broken connection, a full
\* disk, the deadline, or the kill of the process; a download removes its
\* temporary file.  An upload or a sync whose completion is not taken is left.
FileFails ==
  /\ filePc \notin {"idle", "drop"}
  /\ FileEnd(IF filePc = "report" /\ fileKind \in {"upload", "sync"}
             THEN "none" ELSE "failed")
  /\ UNCHANGED <<inodes, audio, fresh, fileKind, range, expected, fd, before, got,
                 opened, removed, touched, replaced, writes, fileJobs, fileStops>>

\* A job opens the file the path names and takes its size and time; a file over
\* the budget or a range that cannot be satisfied is refused.
StartFileJob(k, r, c) ==
  /\ filePc = "idle" /\ fileJobs < MaxFileJobs /\ fileJobs' = fileJobs + 1
  /\ fileKind' = k /\ range' = r /\ expected' = c
  /\ got' = <<>> /\ removed' = NoFile /\ touched' = FALSE /\ replaced' = FALSE
  /\ UNCHANGED <<inodes, audio, fresh, writes, fileStops>>
  /\ IF audio = NoFile
     THEN /\ FileEnd(IF k \in {"inspect", "delete"} THEN "absent" ELSE "failed")
          /\ fd' = NoFile /\ before' = NoStat /\ opened' = <<>>
     ELSE /\ fd' = audio /\ before' = Stat(audio) /\ opened' = inodes[audio].data
          /\ IF \/ before'.size > MaxSize
                \/ k = "read" /\ ByteRange(r, before'.size) = NoFile
             THEN FileEnd("failed")
             ELSE /\ filePc' = IF k \in {"inspect", "delete"} THEN "hash" ELSE "send"
                  /\ fileResult' = "none"
-----------------------------------------------------------------------------
(* Reading the file: filesystem-transfer.py read, uploadJob.               *)

\* send_audio, uploadStream: the next block, of the inode that was opened; a
\* file that became shorter fails the job.
SendBlock ==
  /\ filePc = "send"
  /\ LET b == Budgeted(range)
         at == b.start + Len(got) + 1
     IN /\ Len(got) < b.length
        /\ IF at > Len(inodes[fd].data)
           THEN FileEnd("failed") /\ UNCHANGED got
           ELSE got' = Append(got, inodes[fd].data[at]) /\ UNCHANGED <<filePc, fileResult>>
  /\ UNCHANGED <<inodes, audio, fresh, fileKind, range, expected, fd, before,
                 opened, removed, touched, replaced, writes, fileJobs, fileStops>>

\* Mutant of CheckSent: the size alone is compared.
CheckSize ==
  /\ filePc = "send" /\ Len(got) = Budgeted(range).length
  /\ IF Stat(fd).size = before.size
     THEN filePc' = "report" /\ touched' = FALSE /\ UNCHANGED fileResult
     ELSE FileEnd("failed") /\ UNCHANGED touched
  /\ UNCHANGED <<inodes, audio, fresh, fileKind, range, expected, fd, before, got,
                 opened, removed, replaced, writes, fileJobs, fileStops>>

\* Once all is sent, before or after the receiver's answer, the open file must
\* have the size and time it had (of an upload, in milliseconds).
CheckSent ==
  /\ filePc = "send" /\ Len(got) = Budgeted(range).length
  /\ IF Stat(fd) = before
     THEN filePc' = "report" /\ touched' = FALSE /\ UNCHANGED fileResult
     ELSE FileEnd("failed") /\ UNCHANGED touched
  /\ UNCHANGED <<inodes, audio, fresh, fileKind, range, expected, fd, before, got,
                 opened, removed, replaced, writes, fileJobs, fileStops>>

\* The receiver accepted the file and the completion is reported; an upload may
\* then remove the recording (deleteAfterUpload).
FileReported ==
  /\ filePc = "report"
  /\ \/ FileEnd("done")
     \/ fileKind = "upload" /\ filePc' = "drop" /\ UNCHANGED fileResult
  /\ UNCHANGED <<inodes, audio, fresh, fileKind, range, expected, fd, before, got,
                 opened, removed, touched, replaced, writes, fileJobs, fileStops>>

\* uploadJob removes the recording by its path; a removal that fails is logged.
DropRecording ==
  /\ filePc = "drop"
  /\ \/ /\ audio # NoFile
        /\ removed' = inodes[audio].data /\ audio' = NoFile
     \/ UNCHANGED <<audio, removed>>
  /\ FileEnd("done")
  /\ UNCHANGED <<inodes, fresh, fileKind, range, expected, fd, before, got,
                 opened, touched, replaced, writes, fileJobs, fileStops>>
-----------------------------------------------------------------------------
(* inspect_or_delete                                                       *)

HashBlock ==
  /\ filePc = "hash" /\ Len(got) < Len(inodes[fd].data)
  /\ got' = Append(got, inodes[fd].data[Len(got) + 1])
  /\ UNCHANGED <<inodes, audio, fresh, filePc, fileKind, range, expected, fd, before,
                 fileResult, opened, removed, touched, replaced, writes, fileJobs, fileStops>>

\* At the end of the file the digest must be the expected one and the open file
\* the one that was opened.
CheckDigest ==
  /\ filePc = "hash" /\ Len(got) >= Len(inodes[fd].data)
  /\ IF got = expected /\ Stat(fd) = before
     THEN IF fileKind = "delete" THEN filePc' = "stat" /\ UNCHANGED fileResult
          ELSE FileEnd("done")
     ELSE FileEnd("failed")
  /\ UNCHANGED <<inodes, audio, fresh, fileKind, range, expected, fd, before, got,
                 opened, removed, touched, replaced, writes, fileJobs, fileStops>>

\* Mutant of StatName: the path is not checked again.
StatOpen ==
  /\ filePc = "stat"
  /\ filePc' = "unlink" /\ touched' = FALSE /\ UNCHANGED fileResult
  /\ UNCHANGED <<inodes, audio, fresh, fileKind, range, expected, fd, before, got,
                 opened, removed, replaced, writes, fileJobs, fileStops>>

\* The path must still name that inode, unchanged.
StatName ==
  /\ filePc = "stat"
  /\ IF audio # NoFile /\ Stat(audio) = before
     THEN filePc' = "unlink" /\ touched' = FALSE /\ UNCHANGED fileResult
     ELSE FileEnd("failed") /\ UNCHANGED touched
  /\ UNCHANGED <<inodes, audio, fresh, fileKind, range, expected, fd, before, got,
                 opened, removed, replaced, writes, fileJobs, fileStops>>

\* The path is unlinked by name.
UnlinkAudio ==
  /\ filePc = "unlink"
  /\ IF audio = NoFile THEN FileEnd("failed") /\ UNCHANGED <<audio, removed>>
     ELSE /\ removed' = inodes[audio].data /\ audio' = NoFile
          /\ filePc' = "report" /\ UNCHANGED fileResult
  /\ UNCHANGED <<inodes, fresh, fileKind, range, expected, fd, before, got,
                 opened, touched, replaced, writes, fileJobs, fileStops>>
-----------------------------------------------------------------------------
(* syncMediaFileJob                                                        *)

\* A removal takes whatever the path names, or nothing.
RemoveMedia ==
  /\ filePc = "idle" /\ fileJobs < MaxFileJobs /\ fileJobs' = fileJobs + 1
  /\ fileKind' = "remove"
  /\ \/ audio' = NoFile /\ FileEnd("done")
     \/ UNCHANGED audio /\ FileEnd("failed")
  /\ UNCHANGED <<inodes, fresh, range, expected, fd, before, got, opened, removed,
                 touched, replaced, writes, fileStops>>

\* Mutant of StartMediaSync: the download is written to the destination.
DownloadInPlace(c) ==
  /\ filePc = "idle" /\ fileJobs < MaxFileJobs /\ fileJobs' = fileJobs + 1
  /\ fileKind' = "sync" /\ expected' = c /\ got' = <<>> /\ fd' = fresh
  /\ inodes' = [inodes EXCEPT ![fresh] = [data |-> <<>>, mtime |-> 0, whole |-> c = <<>>]]
  /\ fresh' = fresh + 1 /\ audio' = fresh
  /\ filePc' = "download" /\ fileResult' = "none"
  /\ UNCHANGED <<range, before, opened, removed, touched, replaced, writes, fileStops>>

\* A download of this content starts into a temporary file of its own.
StartMediaSync(c) ==
  /\ filePc = "idle" /\ fileJobs < MaxFileJobs /\ fileJobs' = fileJobs + 1
  /\ fileKind' = "sync" /\ expected' = c /\ got' = <<>> /\ fd' = fresh
  /\ inodes' = [inodes EXCEPT ![fresh] = [data |-> <<>>, mtime |-> 0, whole |-> c = <<>>]]
  /\ fresh' = fresh + 1
  /\ filePc' = "download" /\ fileResult' = "none"
  /\ UNCHANGED <<audio, range, before, opened, removed, touched, replaced, writes, fileStops>>

\* The next block of the body, inside the byte budget.
DownloadBlock ==
  /\ filePc = "download" /\ Len(got) < Len(expected)
  /\ IF Len(got) = MaxSize THEN FileEnd("failed") /\ UNCHANGED <<got, inodes>>
     ELSE /\ got' = Append(got, expected[Len(got) + 1])
          /\ inodes' = [inodes EXCEPT ![fd] = [data |-> got', mtime |-> inodes[fd].mtime,
                                               whole |-> got' = expected]]
          /\ UNCHANGED <<filePc, fileResult>>
  /\ UNCHANGED <<audio, fresh, fileKind, range, expected, fd, before,
                 opened, removed, touched, replaced, writes, fileJobs, fileStops>>

\* The body ended without an error: the temporary file takes the destination's name.
\* The code compares no length or digest; got = expected is what fetch is trusted with,
\* to end a body that was cut short with an error (FileFails).
RenameDownload ==
  /\ filePc = "download" /\ got = expected
  /\ audio' = fd
  /\ filePc' = "report" /\ UNCHANGED fileResult
  /\ UNCHANGED <<inodes, fresh, fileKind, range, expected, fd, before, got,
                 opened, removed, touched, replaced, writes, fileJobs, fileStops>>
-----------------------------------------------------------------------------
(* The host and the process.                                               *)

\* What one write makes of a content: a block changed, one more, or nothing left.
Written(c) ==
  {[c EXCEPT ![n] = b] : n \in 1..Len(c), b \in Blocks}
    \cup (IF Len(c) > MaxSize THEN {} ELSE {Append(c, b) : b \in Blocks})
    \cup {<<>>}

\* The host acts on the file: every write advances its modification time.
HostActs ==
  /\ writes < MaxWrites /\ writes' = writes + 1
  /\ touched' = TRUE
  /\ \/ /\ audio # NoFile /\ UNCHANGED <<audio, fresh, replaced>>
        /\ \E d \in Written(inodes[audio].data) :
             inodes' = [inodes EXCEPT ![audio] = [data |-> d, mtime |-> writes + 1,
                                                  whole |-> TRUE]]
     \/ /\ \E b \in Blocks :
             inodes' = [inodes EXCEPT ![fresh] = [data |-> <<b, b>>,
                                                  mtime |-> writes + 1, whole |-> TRUE]]
        /\ audio' = fresh /\ fresh' = fresh + 1 /\ replaced' = TRUE
     \/ /\ audio # NoFile /\ audio' = NoFile /\ replaced' = TRUE
        /\ UNCHANGED <<inodes, fresh>>
  /\ UNCHANGED <<filePc, fileKind, range, expected, fd, before, got, fileResult,
                 opened, removed, fileJobs, fileStops>>

\* The Agent and its child processes stop; nothing cleans up after them.
FileStop ==
  /\ fileStops < MaxFileStops /\ fileStops' = fileStops + 1
  /\ filePc # "idle" /\ FileEnd("none")
  /\ UNCHANGED <<inodes, audio, fresh, fileKind, range, expected, fd, before, got,
                 opened, removed, touched, replaced, writes, fileJobs>>

FileNext ==
  \/ \E r \in Ranges \cup {WholeFile} : StartFileJob("read", r, <<>>)
  \/ StartFileJob("upload", WholeFile, <<>>)
  \/ \E k \in {"inspect", "delete"}, c \in Contents : StartFileJob(k, WholeFile, c)
  \/ \E c \in Contents : StartMediaSync(c)
  \/ RemoveMedia
  \/ SendBlock \/ CheckSent \/ FileReported \/ DropRecording
  \/ HashBlock \/ CheckDigest \/ StatName \/ UnlinkAudio
  \/ DownloadBlock \/ RenameDownload
  \/ FileFails \/ FileStop \/ HostActs

FileSpec == FileInit /\ [][FileNext]_fileVars
-----------------------------------------------------------------------------
(* Properties.                                                             *)

\* Every variable keeps its type (filesystem-transfer.py, main.ts).
FileTypeOK ==
  /\ inodes \in [Inodes -> Inode] /\ audio \in Inodes \cup {NoFile} /\ fresh \in Nat
  /\ filePc \in {"idle", "send", "report", "drop", "hash", "stat", "unlink", "download"}
  /\ fileKind \in FileKinds /\ range \in Ranges \cup {WholeFile} /\ expected \in Contents
  /\ fd \in Inodes \cup {NoFile}
  /\ before \in [ino : Inodes \cup {NoFile}, size : Nat, mtime : Nat]
  /\ got \in Contents /\ opened \in Contents /\ removed \in Contents \cup {NoFile}
  /\ fileResult \in {"none", "done", "failed", "absent"}
  /\ touched \in BOOLEAN /\ replaced \in BOOLEAN
  /\ writes \in Nat /\ fileJobs \in Nat /\ fileStops \in Nat

\* A read or an upload reported as complete sent exactly the asked part of one
\* version of the file, never a mixture of two, whatever the host wrote while the
\* blocks were sent, each write with a time of its own; an inspected file is the
\* expected one (transfer, uploadJob,
\* "Upload file changed during transfer.").
SentIsOneVersion ==
  fileResult = "done" =>
    /\ fileKind \in {"read", "upload"} => got = Slice(opened, ByteRange(range, Len(opened)))
    /\ fileKind \in {"inspect", "delete"} => opened = expected

\* What a delete removes is what it checked, unless the host acted after its last
\* look at the path, and what an upload removes is what it sent, unless the host
\* wrote after its last look at the open file, or gave the path another file at any
\* moment since the open, as an upload does not look at the path again (inspect_or_delete "Only an exact canonical
\* API-media object can be inspected or retired", uploadJob).
RemovedWasChecked ==
  removed # NoFile /\ ~touched =>
    /\ fileKind = "delete" => removed = expected
    /\ fileKind = "upload" /\ ~replaced => removed = got

\* The destination of a media sync never holds part of a download, and a failed
\* sync did not put its file there, whichever block, budget, deadline or process
\* failed, as long as fetch reports every body that was cut short (syncMediaFileJob,
\* "destination preserved").
DestinationPreserved ==
  /\ audio # NoFile => inodes[audio].whole
  /\ fileKind = "sync" /\ fileResult = "failed" => audio # fd
=============================================================================
