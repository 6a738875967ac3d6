------------------------------ MODULE LogTailer ------------------------------
(***************************************************************************)
(* C1 (services/c1-ingestion): LogTailer.poll on one access log, system    *)
(* call by system call (glob, stat, stat, open and read), and              *)
(* publish_cycle, beside Nginx, which writes to its open file, and the     *)
(* rotation of that file: rename, perhaps create, reopen; or truncation.   *)
(*                                                                         *)
(* The log is counted in bytes; line n is the bytes 2n-1, its text, and    *)
(* 2n, its newline.  A file is the sequence of the bytes written to it.    *)
(***************************************************************************)
EXTENDS Integers, Sequences, FiniteSets, Functions, Subsequences

CONSTANTS ReadExisting, \* C1_READ_EXISTING
          MaxBytes,     \* bound on what Nginx writes
          MaxFiles,     \* bound on the files of a behaviour: one more than its rotations
          MaxCuts,      \* bound on truncations
          MaxFaults     \* bound on restarts of C1 and failed publishes

ASSUME TailerAssumption ==
  /\ ReadExisting \in BOOLEAN
  /\ MaxBytes \in Nat /\ MaxFiles \in Nat \ {0} /\ MaxCuts \in Nat /\ MaxFaults \in Nat

VARIABLES
  \* the file system and Nginx
  content,      \* content[i]: the bytes of inode i
  files,        \* inodes in use: 1..files
  name,         \* inode of access.log, NoFile when there is none
  fd,           \* inode Nginx writes to
  written,      \* bytes written
  cuts,         \* truncations
  \* C1
  pc,           \* "sync", "track", "stat", "read" or "publish"
  initialized,  \* _initialized
  state,        \* _FileState of access.log: [inode, offset, buf], or NotTracked
  batch,        \* lines of this poll, not published yet
  \* the topic
  stored,       \* lines in log.raw.ingested
  lost,         \* lines whose publish failed
  \* history and bound
  collected,    \* lines collected by this incarnation of C1, in order
  skipped,      \* bytes Nginx had written when C1 made its first poll; 0 with ReadExisting
  cut,          \* access.log was truncated since C1 last called stat
  raced,        \* C1 read from a file that was no longer the one it had looked at
  faults

fileVars == <<content, files, name, fd, written, cuts>>
topicVars == <<stored, lost>>
vars == <<fileVars, pc, initialized, state, batch, topicVars, collected, skipped, cut, raced, faults>>

NoFile == 0
NotTracked == [inode |-> -1, offset |-> 0, buf |-> <<>>]

Newline(byte) == byte % 2 = 0
WholeLine(n) == <<2 * n - 1, 2 * n>>
Last(line) == line[Len(line)]
Lines == 1..(MaxBytes \div 2)

-----------------------------------------------------------------------------
Init ==
  /\ content = [i \in 1..MaxFiles |-> <<>>]
  /\ files = 1 /\ name = 1 /\ fd = 1
  /\ written = 0 /\ cuts = 0
  /\ pc = "sync" /\ initialized = FALSE /\ state = NotTracked /\ batch = <<>>
  /\ stored = {} /\ lost = {}
  /\ collected = <<>> /\ skipped = 0 /\ cut = FALSE /\ raced = FALSE
  /\ faults = 0

Fault == faults < MaxFaults /\ faults' = faults + 1

-----------------------------------------------------------------------------
(* Nginx and logrotate.                                                    *)

\* What the environment does not touch.
tailerVars == <<pc, initialized, state, batch, topicVars, collected, skipped, raced, faults>>

\* The next part of a line goes to the end of the open file (O_APPEND).
Write ==
  /\ written < MaxBytes
  /\ written' = written + 1
  /\ content' = [content EXCEPT ![fd] = Append(@, written + 1)]
  /\ UNCHANGED <<files, name, fd, cuts, cut, tailerVars>>

\* mv access.log access.log.1: Nginx goes on writing to the renamed file.
Rename ==
  /\ name # NoFile /\ files < MaxFiles
  /\ name' = NoFile
  /\ UNCHANGED <<content, files, fd, written, cuts, cut, tailerVars>>

\* logrotate's create, before Nginx is told to reopen.
Create ==
  /\ name = NoFile
  /\ files' = files + 1 /\ name' = files + 1
  /\ UNCHANGED <<content, fd, written, cuts, cut, tailerVars>>

\* nginx -s reopen, between two lines; it creates the file if there is none.
Reopen ==
  /\ fd # name /\ ~Newline(written + 1)
  /\ IF name = NoFile THEN files' = files + 1 /\ name' = files + 1
     ELSE UNCHANGED <<files, name>>
  /\ fd' = name'
  /\ UNCHANGED <<content, written, cuts, cut, tailerVars>>

\* The file is emptied in place, between two lines.
Truncate ==
  /\ name # NoFile /\ cuts < MaxCuts /\ ~Newline(written + 1)
  /\ cuts' = cuts + 1 /\ cut' = TRUE
  /\ content' = [content EXCEPT ![name] = <<>>]
  /\ UNCHANGED <<files, name, fd, written, tailerVars>>

-----------------------------------------------------------------------------
(* C1: one poll.                                                           *)

FirstPoll == IF initialized \/ ReadExisting THEN skipped ELSE written

\* _discover and the rest of _sync_files: a file that is gone is forgotten.
Sync ==
  /\ pc = "sync"
  /\ IF name = NoFile THEN state' = NotTracked /\ initialized' = TRUE /\ UNCHANGED pc
     ELSE IF state = NotTracked THEN pc' = "track" /\ UNCHANGED <<state, initialized>>
     ELSE pc' = "stat" /\ initialized' = TRUE /\ UNCHANGED state
  /\ skipped' = IF name = NoFile THEN FirstPoll ELSE skipped
  /\ UNCHANGED <<fileVars, batch, topicVars, collected, cut, raced, faults>>

\* Faulty variant of Track: a file that appears later is read from its end as well.
TrackFromEnd ==
  /\ pc = "track"
  /\ LET offset == IF ReadExisting \/ name = NoFile THEN 0 ELSE Len(content[name]) IN
     state' = [inode |-> name, offset |-> offset, buf |-> <<>>]
  /\ pc' = "stat" /\ initialized' = TRUE /\ cut' = FALSE
  /\ skipped' = FirstPoll
  /\ UNCHANGED <<fileVars, batch, topicVars, collected, raced, faults>>

\* _new_state: only a file of the first poll is read from its end.  When stat fails the
\* inode is 0, which no file has.
Track ==
  /\ pc = "track"
  /\ LET fromEnd == ~initialized /\ ~ReadExisting
         offset == IF fromEnd /\ name # NoFile THEN Len(content[name]) ELSE 0 IN
     state' = [inode |-> name, offset |-> offset, buf |-> <<>>]
  /\ pc' = "stat" /\ initialized' = TRUE /\ cut' = FALSE
  /\ skipped' = FirstPoll
  /\ UNCHANGED <<fileVars, batch, topicVars, collected, raced, faults>>

\* Faulty variant of Reset: the half line of the old file stays in the buffer.
ResetButBuffer(inode) == state' = [state EXCEPT !.inode = inode, !.offset = 0]

Reset(inode) == state' = [inode |-> inode, offset |-> 0, buf |-> <<>>]

\* The path leads to another file, or to the same one, now shorter.
Replaced(size) == name # state.inode \/ size < state.offset

\* _read_new_lines up to the comparison of sizes: rotated, truncated, unchanged or grown.
Stat ==
  /\ pc = "stat"
  /\ cut' = FALSE
  /\ IF name = NoFile
     THEN /\ state' = NotTracked /\ pc' = "sync"
          /\ UNCHANGED raced
     ELSE LET size == Len(content[name])
              other == Replaced(size) IN
          /\ IF other THEN Reset(name) ELSE UNCHANGED state
          /\ pc' = IF size = (IF other THEN 0 ELSE state.offset) THEN "sync" ELSE "read"
          /\ raced' = (raced \/ (cut /\ ~other /\ state.offset > 0))
  /\ UNCHANGED <<fileVars, initialized, batch, topicVars, collected, skipped, faults>>

\* The positions of the newlines of data.
Ends(data) == {i \in DOMAIN data : Newline(data[i])}

\* The position of the n-th newline; line n ends there, and the next one begins after it.
End(data, n) == IF n = 0 THEN 0 ELSE Nth(Ends(data), n)

\* _split_lines: the complete lines of data, and what is left of it.
LinesOf(data) ==
  [n \in 1..Cardinality(Ends(data)) |-> SubSeq(data, End(data, n - 1) + 1, End(data, n))]

\* Faulty variant of Rest: the last newline stays in the buffer.
RestWithNewline(data) ==
  LET end == End(data, Cardinality(Ends(data))) IN
  SubSeq(data, IF end = 0 THEN 1 ELSE end, Len(data))

Rest(data) == SubSeq(data, End(data, Cardinality(Ends(data))) + 1, Len(data))

\* _read_chunk opens the path again; then _split_lines.  A file that cannot be opened, or
\* with nothing at the offset, leaves everything as it is.
Read ==
  /\ pc = "read"
  /\ LET chunk == IF name = NoFile THEN <<>>
                  ELSE SubSeq(content[name], state.offset + 1, Len(content[name]))
         data == state.buf \o chunk IN
     /\ batch' = LinesOf(data)
     /\ collected' = collected \o LinesOf(data)
     /\ state' = [state EXCEPT !.offset = @ + Len(chunk), !.buf = Rest(data)]
     /\ pc' = IF LinesOf(data) = <<>> THEN "sync" ELSE "publish"
     /\ raced' = (raced \/ (chunk # <<>> /\ (name # state.inode \/ (cut /\ state.offset > 0))))
  /\ UNCHANGED <<fileVars, initialized, topicVars, skipped, cut, faults>>

\* publish_cycle: every line confirmed; or a DeliveryError, after which the lines the broker
\* has not stored are gone.
Publish ==
  /\ pc = "publish"
  /\ \/ stored' = stored \cup Range(batch) /\ UNCHANGED <<lost, faults>>
     \/ /\ Fault
        /\ \E some \in SUBSET Range(batch) :
             stored' = stored \cup some /\ lost' = lost \cup (Range(batch) \ some)
  /\ batch' = <<>> /\ pc' = "sync"
  /\ UNCHANGED <<fileVars, initialized, state, collected, skipped, cut, raced>>

\* C1 ends anywhere and is started again; what it had sent may have been stored.
Restart ==
  /\ Fault
  /\ \E some \in SUBSET Range(batch) : stored' = stored \cup some
  /\ pc' = "sync" /\ initialized' = FALSE /\ state' = NotTracked /\ batch' = <<>>
  /\ collected' = <<>>
  /\ UNCHANGED <<fileVars, lost, skipped, cut, raced>>

-----------------------------------------------------------------------------
Next ==
  \/ Write \/ Rename \/ Create \/ Reopen \/ Truncate
  \/ Sync \/ Track \/ Stat \/ Read \/ Publish \/ Restart

Spec == Init /\ [][Next]_vars

\* run_loop polls for ever: system calls and flush() return, exceptions are caught.
Fairness == WF_vars(Sync) /\ WF_vars(Track) /\ WF_vars(Stat) /\ WF_vars(Read) /\ WF_vars(Publish)

FairSpec == Spec /\ Fairness

-----------------------------------------------------------------------------
(* Properties *)

Bytes == 1..MaxBytes

\* Types; what is kept between two polls is at most one line without its newline.
TypeOK ==
  /\ content \in [1..MaxFiles -> Seq(Bytes)]
  /\ files \in 1..MaxFiles /\ name \in 0..files /\ fd \in 1..files
  /\ written \in 0..MaxBytes /\ cuts \in 0..MaxCuts
  /\ pc \in {"sync", "track", "stat", "read", "publish"}
  /\ initialized \in BOOLEAN /\ cut \in BOOLEAN /\ raced \in BOOLEAN
  /\ state \in [inode : -1..files, offset : Nat, buf : Seq(Bytes)]
  /\ ~raced => Len(state.buf) <= 1 /\ Range(state.buf) \cap {b \in Bytes : Newline(b)} = {}
  /\ pc = "publish" <=> batch # <<>>
  /\ skipped \in 0..written
  /\ faults \in 0..MaxFaults

\* tailer.py:4, "chi phat ra dong da ket thuc bang '\n'": every line collected is a whole
\* line of the log, whatever is written between the system calls of a poll, and across
\* rotations and truncations; only the first may be the rest of a line that C1 found half
\* written when it started.  Two things break it: access.log is replaced between stat and
\* open, or truncated and filled again past the offset between two polls.
LinesAreWhole ==
  ~raced => \A i \in DOMAIN collected :
              \/ \E n \in Lines : collected[i] = WholeLine(n)
              \/ i = 1 /\ ~ReadExisting /\ Len(collected[i]) = 1

\* One incarnation of C1 collects no line twice, and keeps the order of the log, also when
\* the file grows between stat and read.
CollectedInOrder ==
  ~raced => \A i, j \in DOMAIN collected : i < j => Last(collected[i]) < Head(collected[j])

\* A line is in access.log; it was there, or half of it, before C1 started.
InFile(n) == name # NoFile /\ 2 * n \in Range(content[name])
Skipped(n) == 2 * n - 1 <= skipped

\* The file C1 follows is still access.log, and no shorter than what C1 read of it.
Settled == name # NoFile /\ state.inode = name /\ state.offset <= Len(content[name])

\* It was truncated all the same, which C1 does not notice when it has grown again.
Misled == Settled /\ cut /\ state.offset > 0

\* C1 passes over no line of the file it follows: those before its offset are stored, or
\* about to be published, or their publish failed, or they were there before C1 started.
NonePassedOver ==
  ~raced /\ Settled /\ ~Misled =>
    \A n \in Lines, k \in 1..state.offset :
      content[name][k] = 2 * n => WholeLine(n) \in stored \cup lost \cup Range(batch) \/ Skipped(n)

\* What C1 collects is the log, as a reader of whole lines sees it.
LinesAreTheLog == LinesAreWhole /\ CollectedInOrder /\ NonePassedOver

\* A line that stays in access.log is published, or its publish failed, or it was there
\* before C1 started.
EveryLinePublished ==
  \A n \in Lines :
    InFile(n) ~> WholeLine(n) \in stored \cup lost \/ ~InFile(n) \/ Skipped(n) \/ raced
=============================================================================
