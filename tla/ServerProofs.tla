--------------------------- MODULE ServerProofs ----------------------------
(***************************************************************************)
(* Theorems about what the processes and threads of the server share: the  *)
(* files and the Redis connections of the cache, the passphrase by which   *)
(* cookies and entries are encrypted, the configuration that they start    *)
(* from, and the metrics that they add up.                                 *)
(* A read of the file cache returns a value that was written, whole. A     *)
(* change of the passphrase loses nothing as long as the previous one is   *)
(* kept for a lifetime. No two requests use one connection to Redis. A     *)
(* server that runs has a whole configuration. Every event is counted      *)
(* once.                                                                   *)
(***************************************************************************)
EXTENDS FileCache, Passphrase, RedisPool, Configuration, Metrics, FiniteSetTheorems,
        SequenceTheorems, WellFoundedInduction, TLAPS

-----------------------------------------------------------------------------
(* The file cache                                                            *)

\* What a process has written is as far as its program has come, and it is
\* the only one that writes to its file.
Writing == {"open", "write"}
WritersApart ==
    /\ \A p \in FileWorkers : w[p].pc \in Writing \cup {"rename"} => w[p].ino \in 1 .. born
    /\ \A p \in FileWorkers : w[p].pc \in Writing => file[w[p].ino].fill # "full"
    /\ \A p \in FileWorkers : w[p].pc = "rename" => file[w[p].ino].fill = "full"
    /\ \A p, q \in FileWorkers :
         p # q /\ w[p].pc \in Writing /\ w[q].pc \in Writing => w[p].ino # w[q].ino
    /\ \A i \in Inodes : i > born => file[i].fill = "empty"

\* The file of the key, and the one that a get has open, is whole.
KeyFileWhole ==
    /\ dir[0] # 0 => dir[0] = current /\ file[dir[0]].fill = "full"
    /\ \A p \in FileWorkers : w[p].pc = "read" =>
         w[p].ino # 0 /\ file[w[p].ino].fill = "full" /\ w[p].ino \in w[p].seen

\* What a get has answered with is whole and was seen under the key, and only
\* a worker at rest has an answer.
Answers ==
    \A p \in FileWorkers :
        /\ w[p].pc # "idle" => w[p].got = "none"
        /\ w[p].got # "torn"
        /\ w[p].got = "hit" => w[p].ino \in w[p].seen
        /\ w[p].pc \in {"list", "inspect", "same", "remove"} => w[p].wants # "none"

\* The inductive invariant of the file cache.
FileInv == FileTypeOK /\ WritersApart /\ KeyFileWhole /\ Answers

\* An empty directory satisfies the invariant.
LEMMA FileInitInv == FileInit => FileInv
  BY FileAssumption DEF FileInit, FileInv, FileTypeOK, WritersApart, KeyFileWhole, Answers, Quiet, Names, Inodes, Fill, Writing

\* The states of a worker and of a file.
FStates == [pc : {"idle", "open", "write", "rename", "read", "list", "inspect",
                                    "same", "remove", "delete", "put"},
                              ino : Names, name : Names, todo : SUBSET Names,
                              wants : {"none", "put", "delete"}, seen : SUBSET Names,
                              got : {"none", "miss", "hit", "torn"}]

Files == [fill : Fill, expired : BOOLEAN, lock : FileWorkers \cup {0}]

\* The types of the parts, for one worker and one file.
LEMMA FileTypes ==
    ASSUME FileInv
    PROVE  /\ w \in [FileWorkers -> FStates] /\ \A p \in FileWorkers : w[p] \in FStates
           /\ dir \in [Names -> Names] /\ \A n \in Names : dir[n] \in Names
           /\ 0 \in Names /\ dir[0] \in Names /\ current \in Names /\ born \in Names
           /\ file \in [Inodes -> Files] /\ \A i \in Inodes : file[i] \in Files
<1>1. w \in [FileWorkers -> FStates]
  BY DEF FileInv, FileTypeOK, FStates
<1>2. 0 \in Names
  BY FileAssumption DEF Names
<1> QED
  BY <1>1, <1>2 DEF FileInv, FileTypeOK, Files

\* A step of a process after which it does not write, that writes to no file
\* and gives the key no other one.
LEMMA QuietStep ==
    ASSUME FileInv, NEW p \in FileWorkers, NEW s \in FStates, w' = [w EXCEPT ![p] = s],
           current' = current, born' = born,
           dir' \in [Names -> Names], dir'[0] \in {0, dir[0]},
           file' \in [Inodes -> Files], \A i \in Inodes : file'[i].fill = file[i].fill,
           s.pc \notin Writing \cup {"rename"},
           s.pc = "read" => s.ino # 0 /\ file[s.ino].fill = "full" /\ s.ino \in s.seen,
           s.pc # "idle" => s.got = "none", s.got # "torn",
           s.got = "hit" => s.ino \in s.seen,
           s.pc \in {"list", "inspect", "same", "remove"} => s.wants # "none"
    PROVE  FileInv'
<1>1. w \in [FileWorkers -> FStates]
  BY DEF FileInv, FileTypeOK, FStates
<1>2. w' \in [FileWorkers -> FStates] /\ w'[p] = s /\ \A q \in FileWorkers \ {p} : w'[q] = w[q]
  BY <1>1
<1>3. FileTypeOK'
  BY <1>2 DEF FileInv, FileTypeOK, FStates, Files
<1>4. WritersApart'
  <2>1. \A q \in FileWorkers : w[q].pc \in Writing \cup {"rename"} => w[q].ino \in Inodes
    BY FileAssumption DEF FileInv, FileTypeOK, WritersApart, Inodes, Names
  <2> QED
    BY <1>2, <2>1 DEF FileInv, WritersApart
<1>5. KeyFileWhole'
  <2>1. /\ dir[0] # 0 => dir[0] \in Inodes
        /\ \A q \in FileWorkers : w'[q].pc = "read" /\ w'[q].ino # 0 => w'[q].ino \in Inodes
    <3>1. \A n \in Names : n # 0 => n \in Inodes
      BY FileAssumption DEF Inodes, Names
    <3>2. dir[0] \in Names /\ \A q \in FileWorkers : w'[q].ino \in Names
      BY <1>2, FileTypes DEF FStates
    <3> QED
      BY <3>1, <3>2
  <2> QED
    BY <1>2, <2>1 DEF FileInv, KeyFileWhole
<1>6. Answers'
  BY <1>2 DEF FileInv, Answers
<1> QED
  BY <1>3, <1>4, <1>5, <1>6 DEF FileInv

\* The same where the directory and the files are left alone.
LEMMA LocalStep ==
    ASSUME FileInv, NEW p \in FileWorkers, NEW s \in FStates, w' = [w EXCEPT ![p] = s],
           UNCHANGED <<dir, file, current, born>>,
           s.pc \notin Writing \cup {"rename"},
           s.pc = "read" => s.ino # 0 /\ file[s.ino].fill = "full" /\ s.ino \in s.seen,
           s.pc # "idle" => s.got = "none", s.got # "torn",
           s.got = "hit" => s.ino \in s.seen,
           s.pc \in {"list", "inspect", "same", "remove"} => s.wants # "none"
    PROVE  FileInv'
  BY FileTypes, QuietStep

\* A worker at rest.
LEMMA QuietType == Quiet \in FStates /\ Quiet.pc = "idle" /\ Quiet.got = "none"
  BY FileAssumption DEF Quiet, FStates, Names

\* The steps of a get.
LEMMA GetStep ==
    ASSUME FileInv, NEW p \in FileWorkers, OpenForGet(p) \/ ReadValue(p)
    PROVE  FileInv'
<1>1. w[p] \in FStates /\ dir[0] \in Names /\ current \in Names
  BY FileTypes
<1>2. CASE OpenForGet(p)
  <2> DEFINE s == IF dir[0] = 0 THEN [Quiet EXCEPT !.got = "miss"]
                   ELSE [Quiet EXCEPT !.pc = "read", !.ino = dir[0], !.seen = {current}]
  <2>1. s \in FStates
    BY <1>1, QuietType DEF FStates
  <2>2. /\ s.pc \in {"idle", "read"} /\ s.got \in {"none", "miss"}
        /\ s.pc = "read" => s.ino = dir[0] /\ dir[0] # 0 /\ s.seen = {current} /\ s.got = "none"
    BY DEF Quiet
  <2>3. w' = [w EXCEPT ![p] = s] /\ UNCHANGED <<dir, file, current, born>>
    BY <1>2 DEF OpenForGet, Step
  <2> HIDE DEF s
  <2>4. s.pc = "read" => s.ino # 0 /\ file[s.ino].fill = "full" /\ s.ino \in s.seen
    BY <2>2 DEF FileInv, KeyFileWhole
  <2> QED
    BY <2>1, <2>2, <2>3, <2>4, LocalStep DEF Writing
<1>3. CASE ReadValue(p)
  <2> DEFINE f == file[w[p].ino]
             s == [w[p] EXCEPT !.pc = "idle",
                     !.got = IF f.fill # "full" THEN "torn" ELSE IF f.expired THEN "miss" ELSE "hit"]
  <2>1. s \in FStates /\ s.pc = "idle" /\ s.ino = w[p].ino /\ s.seen = w[p].seen
    BY <1>1 DEF FStates
  <2>2. w[p].pc = "read" /\ f.fill = "full" /\ w[p].ino \in w[p].seen
    BY <1>3 DEF ReadValue, FileInv, KeyFileWhole
  <2>3. s.got \in {"miss", "hit"}
    BY <1>1, <2>2 DEF FStates
  <2>4. w' = [w EXCEPT ![p] = s] /\ UNCHANGED <<dir, file, current, born>>
    BY <1>3 DEF ReadValue, Step
  <2> HIDE DEF s, f
  <2> QED
    BY <2>1, <2>2, <2>3, <2>4, LocalStep DEF Writing
<1> QED
  BY <1>2, <1>3

\* The steps of the clean-up of expired files.
LEMMA CleanStep ==
    ASSUME FileInv, NEW p \in FileWorkers,
           StartSet(p) \/ ListDirectory(p) \/ InspectEntry(p) \/ CheckSame(p)
    PROVE  FileInv'
<1>1. w[p] \in FStates /\ \A n \in Names : dir[n] \in Names
  BY FileTypes
<1>2. ASSUME NEW s \in FStates, w' = [w EXCEPT ![p] = s], UNCHANGED <<dir, file, current, born>>,
             s.pc \in {"list", "inspect", "same", "remove", "put", "delete"}, s.got = "none", s.wants # "none"
      PROVE  FileInv'
  BY <1>2, LocalStep DEF Writing
<1>3. CASE StartSet(p)
  <2>1. PICK wants \in {"put", "delete"}, due \in BOOLEAN :
          w' = [w EXCEPT ![p] = [Quiet EXCEPT !.wants = wants, !.pc = IF due THEN "list" ELSE wants]]
    BY <1>3 DEF StartSet, Step
  <2> DEFINE s == [Quiet EXCEPT !.wants = wants, !.pc = IF due THEN "list" ELSE wants]
  <2>2. s \in FStates /\ s.pc \in {"list", "put", "delete"} /\ s.got = "none" /\ s.wants # "none"
    BY QuietType DEF FStates
  <2> QED
    BY <1>2, <1>3, <2>1, <2>2 DEF StartSet
<1>4. ASSUME w[p].pc \in {"list", "inspect", "same", "remove"}
      PROVE  w[p].wants \in {"put", "delete"} /\ w[p].got = "none"
  BY <1>1, <1>4 DEF FileInv, Answers, FStates
<1>5. CASE ListDirectory(p)
  <2> DEFINE s == [w[p] EXCEPT !.pc = "inspect", !.todo = {n \in Names : dir[n] # 0}]
  <2>1. s \in FStates /\ s.pc = "inspect" /\ s.wants = w[p].wants /\ s.got = w[p].got
    BY <1>1 DEF FStates
  <2>2. w' = [w EXCEPT ![p] = s] /\ UNCHANGED <<dir, file, current, born>> /\ w[p].pc = "list"
    BY <1>5 DEF ListDirectory, Step
  <2> QED
    BY <1>2, <1>4, <2>1, <2>2
<1>6. CASE InspectEntry(p)
  <2>1. UNCHANGED <<dir, file, current, born>> /\ w[p].pc = "inspect"
    BY <1>6 DEF InspectEntry
  <2>2. CASE w' = [w EXCEPT ![p] = [w[p] EXCEPT !.pc = w[p].wants]]
    <3> DEFINE s == [w[p] EXCEPT !.pc = w[p].wants]
    <3>1. s \in FStates /\ s.pc = w[p].wants /\ s.wants = w[p].wants /\ s.got = w[p].got
      BY <1>1, <1>4, <2>1 DEF FStates
    <3> QED
      BY <1>2, <1>4, <2>1, <2>2, <3>1
  <2>3. ASSUME NEW n \in w[p].todo,
               \/ w' = [w EXCEPT ![p] = [[w[p] EXCEPT !.todo = @ \ {n}] EXCEPT !.pc = "same", !.name = n, !.ino = dir[n]]]
               \/ w' = [w EXCEPT ![p] = [w[p] EXCEPT !.todo = @ \ {n}]]
        PROVE  FileInv'
    <3>1. n \in Names /\ dir[n] \in Names
      BY <1>1 DEF FStates
    <3> DEFINE s == [[w[p] EXCEPT !.todo = @ \ {n}] EXCEPT !.pc = "same", !.name = n, !.ino = dir[n]]
               t == [w[p] EXCEPT !.todo = @ \ {n}]
    <3>2. /\ s \in FStates /\ s.pc = "same" /\ s.wants = w[p].wants /\ s.got = w[p].got
          /\ t \in FStates /\ t.pc = w[p].pc /\ t.wants = w[p].wants /\ t.got = w[p].got
      BY <1>1, <3>1 DEF FStates
    <3> QED
      BY <1>2, <1>4, <2>1, <2>3, <3>2
  <2> QED
    BY <1>6, <2>2, <2>3 DEF InspectEntry, Step
<1>7. CASE CheckSame(p)
  <2> DEFINE s == [w[p] EXCEPT !.pc = IF dir[w[p].name] = w[p].ino THEN "remove" ELSE "inspect"]
  <2>1. s \in FStates /\ s.pc \in {"remove", "inspect"} /\ s.wants = w[p].wants /\ s.got = w[p].got
    BY <1>1 DEF FStates
  <2>2. w' = [w EXCEPT ![p] = s] /\ UNCHANGED <<dir, file, current, born>> /\ w[p].pc = "same"
    BY <1>7 DEF CheckSame, Step
  <2> HIDE DEF s
  <2> QED
    BY <1>2, <1>4, <2>1, <2>2
<1> QED
  BY <1>3, <1>5, <1>6, <1>7

\* An expired entry is removed, or a writer fails or crashes.
LEMMA RemoveStep ==
    ASSUME FileInv, NEW p \in FileWorkers, RemoveEntry(p) \/ WriteFails(p) \/ CrashWorker(p)
    PROVE  FileInv'
<1>1. w[p] \in FStates
  BY FileTypes
<1>2. CASE RemoveEntry(p)
  <2> DEFINE s == [w[p] EXCEPT !.pc = "inspect"]
  <2>1. s \in FStates /\ s.pc = "inspect" /\ s.wants = w[p].wants /\ s.got = w[p].got
    BY <1>1 DEF FStates
  <2>2. w[p].wants # "none" /\ w[p].got = "none"
    BY <1>2 DEF RemoveEntry, FileInv, Answers
  <2>3. /\ w' = [w EXCEPT ![p] = s] /\ dir' = [dir EXCEPT ![w[p].name] = 0]
        /\ UNCHANGED <<file, current, born>>
    BY <1>2 DEF RemoveEntry, Step
  <2>4. dir' \in [Names -> Names] /\ dir'[0] \in {0, dir[0]}
    BY <2>3, FileTypes
  <2>5. /\ s.pc \notin Writing \cup {"rename"} /\ s.pc # "read" /\ s.got = "none" /\ s.wants # "none"
        /\ file' \in [Inodes -> Files] /\ \A i \in Inodes : file'[i].fill = file[i].fill
        /\ current' = current /\ born' = born
    BY <2>1, <2>2, <2>3, FileTypes DEF Writing
  <2> HIDE DEF s
  <2> QED
    BY <2>1, <2>3, <2>4, <2>5, QuietStep
<1>3. CASE WriteFails(p)
  <2>1. /\ w' = [w EXCEPT ![p] = Quiet] /\ dir' = [dir EXCEPT ![w[p].ino] = 0]
        /\ file' = [file EXCEPT ![w[p].ino].lock = 0] /\ current' = current /\ born' = born
    BY <1>3 DEF WriteFails, Step
  <2>2. dir' \in [Names -> Names] /\ dir'[0] \in {0, dir[0]}
    BY <2>1, FileTypes
  <2>3. file' \in [Inodes -> Files] /\ \A i \in Inodes : file'[i].fill = file[i].fill
    BY <2>1, FileTypes DEF Files
  <2> QED
    BY <2>1, <2>2, <2>3, QuietType, QuietStep DEF Writing
<1>4. CASE CrashWorker(p)
  <2>1. /\ w' = [w EXCEPT ![p] = Quiet] /\ dir' = dir /\ current' = current /\ born' = born
        /\ file' = [i \in Inodes |-> [file[i] EXCEPT !.lock = IF @ = p THEN 0 ELSE @]]
    BY <1>4 DEF CrashWorker, Step
  <2>2. file' \in [Inodes -> Files] /\ \A i \in Inodes : file'[i].fill = file[i].fill
    BY <2>1, FileTypes DEF Files
  <2> QED
    BY <2>1, <2>2, QuietType, FileTypes, QuietStep DEF Writing
<1> QED
  BY <1>2, <1>3, <1>4

\* A process goes on with the file that it writes.
LEMMA WriteStep ==
    ASSUME FileInv, NEW p \in FileWorkers,
           CreateTemporary(p) \/ LockAndWriteInfo(p) \/ WriteValue(p)
    PROVE  FileInv'
<1> DEFINE i == IF w[p].pc = "put" THEN born + 1 ELSE w[p].ino
<1>1. /\ w[p] \in FStates /\ i \in Inodes /\ i \in Nat /\ born \in Nat /\ born <= born' /\ born' \in Names
      /\ file[i].fill # "full" /\ i <= born'
  <2>1. CASE CreateTemporary(p)
    <3>1. born \in Nat /\ born < MaxInode /\ born' = born + 1 /\ i = born + 1
      BY <2>1, FileTypes, FileAssumption DEF CreateTemporary, Names
    <3>2. born + 1 \in Inodes
      BY <3>1, FileAssumption DEF Inodes
    <3>3. file[born + 1].fill = "empty"
      BY <3>1, <3>2 DEF FileInv, WritersApart
    <3>4. w[p] \in FStates
      BY FileTypes
    <3>5. born + 1 \in Nat /\ born <= born + 1 /\ born + 1 \in Names
      BY <3>1, FileAssumption DEF Names
    <3>6. file[i].fill # "full" /\ i \in Inodes
      BY <3>1, <3>2, <3>3
    <3> QED
      BY <3>1, <3>4, <3>5, <3>6
  <2>2. CASE LockAndWriteInfo(p) \/ WriteValue(p)
    <3>1. i = w[p].ino /\ w[p].pc \in Writing /\ born' = born
      BY <2>2 DEF LockAndWriteInfo, WriteValue, Writing
    <3>2. i \in 1 .. born /\ file[i].fill # "full" /\ born \in Names
      BY <3>1, FileTypes DEF FileInv, WritersApart
    <3> QED
      BY <3>1, <3>2, FileTypes, FileAssumption DEF Inodes, Names
  <2> QED
    BY <2>1, <2>2
<1>2. /\ w' = [w EXCEPT ![p] = w'[p]] /\ w'[p] \in FStates /\ w'[p].pc \in Writing \cup {"rename"}
      /\ w'[p].ino = i /\ w'[p].got = "none" /\ current' = current
  <2>1. w[p].got = "none"
    BY DEF CreateTemporary, LockAndWriteInfo, WriteValue, FileInv, Answers
  <2>2. i \in Names
    BY <1>1, FileAssumption DEF Inodes, Names
  <2>3. CASE CreateTemporary(p)
    <3>1. w' = [w EXCEPT ![p] = [w[p] EXCEPT !.pc = "open", !.ino = i]] /\ current' = current
      BY <2>3 DEF CreateTemporary, Step
    <3>2. w'[p] = [w[p] EXCEPT !.pc = "open", !.ino = i]
      BY <3>1, FileTypes
    <3>3. /\ w'[p] \in FStates /\ w'[p].pc = "open" /\ w'[p].ino = i /\ w'[p].got = w[p].got
      BY <1>1, <2>2, <3>2 DEF FStates
    <3> QED
      BY <2>1, <3>1, <3>2, <3>3 DEF Writing
  <2>4. CASE LockAndWriteInfo(p) \/ WriteValue(p)
    <3>1. PICK c \in {"write", "rename"} : w' = [w EXCEPT ![p] = [w[p] EXCEPT !.pc = c]]
      BY <2>4 DEF LockAndWriteInfo, WriteValue, Step
    <3>2. w'[p] = [w[p] EXCEPT !.pc = c]
      BY <3>1, FileTypes
    <3>3. i = w[p].ino /\ current' = current
      BY <2>4 DEF LockAndWriteInfo, WriteValue
    <3>4. /\ w'[p] \in FStates /\ w'[p].pc = c /\ w'[p].ino = w[p].ino /\ w'[p].got = w[p].got
      BY <1>1, <3>2 DEF FStates
    <3> QED
      BY <2>1, <3>1, <3>2, <3>3, <3>4 DEF Writing
  <2> QED
    BY <2>3, <2>4
<1>3. /\ file' \in [Inodes -> Files] /\ \A j \in Inodes \ {i} : file'[j].fill = file[j].fill
      /\ w'[p].pc = "rename" <=> file'[i].fill = "full"
  <2>1. CASE CreateTemporary(p)
    <3>1. w'[p].pc = "open" /\ file' = file
      BY <1>1, <2>1, FileTypes DEF CreateTemporary, Step, FStates
    <3> QED
      BY <1>1, <3>1, FileTypes
  <2>2. CASE LockAndWriteInfo(p)
    <3>1. /\ file' = [file EXCEPT ![i] = [@ EXCEPT !.fill = "info", !.lock = p]]
          /\ w'[p].pc = "write"
      BY <1>1, <2>2, FileTypes DEF LockAndWriteInfo, Step, FStates
    <3> QED
      BY <1>1, <3>1, FileTypes DEF Files, Fill
  <2>3. CASE WriteValue(p)
    <3>1. /\ file' = [file EXCEPT ![i] = [@ EXCEPT !.fill = "full", !.lock = 0]]
          /\ w'[p].pc = "rename"
      BY <1>1, <2>3, FileTypes DEF WriteValue, Step, FStates
    <3> QED
      BY <1>1, <3>1, FileTypes DEF Files, Fill
  <2> QED
    BY <2>1, <2>2, <2>3
<1>4. dir' \in [Names -> Names] /\ dir'[0] = dir[0]
  <2>1. dir' = dir \/ dir' = [dir EXCEPT ![i] = i]
    BY DEF CreateTemporary, LockAndWriteInfo, WriteValue
  <2>2. i \in Names /\ i # 0
    BY <1>1, FileAssumption DEF Inodes, Names
  <2> QED
    BY <2>1, <2>2, FileTypes
<1>5. \A q \in FileWorkers \ {p} : w'[q] = w[q] /\ (w[q].pc \in Writing => w[q].ino # i)
  <2>1. CASE CreateTemporary(p)
    <3>1. i = born + 1
      BY <2>1 DEF CreateTemporary
    <3> QED
      BY <1>1, <1>2, <3>1, FileTypes DEF FileInv, WritersApart
  <2>2. CASE LockAndWriteInfo(p) \/ WriteValue(p)
    <3>1. w[p].pc \in Writing /\ i = w[p].ino
      BY <2>2 DEF LockAndWriteInfo, WriteValue, Writing
    <3> QED
      BY <1>2, <3>1, FileTypes DEF FileInv, WritersApart
  <2> QED
    BY <2>1, <2>2
<1> HIDE DEF i
<1>6. FileTypeOK'
  <2>1. w' \in [FileWorkers -> FStates]
    BY <1>2, FileTypes
  <2> QED
    BY <1>1, <1>2, <1>3, <1>4, <2>1, FileTypes DEF FileTypeOK, FStates, Files
<1>7. WritersApart'
  <2>1. \A q \in FileWorkers \ {p} : w[q].pc \in Writing \cup {"rename"} =>
           w[q].ino \in 1 .. born' /\ w[q].ino \in Inodes /\ w[q].ino # i
    BY <1>1, <1>5, FileAssumption DEF FileInv, WritersApart, Inodes, Names
  <2>2. i \in 1 .. born'
    BY <1>1 DEF Inodes, Names
  <2>3. \A j \in Inodes : j > born' => file'[j].fill = "empty"
    BY <1>1, <1>3 DEF FileInv, WritersApart, Inodes, Names
  <2>4. \A q \in FileWorkers : w'[q].pc \in Writing => file'[w'[q].ino].fill # "full"
    BY <1>2, <1>3, <1>5, <2>1 DEF FileInv, WritersApart, Writing
  <2>5. \A q \in FileWorkers : w'[q].pc = "rename" => file'[w'[q].ino].fill = "full"
    BY <1>2, <1>3, <1>5, <2>1 DEF FileInv, WritersApart
  <2>6. \A q \in FileWorkers : w'[q].pc \in Writing \cup {"rename"} => w'[q].ino \in 1 .. born'
    BY <1>2, <1>5, <2>1, <2>2
  <2>7. \A q, r \in FileWorkers :
           q # r /\ w'[q].pc \in Writing /\ w'[r].pc \in Writing => w'[q].ino # w'[r].ino
    BY <1>2, <1>5 DEF FileInv, WritersApart
  <2> QED
    BY <2>3, <2>4, <2>5, <2>6, <2>7 DEF WritersApart
<1>8. KeyFileWhole'
  <2>1. /\ dir[0] # 0 => dir[0] \in Inodes
        /\ \A q \in FileWorkers : w[q].ino # 0 => w[q].ino \in Inodes
    <3>1. \A n \in Names : n # 0 => n \in Inodes
      BY FileAssumption DEF Inodes, Names
    <3>2. dir[0] \in Names /\ \A q \in FileWorkers : w[q].ino \in Names
      BY FileTypes DEF FStates
    <3> QED
      BY <3>1, <3>2
  <2>2. dir'[0] # 0 => dir'[0] = current' /\ file'[dir'[0]].fill = "full"
    BY <1>1, <1>2, <1>3, <1>4, <2>1 DEF FileInv, KeyFileWhole
  <2>3. \A q \in FileWorkers : w'[q].pc = "read" =>
           q # p /\ w'[q].ino # 0 /\ file'[w'[q].ino].fill = "full" /\ w'[q].ino \in w'[q].seen
    <3>1. w'[p].pc # "read"
      BY <1>2 DEF Writing
    <3>2. \A q \in FileWorkers \ {p} : w[q].pc = "read" =>
             w[q].ino \in Inodes \ {i} /\ file[w[q].ino].fill = "full" /\ w[q].ino \in w[q].seen
      BY <1>1, <2>1 DEF FileInv, KeyFileWhole
    <3>3. 0 \notin Inodes
      BY DEF Inodes
    <3> QED
      BY <1>3, <1>5, <3>1, <3>2, <3>3
  <2> QED
    BY <2>2, <2>3 DEF KeyFileWhole
<1>9. Answers'
  BY <1>2, <1>5 DEF FileInv, Answers, Writing
<1> QED
  BY <1>6, <1>7, <1>8, <1>9 DEF FileInv

\* The key gets another file, or none.
LEMMA BecomeStep ==
    ASSUME FileInv, NEW p \in FileWorkers, NEW i \in Names, Becomes(i, [w EXCEPT ![p] = Quiet]),
           dir' \in [Names -> Names], dir'[0] = i, i # 0 => file[i].fill = "full",
           file' = file, born' = born
    PROVE  FileInv'
<1> DEFINE v == [w EXCEPT ![p] = Quiet]
<1>1. \A q \in FileWorkers : v[q] \in FStates /\ v[q] = (IF q = p THEN Quiet ELSE w[q])
  BY FileTypes, QuietType
<1>2. \A q \in FileWorkers : w'[q] = [v[q] EXCEPT !.seen = IF v[q].pc = "read" THEN @ \cup {i} ELSE @]
  BY DEF Becomes
<1> HIDE DEF v
<1>3. \A q \in FileWorkers :
         /\ w'[q] \in FStates /\ w'[q].pc = v[q].pc /\ w'[q].ino = v[q].ino /\ w'[q].got = v[q].got
         /\ w'[q].wants = v[q].wants /\ v[q].seen \subseteq w'[q].seen
  <2> TAKE q \in FileWorkers
  <2>1. PICK u \in SUBSET Names : w'[q] = [v[q] EXCEPT !.seen = u] /\ v[q].seen \subseteq u
    <3>1. v[q].seen \in SUBSET Names
      BY <1>1 DEF FStates
    <3>2. w'[q] = [v[q] EXCEPT !.seen = v[q].seen \cup {i}] \/ w'[q] = [v[q] EXCEPT !.seen = v[q].seen]
      BY <1>2
    <3>3. v[q].seen \cup {i} \in SUBSET Names
      BY <3>1
    <3> QED
      BY <3>1, <3>2, <3>3, Zenon
  <2> QED
    BY <1>1, <2>1 DEF FStates
<1>4. w' \in [FileWorkers -> FStates] /\ current' = i
  BY <1>3 DEF Becomes
<1>5. FileTypeOK'
  BY <1>4, FileTypes DEF FileTypeOK, FStates, Files
<1>6. WritersApart'
  BY <1>1, <1>3, QuietType DEF FileInv, WritersApart, Writing
<1>7. KeyFileWhole'
  BY <1>1, <1>3, <1>4, QuietType DEF FileInv, KeyFileWhole
<1>8. Answers'
  BY <1>1, <1>3, QuietType DEF FileInv, Answers
<1> QED
  BY <1>5, <1>6, <1>7, <1>8 DEF FileInv

\* Every step of the file cache preserves the invariant.
LEMMA FileStep ==
    ASSUME FileInv, FileNext
    PROVE  FileInv'
<1>1. ASSUME NEW p \in FileWorkers, DeleteKey(p)
      PROVE  FileInv'
  BY <1>1, FileTypes, BecomeStep DEF DeleteKey
<1>2. ASSUME NEW p \in FileWorkers, Rename(p)
      PROVE  FileInv'
  <2>1. w[p].ino \in Names /\ w[p].ino # 0 /\ file[w[p].ino].fill = "full"
    BY <1>2, FileTypes DEF Rename, FileInv, WritersApart, FStates, Writing
  <2>2. CASE dir[w[p].ino] = 0
    BY <1>2, <2>2, QuietType, LocalStep DEF Rename, Step, Writing
  <2>3. CASE dir[w[p].ino] # 0
    <3>1. dir' = [dir EXCEPT ![0] = w[p].ino, ![w[p].ino] = 0]
      BY <1>2, <2>3 DEF Rename
    <3>2. dir' \in [Names -> Names] /\ dir'[0] = w[p].ino
      BY <2>1, <3>1, FileTypes
    <3> QED
      BY <1>2, <2>1, <2>3, <3>2, BecomeStep DEF Rename
  <2> QED
    BY <2>2, <2>3
<1>3. ASSUME NEW i \in Inodes, Expire(i)
      PROVE  FileInv'
  <2>1. file' = [file EXCEPT ![i].expired = TRUE] /\ UNCHANGED <<dir, w, current, born>>
    BY <1>3 DEF Expire
  <2>2. file' \in [Inodes -> Files] /\ \A j \in Inodes : file'[j].fill = file[j].fill
    BY <2>1, FileTypes DEF Files
  <2>3. FileTypeOK'
    BY <2>1, <2>2 DEF FileInv, FileTypeOK, Files
  <2>4. \A q \in FileWorkers : w[q].ino # 0 => w[q].ino \in Inodes
    BY FileTypes, FileAssumption DEF FStates, Inodes, Names
  <2>5. dir[0] # 0 => dir[0] \in Inodes
    BY FileTypes, FileAssumption DEF Inodes, Names
  <2>6. \A q \in FileWorkers : w[q].pc \in Writing \cup {"rename"} => w[q].ino \in Inodes
    BY <2>4 DEF FileInv, WritersApart
  <2>7. WritersApart' /\ KeyFileWhole' /\ Answers'
    BY <2>1, <2>2, <2>4, <2>5, <2>6 DEF FileInv, WritersApart, KeyFileWhole, Answers
  <2> QED
    BY <2>3, <2>7 DEF FileInv
<1> QED
  BY <1>1, <1>2, <1>3, GetStep, CleanStep, RemoveStep, WriteStep DEF FileNext

\* The invariant of the file cache always holds, for any number of workers.
THEOREM FileInvariance == FileSpec => []FileInv
<1>1. FileInv /\ [FileNext]_fileVars => FileInv'
  <2>1. CASE FileNext
    BY <2>1, FileStep
  <2>2. CASE UNCHANGED fileVars
    BY <2>2 DEF fileVars, FileInv, FileTypeOK, WritersApart, KeyFileWhole, Answers
  <2> QED
    BY <2>1, <2>2
<1> QED
  BY <1>1, FileInitInv, PTL DEF FileSpec

\* Whatever set, get, delete and clean-up do at the same time, and wherever a
\* process crashes, a get of the file cache answers with a whole value that
\* was the value of the key during the call.
THEOREM ReadsAlwaysWhole == FileSpec => []ReadsWhole
<1>1. FileInv => ReadsWhole
  BY DEF FileInv, Answers, ReadsWhole, NeverTorn, ReadsCurrent
<1> QED
  BY <1>1, FileInvariance, PTL

-----------------------------------------------------------------------------
(* The passphrase and its predecessor                                        *)

\* A cookie that lives was made with a passphrase that is still configured,
\* and the other form of cookies is at least as old as the configuration.
CookiesPlaced ==
    \A c \in cookies :
        /\ c.age < Lifetime
        /\ secrets.second = 0 => c.secret = secrets.first /\ (c.kid => c.age >= since)
        /\ secrets.second # 0 => IF c.kid THEN c.secret = secrets.first
                                 ELSE c.secret = secrets.second /\ c.age >= since

\* Entries are under the keys of the configured passphrases only; the one of
\* the second is at least as old as the configuration, and the one of the
\* first not older while there are two.
EntriesPlaced ==
    /\ secrets.second # secrets.first
    /\ \A n \in Passphrases :
         /\ backend[n].val # 0 => n \in {secrets.first, secrets.second} /\ backend[n].age < Lifetime
         /\ n = secrets.second /\ backend[n].val # 0 => backend[n].age >= since
         /\ n = secrets.first /\ secrets.second # 0 => backend[n].age <= since
         /\ n > secrets.first => backend[n].val = 0
         /\ backend[n].val = 0 => backend[n].age = 0

\* The value that was written last is under the first passphrase, and under
\* the second only if nothing was written since the rollover began.
LatestPlaced ==
    /\ backend[secrets.first].val # 0 \/ secrets.second = 0 => latest = backend[secrets.first].val
    /\ backend[secrets.first].val = 0 /\ secrets.second # 0 => latest \in {0, backend[secrets.second].val}

\* The inductive invariant of the passphrases.
PassInv == PassTypeOK /\ CookiesPlaced /\ EntriesPlaced /\ LatestPlaced

\* A fresh installation satisfies the invariant.
LEMMA PassInitInv == PassInit => PassInv
  BY PassphraseAssumption DEF PassInit, PassInv, PassTypeOK, CookiesPlaced, EntriesPlaced, LatestPlaced, Passphrases, Versions, NoEntry

\* The entries of the cache and the cookies of users.
Entries == [val : Versions \cup {0}, age : 0 .. Lifetime]
Cookies == [secret : Passphrases, kid : BOOLEAN, age : 0 .. Lifetime]

\* The types of the parts.
LEMMA PassTypes ==
    ASSUME PassInv
    PROVE  /\ secrets.first \in Passphrases /\ secrets.first \in Nat /\ secrets.first >= 1
           /\ secrets.second \in Passphrases \cup {0}
           /\ since \in Nat /\ since <= Lifetime /\ Lifetime \in Nat /\ Lifetime > 0
           /\ cookies \subseteq Cookies
           /\ backend \in [Passphrases -> Entries] /\ \A n \in Passphrases : backend[n] \in Entries
           /\ latest \in Versions \cup {0}
  BY PassphraseAssumption DEF PassInv, PassTypeOK, Passphrases, Entries, Cookies

\* A cookie is made, under the first passphrase.
LEMMA SetCookieStep == ASSUME PassInv, SetCookie PROVE PassInv'
<1>1. UNCHANGED <<secrets, since, backend, latest>>
  BY DEF SetCookie
<1>2. JwtCreate \in Cookies /\ JwtCreate.secret = secrets.first /\ JwtCreate.age = 0
      /\ (JwtCreate.kid <=> secrets.second # 0)
  <2>1. PICK k \in BOOLEAN : k = (secrets.second # 0)
    OBVIOUS
  <2>2. JwtCreate = [secret |-> secrets.first, kid |-> k, age |-> 0]
    BY <2>1, Zenon DEF JwtCreate
  <2>3. 0 \in 0 .. Lifetime
    BY PassTypes
  <2> QED
    BY <2>1, <2>2, <2>3, PassTypes DEF Cookies
<1>3. cookies' = cookies \cup {JwtCreate}
  BY DEF SetCookie
<1>4. PassTypeOK'
  BY <1>1, <1>2, <1>3 DEF PassInv, PassTypeOK, Cookies
<1>5. CookiesPlaced'
  BY <1>1, <1>2, <1>3, PassTypes DEF PassInv, CookiesPlaced
<1>6. EntriesPlaced' /\ LatestPlaced'
  BY <1>1 DEF PassInv, EntriesPlaced, LatestPlaced
<1> QED
  BY <1>4, <1>5, <1>6 DEF PassInv

\* An entry is written or deleted, under the first passphrase.
LEMMA CacheSetStep == ASSUME PassInv, CacheSet PROVE PassInv'
<1>1. PICK v \in Versions \cup {0} :
        /\ backend' = [backend EXCEPT ![secrets.first] = [val |-> v, age |-> 0]] /\ latest' = v
        /\ UNCHANGED <<secrets, since, cookies>>
  BY DEF CacheSet
<1>2. /\ backend' \in [Passphrases -> Entries]
      /\ backend'[secrets.first].val = v /\ backend'[secrets.first].age = 0
      /\ \A n \in Passphrases \ {secrets.first} : backend'[n] = backend[n]
  BY <1>1, PassTypes DEF Entries
<1>3. PassTypeOK'
  BY <1>1, <1>2 DEF PassInv, PassTypeOK, Entries
<1>4. CookiesPlaced'
  BY <1>1 DEF PassInv, CookiesPlaced
<1>5. EntriesPlaced'
  BY <1>1, <1>2, PassTypes DEF PassInv, EntriesPlaced
<1>6. LatestPlaced'
  BY <1>1, <1>2, PassTypes DEF LatestPlaced
<1> QED
  BY <1>3, <1>4, <1>5, <1>6 DEF PassInv

\* A new passphrase is put before the one in use.
LEMMA BeginStep == ASSUME PassInv, BeginRollover PROVE PassInv'
<1> DEFINE f == secrets.first
<1>1. /\ secrets.second = 0 /\ since = Lifetime /\ f < MaxPassphrase /\ since' = 0
      /\ secrets'.first = f + 1 /\ secrets'.second = f /\ secrets' = [first |-> f + 1, second |-> f]
      /\ UNCHANGED <<cookies, backend, latest>>
  BY DEF BeginRollover
<1>2. f \in Passphrases /\ f + 1 \in Passphrases /\ f \in Nat /\ f # 0
  BY <1>1, PassTypes, PassphraseAssumption DEF Passphrases
<1>3. PassTypeOK'
  BY <1>1, <1>2, PassTypes DEF PassInv, PassTypeOK
<1>4. CookiesPlaced'
  BY <1>1, <1>2, PassTypes DEF PassInv, CookiesPlaced, Cookies
<1>5. backend[f + 1].val = 0
  BY <1>1, <1>2, PassTypes DEF PassInv, EntriesPlaced
<1>6. EntriesPlaced'
  BY <1>1, <1>2, <1>5, PassTypes DEF PassInv, EntriesPlaced, Entries, Passphrases
<1>7. LatestPlaced'
  BY <1>1, <1>2, <1>5 DEF PassInv, LatestPlaced
<1> QED
  BY <1>3, <1>4, <1>6, <1>7 DEF PassInv

\* The old passphrase is dropped after everything made with it has expired.
LEMMA EndStep == ASSUME PassInv, EndRollover PROVE PassInv'
<1> DEFINE f == secrets.first
<1>1. /\ secrets.second # 0 /\ since = Lifetime /\ since' = 0
      /\ secrets'.first = f /\ secrets'.second = 0 /\ secrets' = [secrets EXCEPT !.second = 0]
      /\ UNCHANGED <<cookies, backend, latest>>
  BY DEF EndRollover, PassInv, PassTypeOK
<1>2. secrets.second \in Passphrases /\ backend[secrets.second].val = 0
  BY <1>1, PassTypes DEF PassInv, EntriesPlaced, Entries
<1>3. PassTypeOK'
  BY <1>1, PassTypes DEF PassInv, PassTypeOK
<1>4. CookiesPlaced'
  BY <1>1, PassTypes DEF PassInv, CookiesPlaced, Cookies
<1>5. EntriesPlaced'
  BY <1>1, <1>2, PassTypes DEF PassInv, EntriesPlaced, Entries
<1>6. LatestPlaced'
  BY <1>1, <1>2 DEF PassInv, LatestPlaced
<1> QED
  BY <1>3, <1>4, <1>5, <1>6 DEF PassInv

\* Time goes by for cookies and entries.
LEMMA PassTickStep == ASSUME PassInv, PassTick PROVE PassInv'
<1> DEFINE Older(e) == IF e.val = 0 \/ e.age + 1 >= Lifetime THEN NoEntry ELSE [e EXCEPT !.age = @ + 1]
           f == secrets.first
           g == secrets.second
<1>1. /\ since' = (IF since = Lifetime THEN since ELSE since + 1)
      /\ cookies' = {[c EXCEPT !.age = @ + 1] : c \in {d \in cookies : d.age + 1 < Lifetime}}
      /\ backend' = [n \in Passphrases |-> Older(backend[n])]
      /\ latest' = (IF \A n \in Passphrases : backend'[n].val # latest THEN 0 ELSE latest)
      /\ secrets' = secrets
  BY DEF PassTick
<1>2. since' \in Nat /\ since <= since' /\ since' <= since + 1 /\ since' <= Lifetime
      /\ (since < Lifetime => since' = since + 1)
  BY <1>1, PassTypes
<1>3. ASSUME NEW n \in Passphrases
      PROVE  /\ backend'[n] \in Entries
             /\ backend'[n].val \in {0, backend[n].val}
             /\ backend'[n].val # 0 => backend'[n].age = backend[n].age + 1 /\ backend'[n].age < Lifetime
             /\ backend'[n].val = 0 => backend'[n].age = 0
             /\ backend[n].val # 0 /\ backend'[n].val = 0 => backend[n].age + 1 >= Lifetime
  <2>1. backend'[n] = Older(backend[n]) /\ backend[n] \in Entries
    BY <1>1, PassTypes
  <2>2. CASE backend[n].val = 0 \/ backend[n].age + 1 >= Lifetime
    BY <2>1, <2>2, PassTypes DEF NoEntry, Entries
  <2>3. CASE ~(backend[n].val = 0 \/ backend[n].age + 1 >= Lifetime)
    BY <2>1, <2>3, PassTypes DEF Entries
  <2> QED
    BY <2>2, <2>3
<1>4. \A c \in cookies' : \E d \in cookies : /\ c \in Cookies /\ c.secret = d.secret /\ c.kid = d.kid
                                             /\ c.age = d.age + 1 /\ d.age + 1 < Lifetime
  BY <1>1, PassTypes DEF Cookies
<1>5. PassTypeOK'
  <2>1. backend' \in [Passphrases -> Entries] /\ cookies' \subseteq Cookies /\ since' \in 0 .. Lifetime
    BY <1>1, <1>2, <1>3, <1>4, PassTypes
  <2>2. latest' \in Versions \cup {0}
    BY <1>1, PassTypes
  <2> QED
    BY <1>1, <2>1, <2>2 DEF PassInv, PassTypeOK, Entries, Cookies
<1>6. CookiesPlaced'
  BY <1>1, <1>2, <1>4, PassTypes DEF PassInv, CookiesPlaced, Cookies
<1>7. EntriesPlaced'
  <2>1. \A n \in Passphrases : backend[n].age \in Nat
    BY PassTypes DEF Entries
  <2>2. ASSUME NEW n \in Passphrases
        PROVE  /\ backend'[n].val # 0 => n \in {f, g} /\ backend'[n].age < Lifetime
               /\ n > f => backend'[n].val = 0
               /\ backend'[n].val = 0 => backend'[n].age = 0
    BY <1>3 DEF PassInv, EntriesPlaced
  <2>3. ASSUME NEW n \in Passphrases, n = g, backend'[n].val # 0
        PROVE  backend'[n].age >= since'
    BY <1>2, <1>3, <2>1, <2>3, PassTypes DEF PassInv, EntriesPlaced
  <2>4. ASSUME NEW n \in Passphrases, n = f, g # 0
        PROVE  backend'[n].age <= since'
    BY <1>2, <1>3, <2>1, <2>4, PassTypes DEF PassInv, EntriesPlaced
  <2> QED
    BY <1>1, <2>2, <2>3, <2>4 DEF PassInv, EntriesPlaced
<1>8. LatestPlaced'
  <2>1. f \in Passphrases /\ g \in Passphrases \cup {0} /\ f # g
    BY PassTypes DEF PassInv, EntriesPlaced
  <2>2. \A n \in Passphrases \ {f, g} : backend'[n].val = 0
    BY <1>3 DEF PassInv, EntriesPlaced
  <2>3. \A n \in Passphrases : latest # 0 /\ backend'[n].val = latest => latest' = latest
    BY <1>1
  <2>4. (\A n \in Passphrases : backend'[n].val = 0) => latest' = 0
    BY <1>1
  <2>5. latest' \in {0, latest}
    BY <1>1
  <2>6. CASE g = 0
    <3>1. CASE backend'[f].val = 0
      <4>1. 0 \notin Passphrases
        BY DEF Passphrases
      <4>2. \A n \in Passphrases : backend'[n].val = 0
        BY <2>2, <2>6, <3>1, <4>1
      <4> QED
        BY <1>1, <2>4, <2>6, <3>1, <4>2 DEF LatestPlaced
    <3>2. CASE backend'[f].val # 0
      BY <1>1, <1>3, <2>1, <2>3, <2>6, <3>2 DEF PassInv, LatestPlaced
    <3> QED
      BY <3>1, <3>2
  <2>7. CASE g # 0
    <3>1. backend[f].val # 0 /\ backend'[f].val = 0 => backend'[g].val = 0
      BY <1>3, <2>1, <2>7, PassTypes DEF PassInv, EntriesPlaced, Entries
    <3>2. CASE backend'[f].val # 0
      BY <1>1, <1>3, <2>1, <2>3, <2>7, <3>2 DEF PassInv, LatestPlaced
    <3>3. CASE backend'[f].val = 0 /\ backend'[g].val = 0
      BY <1>1, <2>1, <2>2, <2>4, <2>7, <3>3 DEF LatestPlaced
    <3>4. CASE backend'[f].val = 0 /\ backend'[g].val # 0
      BY <1>1, <1>3, <2>1, <2>5, <2>7, <3>1, <3>4 DEF PassInv, LatestPlaced
    <3> QED
      BY <3>2, <3>3, <3>4
  <2> QED
    BY <2>6, <2>7
<1> QED
  BY <1>5, <1>6, <1>7, <1>8 DEF PassInv

\* The invariant of the passphrases always holds, for every lifetime and
\* number of rollovers.
THEOREM PassInvariance == PassSpec => []PassInv
<1>1. PassInv /\ [PassNext]_passVars => PassInv'
  <2>1. CASE PassNext
    BY <2>1, SetCookieStep, CacheSetStep, BeginStep, EndStep, PassTickStep DEF PassNext
  <2>2. CASE UNCHANGED passVars
    BY <2>2 DEF passVars, PassInv, PassTypeOK, CookiesPlaced, EntriesPlaced, LatestPlaced
  <2> QED
    BY <2>1, <2>2
<1> QED
  BY <1>1, PassInitInv, PTL DEF PassSpec

\* A change of OIDCCryptoPassphrase, with the old one kept for a lifetime,
\* loses no cookie and no cache entry and never shows a value that was
\* replaced.
THEOREM RolloverSeamless == PassSpec => []Seamless
<1>1. PassInv => Seamless
  <2> SUFFICES ASSUME PassInv PROVE Seamless
    OBVIOUS
  <2>1. CookiesSeamless
    BY DEF PassInv, CookiesPlaced, CookiesSeamless, JwtVerifies, JwtKey
  <2>2. CacheSeamless
    BY DEF PassInv, LatestPlaced, CacheSeamless, CacheGet
  <2> QED
    BY <2>1, <2>2 DEF Seamless
<1> QED
  BY <1>1, PassInvariance, PTL

-----------------------------------------------------------------------------
(* The connections of the Redis backend                                      *)

\* The states of a request.
RStates == [pc : {"new", "lock", "connect", "command", "flush", "relock", "release", "done"},
            conn : Conns \cup {0}, try : 1 .. MaxTries + 1,
            ok : BOOLEAN, held : BOOLEAN, calm : BOOLEAN]

\* Every allocated connection is somewhere, and nowhere else.
Placed ==
    /\ \A r \in RedisRequests : rq[r].conn # 0 => rq[r].conn \in live
    /\ \A i \in DOMAIN idle : idle[i] \in live
    /\ shared # 0 => shared \in live
    /\ \A c \in live : \/ \E r \in RedisRequests : rq[r].conn = c
                       \/ \E i \in DOMAIN idle : idle[i] = c
                       \/ shared = c
    /\ \A r, s \in RedisRequests : r # s /\ rq[r].conn = rq[s].conn => rq[r].conn = 0
    /\ \A i, j \in DOMAIN idle : idle[i] = idle[j] => i = j
    /\ \A r \in RedisRequests, i \in DOMAIN idle : rq[r].conn # idle[i]
    /\ \A r \in RedisRequests : rq[r].conn = shared => shared = 0
    /\ \A i \in DOMAIN idle : idle[i] # shared

\* Where request r may be with state s, and whether h holds the mutex for it.
MutexOf(r, s, h) ==
    /\ s.pc \in {"lock", "relock"} => ~scoped
    /\ s.pc = "flush" => scoped
    /\ s.pc = "lock" => s.try = 1
    /\ s.pc \notin {"release", "done"} => s.try <= MaxTries
    /\ ~scoped /\ (s.pc \in {"connect", "command"} \/ (s.pc = "release" /\ s.held)) => h = r

\* The mutex is held for whoever works on the shared connection.
MutexHeld == \A r \in RedisRequests : MutexOf(r, rq[r], holder)

\* While a call with state s is calm the server is up, a second attempt has
\* no old connection to take from pool i or as c, the shared one, and the one
\* it makes is not among the dead ones d.
CalmOf(s, u, i, c, d) ==
    s.calm =>
        /\ Calls(s) => u
        /\ s.pc = "connect" /\ s.try = 2 => IF scoped THEN i = <<>> /\ s.conn = 0 ELSE c = 0
        /\ s.pc = "command" /\ s.try = 2 => (IF scoped THEN s.conn ELSE c) \notin d
        /\ s.pc = "flush" => s.try = 1 /\ s.conn = 0
        /\ s.pc # "relock"
        /\ s.pc \in {"release", "done"} => s.ok

\* An undisturbed call is on its way to success.
CalmTry == \A r \in RedisRequests : CalmOf(rq[r], up, idle, shared, dead)

\* The inductive invariant of the Redis backend.
RedisInv == RedisTypeOK /\ Placed /\ MutexHeld /\ CalmTry

\* The state of a request that has not begun.
LEMMA BegunType == /\ Begun \in RStates /\ Begun.pc = "new" /\ Begun.conn = 0
                   /\ Begun.try = 1 /\ Begun.calm = TRUE
  BY DEF Begun, RStates, MaxTries

\* A backend without connections satisfies the invariant.
LEMMA RedisInitInv == RedisInit => RedisInv
<1> SUFFICES ASSUME RedisInit PROVE RedisInv
  OBVIOUS
<1>1. \A r \in RedisRequests : rq[r] = Begun
  BY DEF RedisInit
<1>2. RedisTypeOK
  BY BegunType, RedisAssumption DEF RedisInit, RedisTypeOK, RStates
<1>3. Placed
  BY <1>1, BegunType DEF RedisInit, Placed
<1>4. MutexHeld /\ CalmTry
  BY <1>1, BegunType DEF MutexHeld, MutexOf, CalmTry, CalmOf, Calls, MaxTries
<1> QED
  BY <1>2, <1>3, <1>4 DEF RedisInv

\* The types of the parts.
LEMMA RedisTypes ==
    ASSUME RedisInv
    PROVE  /\ scoped \in BOOLEAN /\ up \in BOOLEAN /\ live \subseteq Conns /\ dead \subseteq live
           /\ idle \in Seq(Conns) /\ Len(idle) <= PoolMax /\ shared \in Conns \cup {0}
           /\ holder \in RedisRequests \cup {NoHolder}
           /\ rq \in [RedisRequests -> RStates] /\ \A r \in RedisRequests : rq[r] \in RStates
           /\ 0 \notin Conns
  BY DEF RedisInv, RedisTypeOK, RStates, Conns

\* A step of one request.
LEMMA SetFields ==
    ASSUME RedisInv, NEW r \in RedisRequests, NEW s \in RStates, Set(r, s)
    PROVE  /\ rq' \in [RedisRequests -> RStates] /\ rq'[r] = s
           /\ \A u \in RedisRequests \ {r} : rq'[u] = rq[u]
  BY RedisTypes DEF Set

\* A step of one request keeps the types.
LEMMA TypeStep ==
    ASSUME RedisInv, UNCHANGED scoped, up' \in BOOLEAN, live' \subseteq Conns, dead' \subseteq live',
           idle' \in Seq(Conns), Len(idle') <= PoolMax, shared' \in Conns \cup {0},
           holder' \in RedisRequests \cup {NoHolder}, rq' \in [RedisRequests -> RStates]
    PROVE  RedisTypeOK'
  BY RedisTypes DEF RedisTypeOK, RStates

\* A step after which every connection is where it was.
LEMMA PlacesKept ==
    ASSUME RedisInv, UNCHANGED <<live, idle, shared>>,
           \A r \in RedisRequests : rq'[r].conn = rq[r].conn
    PROVE  Placed'
  BY DEF RedisInv, Placed

\* A step of request r, which takes it to s: the other requests are not
\* disturbed by what it does to the pool, the shared connection and the mutex.
LEMMA OwnStep ==
    ASSUME RedisInv, NEW r \in RedisRequests, NEW s \in RStates, Set(r, s), scoped' = scoped, up' = up,
           live' \subseteq Conns, dead' \subseteq live', dead' \subseteq dead,
           idle' \in Seq(Conns), Len(idle') <= PoolMax, idle = <<>> => idle' = <<>>,
           shared' \in Conns \cup {0}, shared' = shared \/ (~scoped /\ holder = r),
           \/ holder' = holder
           \/ ~scoped /\ holder = NoHolder /\ holder' = r
           \/ ~scoped /\ holder = r /\ holder' = NoHolder,
           Placed', MutexOf(r, s, holder'), CalmOf(s, up, idle', shared', dead')
    PROVE  RedisInv'
<1>1. /\ rq' \in [RedisRequests -> RStates] /\ rq'[r] = s
      /\ \A u \in RedisRequests \ {r} : rq'[u] = rq[u]
  BY SetFields
<1>2. RedisTypeOK'
  BY <1>1, RedisTypes, TypeStep
<1>3. MutexHeld'
  <2>1. MutexOf(r, rq[r], holder)'
    BY <1>1 DEF MutexOf
  <2>2. ASSUME NEW u \in RedisRequests \ {r}
        PROVE  MutexOf(u, rq[u], holder)'
    <3>1. MutexOf(u, rq[u], holder) /\ u # NoHolder
      BY RedisAssumption DEF RedisInv, MutexHeld
    <3> QED
      BY <1>1, <3>1 DEF MutexOf
  <2> QED
    BY <2>1, <2>2 DEF MutexHeld
<1>4. CalmTry'
  <2>1. CASE scoped
    BY <1>1, <2>1 DEF RedisInv, CalmTry, CalmOf, Calls
  <2>2. CASE ~scoped
    BY <1>1, <2>2 DEF RedisInv, CalmTry, CalmOf, Calls, MutexHeld, MutexOf
  <2> QED
    BY <2>1, <2>2
<1> QED
  BY <1>2, <1>3, <1>4 DEF RedisInv

\* The same where every connection stays where it is.
LEMMA StayStep ==
    ASSUME RedisInv, NEW r \in RedisRequests, NEW s \in RStates, Set(r, s),
           UNCHANGED <<scoped, up, live, dead, idle, shared>>, s.conn = rq[r].conn,
           \/ holder' = holder
           \/ ~scoped /\ holder = NoHolder /\ holder' = r
           \/ ~scoped /\ holder = r /\ holder' = NoHolder,
           MutexOf(r, s, holder'), CalmOf(s, up, idle, shared, dead)
    PROVE  RedisInv'
<1>1. \A u \in RedisRequests : rq'[u].conn = rq[u].conn
  BY SetFields
<1>2. Placed'
  BY <1>1, PlacesKept
<1> QED
  BY <1>2, RedisTypes, OwnStep

\* What is known of a request before its step.
LEMMA RequestKnown ==
    ASSUME RedisInv, NEW r \in RedisRequests
    PROVE  /\ rq[r] \in RStates /\ MutexOf(r, rq[r], holder)
           /\ CalmOf(rq[r], up, idle, shared, dead)
  BY RedisTypes DEF RedisInv, MutexHeld, CalmTry

\* A call begins, takes the mutex or ends.
LEMMA BeginEndStep ==
    ASSUME RedisInv, NEW r \in RedisRequests,
           BeginCall(r) \/ LockMutex(r) \/ Relock(r) \/ CommandAnswered(r) \/ EndCall(r)
    PROVE  RedisInv'
<1> DEFINE q == rq[r]
<1>1. /\ q \in RStates /\ MutexOf(r, q, holder) /\ CalmOf(q, up, idle, shared, dead)
      /\ scoped \in BOOLEAN /\ up \in BOOLEAN
  BY RequestKnown, RedisTypes
<1>2. CASE BeginCall(r)
  <2> DEFINE s == [Begun EXCEPT !.pc = IF scoped THEN "connect" ELSE "lock", !.conn = rq[r].conn, !.calm = up]
  <2>1. s \in RStates /\ s.conn = q.conn /\ s.try = 1 /\ s.calm = up /\ s.pc = (IF scoped THEN "connect" ELSE "lock")
    BY <1>1, BegunType DEF RStates
  <2>2. Set(r, s) /\ UNCHANGED <<scoped, up, live, dead, idle, shared, holder>>
    BY <1>2 DEF BeginCall, Rest
  <2> HIDE DEF s
  <2>3. MutexOf(r, s, holder) /\ CalmOf(s, up, idle, shared, dead)
    BY <2>1 DEF MutexOf, CalmOf, Calls, MaxTries
  <2> QED
    BY <2>1, <2>2, <2>3, StayStep
<1>3. CASE LockMutex(r)
  <2>1. q.pc = "lock" /\ ~scoped /\ q.try <= MaxTries /\ UNCHANGED <<scoped, up, live, dead, idle, shared>>
    BY <1>1, <1>3 DEF LockMutex, MutexOf, Rest
  <2>2. CASE holder = NoHolder /\ holder' = r /\ Set(r, [rq[r] EXCEPT !.pc = "connect"])
    <3> DEFINE s == [rq[r] EXCEPT !.pc = "connect"]
    <3>1. /\ s \in RStates /\ s.conn = q.conn /\ s.try = q.try /\ s.pc = "connect" /\ s.calm = q.calm
      BY <1>1 DEF RStates
    <3>2. q.try = 1
      BY <1>1, <2>1 DEF MutexOf
    <3> HIDE DEF s
    <3>3. MutexOf(r, s, r) /\ CalmOf(s, up, idle, shared, dead)
      BY <1>1, <2>1, <3>1, <3>2 DEF MutexOf, CalmOf, Calls
    <3> QED
      BY <2>1, <2>2, <3>1, <3>3, StayStep DEF s
  <2>3. CASE Set(r, [rq[r] EXCEPT !.pc = "done", !.calm = FALSE, !.held = FALSE]) /\ holder' = holder
    <3> DEFINE s == [rq[r] EXCEPT !.pc = "done", !.calm = FALSE, !.held = FALSE]
    <3>1. /\ s \in RStates /\ s.conn = q.conn /\ s.pc = "done" /\ s.calm = FALSE
      BY <1>1 DEF RStates
    <3>2. MutexOf(r, s, holder) /\ CalmOf(s, up, idle, shared, dead)
      BY <3>1 DEF MutexOf, CalmOf
    <3> QED
      BY <2>1, <2>3, <3>1, <3>2, StayStep
  <2> QED
    BY <1>3, <2>2, <2>3 DEF LockMutex
<1>4. CASE Relock(r)
  <2>1. /\ q.pc = "relock" /\ ~scoped /\ q.try <= MaxTries /\ ~q.calm
        /\ UNCHANGED <<scoped, up, live, dead, idle, shared>>
    BY <1>1, <1>4 DEF Relock, MutexOf, CalmOf, Rest
  <2>2. CASE holder = NoHolder /\ holder' = r /\ Set(r, [rq[r] EXCEPT !.pc = "connect"])
    <3> DEFINE s == [rq[r] EXCEPT !.pc = "connect"]
    <3>1. /\ s \in RStates /\ s.conn = q.conn /\ s.try = q.try /\ s.pc = "connect" /\ s.calm = q.calm
      BY <1>1 DEF RStates
    <3>2. MutexOf(r, s, r) /\ CalmOf(s, up, idle, shared, dead)
      BY <2>1, <3>1 DEF MutexOf, CalmOf
    <3> QED
      BY <2>1, <2>2, <3>1, <3>2, StayStep
  <2>3. CASE holder' = holder /\ Set(r, [rq[r] EXCEPT !.pc = "release", !.held = FALSE, !.calm = FALSE])
    <3> DEFINE s == [rq[r] EXCEPT !.pc = "release", !.held = FALSE, !.calm = FALSE]
    <3>1. /\ s \in RStates /\ s.conn = q.conn /\ s.pc = "release" /\ s.calm = FALSE /\ s.held = FALSE
      BY <1>1 DEF RStates
    <3>2. MutexOf(r, s, holder) /\ CalmOf(s, up, idle, shared, dead)
      BY <3>1 DEF MutexOf, CalmOf
    <3> QED
      BY <2>1, <2>3, <3>1, <3>2, StayStep
  <2> QED
    BY <1>4, <2>2, <2>3 DEF Relock
<1>5. CASE CommandAnswered(r)
  <2> DEFINE s == [rq[r] EXCEPT !.pc = "release", !.ok = TRUE]
  <2>1. /\ s \in RStates /\ s.conn = q.conn /\ s.pc = "release" /\ s.ok = TRUE /\ s.calm = q.calm
    BY <1>1 DEF RStates
  <2>2. Set(r, s) /\ UNCHANGED <<scoped, up, live, dead, idle, shared, holder>> /\ q.pc = "command"
    BY <1>5 DEF CommandAnswered, Rest
  <2> HIDE DEF s
  <2>3. MutexOf(r, s, holder) /\ CalmOf(s, up, idle, shared, dead)
    BY <1>1, <2>1, <2>2 DEF MutexOf, CalmOf, Calls
  <2> QED
    BY <2>1, <2>2, <2>3, StayStep
<1>6. CASE EndCall(r)
  <2> DEFINE s == [rq[r] EXCEPT !.pc = "done"]
  <2>1. /\ s \in RStates /\ s.conn = q.conn /\ s.pc = "done" /\ s.ok = q.ok /\ s.calm = q.calm
    BY <1>1 DEF RStates
  <2>2. Set(r, s) /\ UNCHANGED <<scoped, up, live, dead, idle, shared>> /\ q.pc = "release"
    BY <1>6 DEF EndCall, Rest
  <2>3. holder' = holder \/ (~scoped /\ holder = r /\ holder' = NoHolder)
    BY <1>1, <1>6 DEF EndCall, MutexOf
  <2> HIDE DEF s
  <2>4. MutexOf(r, s, holder') /\ CalmOf(s, up, idle, shared, dead)
    BY <1>1, <2>1, <2>2 DEF MutexOf, CalmOf, Calls
  <2> QED
    BY <2>1, <2>2, <2>3, <2>4, StayStep
<1> QED
  BY <1>2, <1>3, <1>4, <1>5, <1>6

\* What Front leaves of a sequence.
LEMMA FrontProperties ==
    ASSUME NEW S, NEW q \in Seq(S), q # <<>>
    PROVE  /\ Front(q) \in Seq(S) /\ Len(Front(q)) = Len(q) - 1
           /\ DOMAIN Front(q) = 1 .. Len(q) - 1
           /\ \A i \in 1 .. Len(q) - 1 : Front(q)[i] = q[i] /\ i \in DOMAIN q
<1> DEFINE n == Len(q)
           p == Front(q)
<1>1. n \in Nat /\ n >= 1 /\ \A i \in 1 .. n - 1 : i \in DOMAIN q /\ q[i] \in S
  OBVIOUS
<1>2. 1 \in Int /\ n - 1 \in Int
  BY <1>1
<1>3. /\ p \in Seq(S) /\ Len(p) = (IF 1 <= n - 1 THEN (n - 1) - 1 + 1 ELSE 0)
      /\ \A i \in 1 .. ((n - 1) - 1 + 1) : p[i] = q[1 + i - 1]
  BY <1>1, <1>2, SubSeqProperties DEF Front
<1> HIDE DEF n, p
<1>4. Len(p) = n - 1
  BY <1>1, <1>3
<1>5. DOMAIN p = 1 .. n - 1
  BY <1>3, <1>4
<1>6. ASSUME NEW i \in 1 .. n - 1
      PROVE  p[i] = q[i]
  <2>1. i \in 1 .. ((n - 1) - 1 + 1) /\ 1 + i - 1 = i
    BY <1>1
  <2>2. p[i] = q[1 + i - 1]
    BY <1>3, <2>1
  <2> QED
    BY <2>1, <2>2
<1> QED
  BY <1>1, <1>3, <1>4, <1>5, <1>6 DEF n, p

\* No connection is to be had.
LEMMA NoConnectionStep ==
    ASSUME RedisInv, NEW r \in RedisRequests, NoConnection(r), rq[r].pc = "connect",
           UNCHANGED <<scoped, up, live, dead, idle, shared>>
    PROVE  RedisInv'
<1> DEFINE q == rq[r]
<1>1. /\ q \in RStates /\ MutexOf(r, q, holder) /\ CalmOf(q, up, idle, shared, dead)
      /\ scoped \in BOOLEAN /\ up \in BOOLEAN
  BY RequestKnown, RedisTypes
<1>2. q.try \in {1, 2} /\ (~scoped => holder = r) /\ (q.calm /\ ~up) = FALSE
  BY <1>1 DEF MutexOf, CalmOf, Calls, RStates, MaxTries
<1>3. PICK b : /\ b = [rq[r] EXCEPT !.calm = FALSE]
               /\ IF b.try < MaxTries
                    THEN /\ Set(r, [b EXCEPT !.try = @ + 1, !.pc = IF scoped THEN "connect" ELSE "relock"])
                         /\ holder' = IF scoped THEN holder ELSE NoHolder
                    ELSE Set(r, [b EXCEPT !.pc = "release"]) /\ UNCHANGED holder
  <2>1. [rq[r] EXCEPT !.calm = @ /\ ~up] = [rq[r] EXCEPT !.calm = FALSE]
    BY <1>2, Zenon
  <2> QED
    BY <2>1, Zenon DEF NoConnection
<1>4. /\ b \in RStates /\ b.conn = q.conn /\ b.calm = FALSE /\ b.try = q.try
  BY <1>1, <1>3 DEF RStates
<1>5. CASE q.try = 1
  <2> DEFINE s == [b EXCEPT !.try = @ + 1, !.pc = IF scoped THEN "connect" ELSE "relock"]
  <2>1. Set(r, s) /\ holder' = (IF scoped THEN holder ELSE NoHolder)
    BY <1>3, <1>4, <1>5 DEF NoConnection, MaxTries
  <2>2. /\ s \in RStates /\ s.conn = q.conn /\ s.calm = FALSE /\ s.try = 2
        /\ s.pc = (IF scoped THEN "connect" ELSE "relock")
    <3>1. b.try + 1 = 2 /\ 2 \in 1 .. MaxTries + 1
      BY <1>4, <1>5 DEF MaxTries
    <3> QED
      BY <1>4, <3>1 DEF RStates
  <2> HIDE DEF s
  <2>3. MutexOf(r, s, holder') /\ CalmOf(s, up, idle, shared, dead)
    BY <2>2 DEF MutexOf, CalmOf, MaxTries
  <2>4. holder' = holder \/ (~scoped /\ holder = r /\ holder' = NoHolder)
    BY <1>2, <2>1
  <2> QED
    BY <2>1, <2>2, <2>3, <2>4, StayStep
<1>6. CASE q.try = 2
  <2> DEFINE s == [b EXCEPT !.pc = "release"]
  <2>1. Set(r, s) /\ holder' = holder
    BY <1>3, <1>4, <1>6 DEF NoConnection, MaxTries
  <2>2. /\ s \in RStates /\ s.conn = q.conn /\ s.calm = FALSE /\ s.pc = "release"
    BY <1>4 DEF RStates
  <2> HIDE DEF s
  <2>3. MutexOf(r, s, holder) /\ CalmOf(s, up, idle, shared, dead)
    BY <1>2, <2>2 DEF MutexOf, CalmOf
  <2> QED
    BY <2>1, <2>2, <2>3, StayStep
<1> QED
  BY <1>2, <1>5, <1>6

\* The shared connection is used or made.
LEMMA ConnectSharedStep ==
    ASSUME RedisInv, NEW r \in RedisRequests, ConnectShared(r)
    PROVE  RedisInv'
<1> DEFINE q == rq[r]
           s == [rq[r] EXCEPT !.pc = "command"]
<1>1. /\ q \in RStates /\ MutexOf(r, q, holder) /\ CalmOf(q, up, idle, shared, dead)
  BY RequestKnown
<1>2. /\ q.pc = "connect" /\ ~scoped /\ UNCHANGED <<scoped, up, dead, idle>> /\ holder = r
  BY <1>1 DEF ConnectShared, Rest, MutexOf
<1>3. /\ s \in RStates /\ s.conn = q.conn /\ s.pc = "command" /\ s.calm = q.calm /\ s.try = q.try
  BY <1>1 DEF RStates
<1>4. MutexOf(r, s, holder)
  BY <1>1, <1>2, <1>3 DEF MutexOf
<1>5. CASE shared # 0 /\ Set(r, s) /\ UNCHANGED <<live, shared, holder>>
  <2>1. CalmOf(s, up, idle, shared, dead)
    BY <1>1, <1>2, <1>3, <1>5 DEF CalmOf, Calls
  <2> QED
    BY <1>2, <1>3, <1>4, <1>5, <2>1, StayStep
<1>6. ASSUME shared = 0, NEW c \in Conns, NewConnection(c), shared' = c, Set(r, s), holder' = holder
      PROVE  RedisInv'
  <2>1. c \notin live /\ live' = live \cup {c} /\ c \notin dead
    BY <1>6, RedisTypes DEF NewConnection
  <2>2. \A u \in RedisRequests : rq'[u].conn = rq[u].conn
    BY <1>3, <1>6, SetFields
  <2>3. Placed'
    BY <1>2, <1>6, <2>1, <2>2, RedisTypes DEF RedisInv, Placed
  <2> HIDE DEF s
  <2>4. CalmOf(s, up, idle', shared', dead')
    BY <1>1, <1>2, <1>3, <1>6, <2>1 DEF CalmOf, Calls
  <2>5. live' \subseteq Conns /\ dead' \subseteq live' /\ dead' \subseteq dead /\ shared' \in Conns \cup {0}
    BY <1>2, <1>6, <2>1, RedisTypes
  <2>6. idle' \in Seq(Conns) /\ Len(idle') <= PoolMax /\ (idle = <<>> => idle' = <<>>)
    BY <1>2, RedisTypes
  <2> QED
    BY <1>2, <1>3, <1>4, <1>6, <2>3, <2>4, <2>5, <2>6, OwnStep
<1>7. CASE NoConnection(r) /\ UNCHANGED <<live, shared>>
  BY <1>2, <1>7, NoConnectionStep
<1> QED
  BY <1>5, <1>6, <1>7 DEF ConnectShared

\* A connection is taken from the pool or made.
LEMMA ConnectScopedStep ==
    ASSUME RedisInv, NEW r \in RedisRequests, ConnectScoped(r)
    PROVE  RedisInv'
<1> DEFINE q == rq[r]
<1>1. /\ q \in RStates /\ MutexOf(r, q, holder) /\ CalmOf(q, up, idle, shared, dead)
  BY RequestKnown
<1>2. /\ q.pc = "connect" /\ scoped /\ UNCHANGED <<scoped, up, dead, shared>>
  BY DEF ConnectScoped, Rest
<1>3. CASE q.conn # 0 /\ Set(r, [q EXCEPT !.pc = "command"]) /\ UNCHANGED <<live, idle, holder>>
  <2> DEFINE s == [q EXCEPT !.pc = "command"]
  <2>1. /\ s \in RStates /\ s.conn = q.conn /\ s.pc = "command" /\ s.calm = q.calm /\ s.try = q.try
    BY <1>1 DEF RStates
  <2> HIDE DEF s
  <2>2. MutexOf(r, s, holder) /\ CalmOf(s, up, idle, shared, dead)
    BY <1>1, <1>2, <1>3, <2>1 DEF MutexOf, CalmOf, Calls
  <2> QED
    BY <1>2, <1>3, <2>1, <2>2, StayStep DEF s
<1>4. ASSUME q.conn = 0, NEW c \in Conns, Set(r, [q EXCEPT !.pc = "command", !.conn = c]),
             live' \subseteq Conns, live \subseteq live', idle' \in Seq(Conns), Len(idle') <= PoolMax,
             idle = <<>> => idle' = <<>>, UNCHANGED holder, Placed',
             idle # <<>> \/ c \notin live
      PROVE  RedisInv'
  <2> DEFINE s == [q EXCEPT !.pc = "command", !.conn = c]
  <2>1. /\ s \in RStates /\ s.conn = c /\ s.pc = "command" /\ s.calm = q.calm /\ s.try = q.try
    BY <1>1 DEF RStates
  <2> HIDE DEF s
  <2>2. MutexOf(r, s, holder') /\ CalmOf(s, up, idle', shared', dead')
    BY <1>1, <1>2, <1>4, <2>1, RedisTypes DEF MutexOf, CalmOf, Calls
  <2>3. /\ Set(r, s) /\ dead' \subseteq live' /\ dead' \subseteq dead /\ shared' = shared
        /\ shared' \in Conns \cup {0}
    BY <1>2, <1>4, RedisTypes DEF s
  <2> QED
    BY <1>2, <1>4, <2>1, <2>2, <2>3, OwnStep
<1>5. CASE /\ q.conn = 0 /\ idle # <<>> /\ idle' = Front(idle)
           /\ Set(r, [q EXCEPT !.pc = "command", !.conn = Last(idle)])
           /\ UNCHANGED <<live, holder>>
  <2> DEFINE n == Len(idle)
  <2>1. n \in Nat /\ n >= 1 /\ n \in DOMAIN idle /\ Last(idle) \in Conns /\ Last(idle) = idle[n]
    BY <1>5, RedisTypes DEF Last
  <2>2. /\ idle' \in Seq(Conns) /\ Len(idle') = n - 1 /\ DOMAIN idle' = 1 .. n - 1
        /\ \A i \in 1 .. n - 1 : idle'[i] = idle[i] /\ i \in DOMAIN idle
    BY <1>5, <2>1, RedisTypes, FrontProperties
  <2>3. /\ rq'[r].conn = idle[n] /\ \A u \in RedisRequests \ {r} : rq'[u] = rq[u]
    <3>1. [q EXCEPT !.pc = "command", !.conn = Last(idle)] \in RStates
      BY <1>1, <2>1 DEF RStates
    <3>2. /\ rq'[r] = [q EXCEPT !.pc = "command", !.conn = Last(idle)]
          /\ \A u \in RedisRequests \ {r} : rq'[u] = rq[u]
      BY <1>5, <3>1, SetFields
    <3> QED
      BY <1>1, <1>5, <2>1, <3>1, <3>2 DEF RStates
  <2>4. \A i \in DOMAIN idle : i \in 1 .. n - 1 \/ i = n
    BY <2>1, RedisTypes
  <2> HIDE DEF n
  <2>5. Placed'
    BY <1>2, <1>5, <2>1, <2>2, <2>3, <2>4, RedisTypes DEF RedisInv, Placed
  <2>6. Len(idle') <= PoolMax
    BY <2>1, <2>2, RedisTypes, RedisAssumption DEF n
  <2> QED
    BY <1>4, <1>5, <2>1, <2>2, <2>5, <2>6, RedisTypes
<1>6. ASSUME q.conn = 0, NEW c \in Conns, NewConnection(c),
             Set(r, [q EXCEPT !.pc = "command", !.conn = c]), UNCHANGED <<idle, holder>>
      PROVE  RedisInv'
  <2>1. c \notin live /\ live' = live \cup {c}
    BY <1>6 DEF NewConnection
  <2>2. rq'[r].conn = c /\ \A u \in RedisRequests \ {r} : rq'[u] = rq[u]
    <3>1. [q EXCEPT !.pc = "command", !.conn = c] \in RStates
      BY <1>1 DEF RStates
    <3>2. /\ rq'[r] = [q EXCEPT !.pc = "command", !.conn = c]
          /\ \A u \in RedisRequests \ {r} : rq'[u] = rq[u]
      BY <1>6, <3>1, SetFields
    <3> QED
      BY <1>1, <3>1, <3>2 DEF RStates
  <2>3. Placed'
    BY <1>2, <1>6, <2>1, <2>2, RedisTypes DEF RedisInv, Placed
  <2> QED
    BY <1>4, <1>6, <2>1, <2>3, RedisTypes
<1>7. CASE NoConnection(r) /\ UNCHANGED <<live, idle>>
  BY <1>2, <1>7, NoConnectionStep
<1> QED
  BY <1>3, <1>5, <1>6, <1>7 DEF ConnectScoped

\* What a failed attempt leaves of a request.
LEMMA AgainFields ==
    ASSUME NEW s \in RStates, s.try <= MaxTries
    PROVE  /\ Again(s) \in RStates /\ Again(s).conn = s.conn /\ Again(s).ok = s.ok
           /\ Again(s).held = s.held /\ Again(s).calm = s.calm /\ Again(s).try = s.try + 1
           /\ Again(s).pc = IF s.try = 1 THEN "connect" ELSE "release"
<1>1. s.try \in {1, 2} /\ s.try + 1 \in 1 .. MaxTries + 1 /\ (s.try < MaxTries <=> s.try = 1)
  BY DEF RStates, MaxTries
<1>2. Again(s) = [s EXCEPT !.try = @ + 1, !.pc = IF s.try < MaxTries THEN "connect" ELSE "release"]
  BY DEF Again
<1> QED
  BY <1>1, <1>2 DEF RStates

\* A connection is freed that request r, or the shared place, had.
LEMMA FreeOwn ==
    ASSUME RedisInv, NEW r \in RedisRequests, NEW s \in RStates, Set(r, s), s.conn = 0,
           Free(rq[r].conn), UNCHANGED <<idle, shared>>
    PROVE  Placed'
<1>1. rq'[r].conn = 0 /\ \A u \in RedisRequests \ {r} : rq'[u] = rq[u]
  BY SetFields
<1>2. live' = live \ {rq[r].conn}
  BY DEF Free
<1>3. CASE rq[r].conn = 0
  <2>1. live' = live /\ \A u \in RedisRequests : rq'[u].conn = rq[u].conn
    BY <1>1, <1>2, <1>3, RedisTypes
  <2> QED
    BY <2>1, PlacesKept
<1>4. CASE rq[r].conn # 0
  <2> DEFINE k == rq[r].conn
  <2>1. /\ k \in live /\ k # shared /\ \A u \in RedisRequests \ {r} : rq[u].conn # k
        /\ \A i \in DOMAIN idle : idle[i] # k
    BY <1>4 DEF RedisInv, Placed
  <2>2. \A i \in DOMAIN idle : idle[i] # 0
    BY RedisTypes
  <2>3. live' = live \ {k}
    BY <1>2
  <2>4. \A u \in RedisRequests : rq'[u].conn # k /\ (rq'[u].conn = rq[u].conn \/ rq'[u].conn = 0)
    BY <1>1, <1>4, <2>1
  <2>5. \A u \in RedisRequests : rq[u].conn # k => rq'[u].conn = rq[u].conn
    BY <1>1
  <2> HIDE DEF k
  <2> QED
    BY <2>1, <2>2, <2>3, <2>4, <2>5 DEF RedisInv, Placed
<1> QED
  BY <1>3, <1>4

\* The shared connection is freed.
LEMMA FreeShared ==
    ASSUME RedisInv, NEW r \in RedisRequests, NEW s \in RStates, Set(r, s), s.conn = rq[r].conn,
           Free(shared), idle' = idle, shared' = 0
    PROVE  Placed'
<1>1. \A u \in RedisRequests : rq'[u].conn = rq[u].conn
  BY SetFields
<1>2. live' = live \ {shared}
  BY DEF Free
<1>3. \A i \in DOMAIN idle : idle[i] # 0
  BY RedisTypes
<1> QED
  BY <1>1, <1>2, <1>3, RedisTypes DEF RedisInv, Placed

\* Freeing a connection keeps the types.
LEMMA FreeType ==
    ASSUME RedisInv, NEW c, Free(c)
    PROVE  live' \subseteq Conns /\ dead' \subseteq live' /\ dead' \subseteq dead
  BY RedisTypes DEF Free

\* A command is sent, and answered or not.
LEMMA CommandStep ==
    ASSUME RedisInv, NEW r \in RedisRequests, CommandRefused(r) \/ CommandBroken(r)
    PROVE  RedisInv'
<1> DEFINE q == rq[r]
<1>1. /\ q \in RStates /\ MutexOf(r, q, holder) /\ CalmOf(q, up, idle, shared, dead)
      /\ scoped \in BOOLEAN /\ up \in BOOLEAN
  BY RequestKnown, RedisTypes
<1>2. /\ q.pc = "command" /\ q.try \in {1, 2} /\ q.try <= MaxTries /\ (~scoped => holder = r)
      /\ UNCHANGED <<scoped, up, idle, holder>>
  BY <1>1 DEF CommandRefused, CommandBroken, Rest, MutexOf, RStates, MaxTries
<1>3. /\ idle' \in Seq(Conns) /\ Len(idle') <= PoolMax /\ (idle = <<>> => idle' = <<>>)
  BY <1>2, RedisTypes
<1>4. CASE CommandRefused(r)
  <2> DEFINE s == [Again(rq[r]) EXCEPT !.calm = FALSE]
  <2>1. /\ s \in RStates /\ s.conn = q.conn /\ s.calm = FALSE /\ s.try = q.try + 1
        /\ s.pc = IF q.try = 1 THEN "connect" ELSE "release"
    BY <1>1, <1>2, AgainFields DEF RStates
  <2>2. Set(r, s)
    BY <1>4 DEF CommandRefused
  <2> HIDE DEF s
  <2>3. MutexOf(r, s, holder') /\ \A u, i, c, d : CalmOf(s, u, i, c, d)
    BY <1>2, <2>1 DEF MutexOf, CalmOf, MaxTries
  <2>4. CASE scoped
    <3>1. UNCHANGED <<live, dead, shared>>
      BY <1>4, <2>4 DEF CommandRefused
    <3> QED
      BY <1>2, <2>1, <2>2, <2>3, <3>1, StayStep
  <2>5. CASE ~scoped
    <3>1. Free(shared) /\ shared' = 0
      BY <1>4, <2>5 DEF CommandRefused
    <3>2. Placed'
      BY <1>2, <2>1, <2>2, <3>1, FreeShared
    <3>3. live' \subseteq Conns /\ dead' \subseteq live' /\ dead' \subseteq dead
      BY <3>1, FreeType
    <3> QED
      BY <1>2, <1>3, <2>1, <2>2, <2>3, <2>5, <3>1, <3>2, <3>3, OwnStep
  <2> QED
    BY <1>1, <2>4, <2>5
<1>5. CASE CommandBroken(r)
  <2>1. CASE scoped
    <3> DEFINE s == [rq[r] EXCEPT !.conn = 0, !.pc = "flush"]
    <3>1. /\ s \in RStates /\ s.conn = 0 /\ s.calm = q.calm /\ s.try = q.try /\ s.pc = "flush"
      BY <1>1 DEF RStates
    <3>2. Set(r, s) /\ Free(q.conn) /\ shared' = shared /\ (q.conn \in dead \/ ~up)
      BY <1>5, <2>1 DEF CommandBroken
    <3> HIDE DEF s
    <3>3. MutexOf(r, s, holder')
      BY <1>2, <2>1, <3>1 DEF MutexOf
    <3>4. CalmOf(s, up, idle', shared', dead')
      BY <1>1, <1>2, <2>1, <3>1, <3>2 DEF CalmOf, Calls
    <3>5. live' \subseteq Conns /\ dead' \subseteq live' /\ dead' \subseteq dead
      BY <3>2, FreeType
    <3>6. Placed'
      BY <1>2, <3>1, <3>2, FreeOwn
    <3>7. shared' \in Conns \cup {0}
      BY <3>2, RedisTypes
    <3> QED
      BY <1>2, <1>3, <3>1, <3>2, <3>3, <3>4, <3>5, <3>6, <3>7, OwnStep
  <2>2. CASE ~scoped
    <3> DEFINE s == Again(rq[r])
    <3>1. /\ s \in RStates /\ s.conn = q.conn /\ s.calm = q.calm /\ s.try = q.try + 1
          /\ s.pc = IF q.try = 1 THEN "connect" ELSE "release"
      BY <1>1, <1>2, AgainFields
    <3>2. Set(r, s) /\ Free(shared) /\ shared' = 0 /\ (shared \in dead \/ ~up)
      BY <1>5, <2>2 DEF CommandBroken
    <3> HIDE DEF s
    <3>3. MutexOf(r, s, holder')
      BY <1>2, <3>1 DEF MutexOf, MaxTries
    <3>4. CalmOf(s, up, idle', shared', dead')
      BY <1>1, <1>2, <2>2, <3>1, <3>2 DEF CalmOf, Calls
    <3>5. live' \subseteq Conns /\ dead' \subseteq live' /\ dead' \subseteq dead
      BY <3>2, FreeType
    <3>6. Placed'
      BY <1>2, <3>1, <3>2, FreeShared
    <3> QED
      BY <1>2, <1>3, <2>2, <3>1, <3>2, <3>3, <3>4, <3>5, <3>6, OwnStep
  <2> QED
    BY <1>1, <2>1, <2>2
<1> QED
  BY <1>4, <1>5

\* The pool is flushed before the second attempt.
LEMMA FlushStep ==
    ASSUME RedisInv, NEW r \in RedisRequests, IdleFlush(r)
    PROVE  RedisInv'
<1> DEFINE q == rq[r]
           a == Again(rq[r])
<1>1. /\ q \in RStates /\ MutexOf(r, q, holder) /\ CalmOf(q, up, idle, shared, dead)
  BY RequestKnown
<1>2. /\ q.pc = "flush" /\ q.try \in {1, 2} /\ q.try <= MaxTries /\ scoped
      /\ UNCHANGED <<scoped, up, shared, holder>>
  BY <1>1 DEF IdleFlush, Rest, MutexOf, RStates, MaxTries
<1>3. /\ a \in RStates /\ a.conn = q.conn /\ a.calm = q.calm /\ a.try = q.try + 1
      /\ a.pc = IF q.try = 1 THEN "connect" ELSE "release"
  BY <1>1, <1>2, AgainFields
<1> HIDE DEF a
<1>4. CASE live' = live \ Range(idle) /\ dead' = dead \ Range(idle) /\ idle' = <<>> /\ Set(r, a)
  <2>1. MutexOf(r, a, holder') /\ CalmOf(a, up, idle', shared', dead')
    BY <1>1, <1>2, <1>3, <1>4 DEF MutexOf, CalmOf, Calls, MaxTries
  <2>2. \A u \in RedisRequests : rq'[u].conn = rq[u].conn
    BY <1>3, <1>4, SetFields
  <2>3. Range(idle) = {idle[i] : i \in DOMAIN idle} /\ DOMAIN idle' = {}
    BY <1>4 DEF Range
  <2>4. Placed'
    BY <1>2, <1>4, <2>2, <2>3 DEF RedisInv, Placed
  <2>5. /\ live' \subseteq Conns /\ dead' \subseteq live' /\ dead' \subseteq dead
        /\ idle' \in Seq(Conns) /\ Len(idle') <= PoolMax /\ shared' \in Conns \cup {0}
    BY <1>2, <1>4, RedisTypes, RedisAssumption
  <2> QED
    BY <1>2, <1>3, <1>4, <2>1, <2>4, <2>5, OwnStep
<1>5. CASE Set(r, [a EXCEPT !.calm = FALSE]) /\ UNCHANGED <<live, dead, idle>>
  <2> DEFINE s == [a EXCEPT !.calm = FALSE]
  <2>1. s \in RStates /\ s.conn = q.conn /\ s.calm = FALSE /\ s.try = q.try + 1 /\ s.pc = a.pc
    BY <1>3 DEF RStates
  <2> HIDE DEF s
  <2>2. MutexOf(r, s, holder') /\ CalmOf(s, up, idle, shared, dead)
    BY <1>2, <1>3, <2>1 DEF MutexOf, CalmOf, MaxTries
  <2> QED
    BY <1>2, <1>5, <2>1, <2>2, StayStep DEF s
<1> QED
  BY <1>4, <1>5 DEF IdleFlush, a

\* What Disturbed leaves of the requests.
LEMMA DisturbedFields ==
    ASSUME RedisInv
    PROVE  /\ Disturbed(rq) \in [RedisRequests -> RStates]
           /\ \A u \in RedisRequests :
                 LET d == Disturbed(rq)[u]
                 IN  /\ d.pc = rq[u].pc /\ d.conn = rq[u].conn /\ d.try = rq[u].try
                     /\ d.ok = rq[u].ok /\ d.held = rq[u].held
                     /\ d.calm => rq[u].calm /\ ~Calls(rq[u])
<1> SUFFICES ASSUME NEW u \in RedisRequests
             PROVE  LET d == Disturbed(rq)[u]
                    IN  /\ d \in RStates
                        /\ d.pc = rq[u].pc /\ d.conn = rq[u].conn /\ d.try = rq[u].try
                        /\ d.ok = rq[u].ok /\ d.held = rq[u].held
                        /\ d.calm => rq[u].calm /\ ~Calls(rq[u])
  BY DEF Disturbed
<1>1. rq[u] \in RStates
  BY RedisTypes
<1>2. CASE Calls(rq[u])
  <2>1. Disturbed(rq)[u] = [rq[u] EXCEPT !.calm = FALSE]
    BY <1>2 DEF Disturbed
  <2> QED
    BY <1>1, <2>1 DEF RStates
<1>3. CASE ~Calls(rq[u])
  <2>1. Disturbed(rq)[u] = rq[u]
    BY <1>3 DEF Disturbed
  <2> QED
    BY <1>1, <1>3, <2>1
<1> QED
  BY <1>2, <1>3

\* A step that disturbs every call, or begins a request anew.
LEMMA DisturbStep ==
    ASSUME RedisInv, rq' \in [RedisRequests -> RStates], UNCHANGED <<scoped, holder>>,
           \A u \in RedisRequests :
              \/ rq'[u] = Begun
              \/ /\ rq'[u].pc = rq[u].pc /\ rq'[u].conn = rq[u].conn /\ rq'[u].try = rq[u].try
                 /\ rq'[u].ok = rq[u].ok /\ rq'[u].held = rq[u].held
                 /\ rq'[u].calm => rq[u].calm /\ ~Calls(rq[u]),
           up' \in BOOLEAN, live' \subseteq Conns, dead' \subseteq live',
           idle' \in Seq(Conns), Len(idle') <= PoolMax, shared' \in Conns \cup {0}, Placed'
    PROVE  RedisInv'
<1>1. RedisTypeOK'
  BY RedisTypes, TypeStep
<1>2. ASSUME NEW u \in RedisRequests
      PROVE  MutexOf(u, rq[u], holder)' /\ CalmOf(rq[u], up, idle, shared, dead)'
  <2>1. MutexOf(u, rq[u], holder) /\ CalmOf(rq[u], up, idle, shared, dead)
    BY RequestKnown
  <2>2. CASE rq'[u] = Begun
    BY <2>2, BegunType DEF MutexOf, CalmOf, Calls, MaxTries
  <2>3. CASE /\ rq'[u].pc = rq[u].pc /\ rq'[u].try = rq[u].try
             /\ rq'[u].ok = rq[u].ok /\ rq'[u].held = rq[u].held
             /\ rq'[u].calm => rq[u].calm /\ ~Calls(rq[u])
    BY <2>1, <2>3 DEF MutexOf, CalmOf, Calls
  <2> QED
    BY <2>2, <2>3
<1> QED
  BY <1>1, <1>2 DEF RedisInv, MutexHeld, CalmTry

\* The server goes down or comes back.
LEMMA ServerStep ==
    ASSUME RedisInv, ServerDown \/ ServerUp
    PROVE  RedisInv'
<1>1. /\ rq' = Disturbed(rq) /\ UNCHANGED <<scoped, live, idle, shared, holder>>
      /\ up' \in BOOLEAN /\ dead' \subseteq live'
  BY RedisTypes DEF ServerDown, ServerUp
<1>2. Placed'
  BY <1>1, DisturbedFields, PlacesKept
<1> QED
  BY <1>1, <1>2, DisturbedFields, RedisTypes, DisturbStep

\* A request ends: its connection goes to the pool or is freed.
LEMMA EndRequestStep ==
    ASSUME RedisInv, NEW r \in RedisRequests, EndRedisRequest(r)
    PROVE  RedisInv'
<1> DEFINE c == rq[r].conn
<1>1. c \in Conns \cup {0} /\ UNCHANGED <<scoped, up, shared, holder>> /\ rq[r].pc = "done"
  BY RedisTypes DEF EndRedisRequest, Rest, RStates
<1>2. CASE c = 0
  <2>1. rq' = [rq EXCEPT ![r] = Begun] /\ UNCHANGED <<live, dead, idle>>
    BY <1>2 DEF EndRedisRequest
  <2>2. rq' \in [RedisRequests -> RStates] /\ rq'[r] = Begun /\ \A u \in RedisRequests \ {r} : rq'[u] = rq[u]
    BY <2>1, RedisTypes, BegunType
  <2>3. Set(r, Begun) /\ Begun.conn = c
    BY <1>2, <2>1, BegunType DEF Set
  <2>4. MutexOf(r, Begun, holder') /\ CalmOf(Begun, up, idle, shared, dead)
    BY BegunType DEF MutexOf, CalmOf, Calls, MaxTries
  <2> QED
    BY <1>1, <2>1, <2>3, <2>4, BegunType, StayStep
<1>3. CASE c # 0
  <2>1. rq' = [Disturbed(rq) EXCEPT ![r] = Begun]
    BY <1>3 DEF EndRedisRequest
  <2>2. /\ rq' \in [RedisRequests -> RStates] /\ rq'[r] = Begun
        /\ \A u \in RedisRequests \ {r} : rq'[u] = Disturbed(rq)[u]
    BY <2>1, DisturbedFields, BegunType
  <2>3. /\ rq'[r].conn = 0 /\ \A u \in RedisRequests \ {r} : rq'[u].conn = rq[u].conn
    BY <2>2, DisturbedFields, BegunType
  <2>4. /\ c \in live /\ c # shared /\ \A u \in RedisRequests \ {r} : rq[u].conn # c
        /\ \A i \in DOMAIN idle : idle[i] # c
    BY <1>3 DEF RedisInv, Placed
  <2>5. \A i \in DOMAIN idle : idle[i] # 0
    BY RedisTypes
  <2>6. \A u \in RedisRequests : rq'[u].conn # c /\ (rq'[u].conn = rq[u].conn \/ rq'[u].conn = 0)
    BY <1>3, <2>3, <2>4
  <2>7. \A u \in RedisRequests : rq[u].conn # c => rq'[u].conn = rq[u].conn
    BY <2>3
  <2>8. CASE Len(idle) < PoolMax /\ idle' = Append(idle, c) /\ UNCHANGED <<live, dead>>
    <3> DEFINE n == Len(idle) + 1
    <3>1. /\ idle' \in Seq(Conns) /\ Len(idle') = n /\ DOMAIN idle' = DOMAIN idle \cup {n} /\ idle'[n] = c
          /\ n \notin DOMAIN idle /\ \A i \in DOMAIN idle : idle'[i] = idle[i]
      BY <1>1, <1>3, <2>8, RedisTypes
    <3>2. Len(idle') <= PoolMax
      BY <2>8, <3>1, RedisTypes, RedisAssumption
    <3> HIDE DEF n, c
    <3>3. Placed'
      <4>1. /\ \A u \in RedisRequests : rq'[u].conn # 0 => rq'[u].conn \in live'
            /\ \A i \in DOMAIN idle' : idle'[i] \in live'
            /\ shared' # 0 => shared' \in live'
        BY <1>1, <2>4, <2>6, <2>8, <3>1 DEF RedisInv, Placed
      <4>2. ASSUME NEW k \in live'
            PROVE  \/ \E u \in RedisRequests : rq'[u].conn = k
                   \/ \E i \in DOMAIN idle' : idle'[i] = k
                   \/ shared' = k
        BY <1>1, <2>7, <2>8, <3>1, <4>2 DEF RedisInv, Placed
      <4>3. \A u, v \in RedisRequests : u # v /\ rq'[u].conn = rq'[v].conn => rq'[u].conn = 0
        BY <2>6 DEF RedisInv, Placed
      <4>4. \A i, j \in DOMAIN idle' : idle'[i] = idle'[j] => i = j
        BY <2>4, <3>1 DEF RedisInv, Placed
      <4>5. \A u \in RedisRequests, i \in DOMAIN idle' : rq'[u].conn # idle'[i]
        BY <2>5, <2>6, <3>1 DEF RedisInv, Placed
      <4>6. /\ \A u \in RedisRequests : rq'[u].conn = shared' => shared' = 0
            /\ \A i \in DOMAIN idle' : idle'[i] # shared'
        BY <1>1, <2>4, <2>6, <3>1 DEF RedisInv, Placed
      <4> QED
        BY <4>1, <4>2, <4>3, <4>4, <4>5, <4>6 DEF Placed
    <3> QED
      BY <1>1, <2>2, <2>8, <3>1, <3>2, <3>3, DisturbedFields, RedisTypes, DisturbStep
  <2>9. CASE Free(c) /\ UNCHANGED idle
    <3>1. live' = live \ {c}
      BY <2>9 DEF Free
    <3>2. live' \subseteq Conns /\ dead' \subseteq live'
      BY <2>9, FreeType
    <3> HIDE DEF c
    <3>3. Placed'
      BY <1>1, <2>4, <2>5, <2>6, <2>7, <2>9, <3>1 DEF RedisInv, Placed
    <3> QED
      BY <1>1, <2>2, <2>9, <3>2, <3>3, DisturbedFields, RedisTypes, DisturbStep
  <2> QED
    BY <1>3, <2>8, <2>9 DEF EndRedisRequest
<1> QED
  BY <1>2, <1>3

\* Every step of the Redis backend preserves the invariant.
LEMMA RedisStep ==
    ASSUME RedisInv, [RedisNext]_redisVars
    PROVE  RedisInv'
<1>1. CASE UNCHANGED redisVars
  BY <1>1 DEF redisVars, RedisInv, RedisTypeOK, Placed, MutexHeld, MutexOf, CalmTry, CalmOf, Calls
<1>2. CASE RedisNext
  BY <1>2, BeginEndStep, ConnectSharedStep, ConnectScopedStep, CommandStep, FlushStep,
     EndRequestStep, ServerStep DEF RedisNext, RedisWork
<1> QED
  BY <1>1, <1>2

\* The invariant of the Redis backend always holds, for any number of
\* requests and connections and both modes of keeping them.
THEOREM RedisInvariance == RedisSpec => []RedisInv
<1>1. RedisInv /\ [RedisNext]_redisVars => RedisInv'
  BY RedisStep
<1> QED
  BY <1>1, RedisInitInv, PTL DEF RedisSpec

\* Connections that are in one place each are owned by one request at most.
LEMMA OwnedFromPlaced ==
    ASSUME RedisInv
    PROVE  ConnectionOwned
<1> DEFINE users(c) == {r \in RedisRequests : rq[r].conn = c}
           slots(c) == {n \in DOMAIN idle : idle[n] = c}
           one(c) == IF shared = c THEN 1 ELSE 0
<1> SUFFICES ASSUME NEW c \in Conns
             PROVE  Cardinality(users(c)) + Cardinality(slots(c)) + one(c) = IF c \in live THEN 1 ELSE 0
  BY DEF ConnectionOwned
<1>1. c # 0
  BY RedisTypes
<1>2. \A S : (\E x : S = {x}) => Cardinality(S) = 1
  BY FS_Singleton
<1>3. Cardinality({}) = 0
  BY FS_EmptySet
<1>4. CASE \E r \in RedisRequests : rq[r].conn = c
  <2>1. PICK r \in RedisRequests : rq[r].conn = c
    BY <1>4
  <2>2. users(c) = {r} /\ slots(c) = {} /\ one(c) = 0 /\ c \in live
    BY <1>1, <2>1 DEF RedisInv, Placed
  <2> HIDE DEF users, slots, one
  <2>3. Cardinality(users(c)) = 1 /\ Cardinality(slots(c)) = 0
    BY <1>2, <1>3, <2>2
  <2> QED
    BY <2>2, <2>3
<1>5. CASE \E n \in DOMAIN idle : idle[n] = c
  <2>1. PICK n \in DOMAIN idle : idle[n] = c
    BY <1>5
  <2>2. users(c) = {} /\ slots(c) = {n} /\ one(c) = 0 /\ c \in live
    BY <1>1, <2>1 DEF RedisInv, Placed
  <2> HIDE DEF users, slots, one
  <2>3. Cardinality(users(c)) = 0 /\ Cardinality(slots(c)) = 1
    BY <1>2, <1>3, <2>2
  <2> QED
    BY <2>2, <2>3
<1>6. CASE shared = c
  <2>2. users(c) = {} /\ slots(c) = {} /\ one(c) = 1 /\ c \in live
    BY <1>1, <1>6 DEF RedisInv, Placed
  <2> HIDE DEF users, slots, one
  <2>3. Cardinality(users(c)) = 0 /\ Cardinality(slots(c)) = 0
    BY <1>3, <2>2
  <2> QED
    BY <2>2, <2>3
<1>7. CASE /\ ~\E r \in RedisRequests : rq[r].conn = c
           /\ ~\E n \in DOMAIN idle : idle[n] = c
           /\ shared # c
  <2>2. users(c) = {} /\ slots(c) = {} /\ one(c) = 0 /\ c \notin live
    BY <1>7 DEF RedisInv, Placed
  <2> HIDE DEF users, slots, one
  <2>3. Cardinality(users(c)) = 0 /\ Cardinality(slots(c)) = 0
    BY <1>3, <2>2
  <2> QED
    BY <2>2, <2>3
<1> QED
  BY <1>4, <1>5, <1>6, <1>7

\* No two requests ever use one connection, the shared one is used under the
\* mutex only, and a server that has come back is reached at the second
\* attempt however many dead connections the pool held.
THEOREM ConnectionsAlwaysSafe == RedisSpec => []ConnectionsSafe
<1>1. RedisInv => ConnectionsSafe
  <2> SUFFICES ASSUME RedisInv
               PROVE  ConnectionsSafe
    OBVIOUS
  <2>1. ConnectionOwned
    BY OwnedFromPlaced
  <2>2. SharedUnderMutex
    BY DEF RedisInv, MutexHeld, MutexOf, SharedUnderMutex
  <2>3. SecondTrySucceeds
    BY DEF RedisInv, CalmTry, CalmOf, SecondTrySucceeds
  <2> QED
    BY <2>1, <2>2, <2>3 DEF ConnectionsSafe
<1> QED
  BY <1>1, RedisInvariance, PTL

-----------------------------------------------------------------------------
(* Configurations                                                            *)

StaticsSpace == [marked : BOOLEAN, refresh_mutex : {"null", "live", "dead"},
                 dir_default : {"null", "live", "dead"}]

\* What a server's directives say comes from that server, in whole groups,
\* and has no keys.
OwnSound(s, c) ==
    /\ c.proxy.host \in {s, Nobody} /\ c.auth.method \in {s, Nobody}
    /\ c.proxy.credentials \in {c.proxy.host, Nobody}
    /\ c.auth.alg \in {c.auth.method, Nobody}
    /\ ~c.merged /\ \A i \in 1..2 : c.key[i] = NoSecret

\* A key that an object has is that of its passphrase, and so is one in the
\* cache of derived keys.
KeysTrue ==
    /\ \A s \in Servers, i \in 1..2 : conf[s].key[i] \in {NoSecret, KeyOf(conf[s].secret[i])}
    /\ \A x \in Secrets : kdf[x] \in {NoSecret, KeyOf(x)}

\* From the merge on, the merged objects are those of the virtual hosts with
\* directives of their own.
MergesDone ==
    cphase \in {"post", "check", "running"} =>
        \A s \in Servers : conf[s].merged <=> s # Main /\ IsSet(s)

\* The server before the cursor has keys, and a virtual host with
\* directives of its own was found complete.
Checked(s) ==
    /\ \A i \in 1..2 : conf[Object(s)].key[i] = KeyOf(conf[Object(s)].secret[i])
    /\ s # Main /\ IsSet(s) => Complete(conf[s])

CheckedSoFar ==
    /\ cphase = "check" => \A s \in Servers : s < cursor => Checked(s)
    /\ cphase = "running" => \A s \in Servers : Checked(s)

\* The process-wide objects: made by the first server whose turn it is, gone
\* with the configuration, never destroyed and kept.
StaticsMade ==
    /\ cphase = "read" \/ (cphase = "post" /\ cursor = Main) =>
         statics.refresh_mutex = "null" /\ statics.dir_default \in {"null", "live"}
    /\ (cphase = "post" /\ cursor # Main) \/ cphase \in {"check", "running"} =>
         statics.refresh_mutex = "live" /\ statics.dir_default = "live"

ConfigInv ==
    /\ ConfigTypeOK /\ KeysTrue /\ MergesDone /\ CheckedSoFar /\ StaticsMade /\ GroupsWhole
    /\ \A s \in Servers : OwnSound(s, own[s])

LEMMA CreatedSound == Created \in Config /\ \A s \in Servers : OwnSound(s, Created)
  BY DEF Created, Config, OwnSound, Origins, Domains, Secrets

LEMMA ConfigBounds ==
    ServerCount \in Nat \ {0} /\ WithDirectives \subseteq 1..ServerCount /\ DirectiveBound \in Nat /\ RestartBound \in Nat
  BY ConfigAssumption, Zenon

LEMMA MainServer == Main \in Servers /\ Main \in 1..ServerCount + 1 /\ ServerCount \in Nat /\ Servers \subseteq Nat
  BY ConfigBounds DEF Main, Servers

\* The objects of a configuration that has not been read: nothing is merged
\* and nothing has a key.
LEMMA NothingRead ==
    ASSUME conf \in [Servers -> Config], kdf = NoKeys, cphase \in {"read", "refused"},
           \A s \in Servers : conf[s] = Created
    PROVE  /\ kdf \in [Secrets -> Secrets]
           /\ KeysTrue /\ MergesDone /\ CheckedSoFar /\ GroupsWhole
<1>1. kdf \in [Secrets -> Secrets] /\ \A x \in Secrets : kdf[x] = NoSecret
  BY DEF NoKeys, Secrets
<1>2. \A i \in 1..2 : Created.key[i] = NoSecret
  BY DEF Created
<1>3. KeysTrue
  BY <1>1, <1>2 DEF KeysTrue
<1>4. GroupsWhole
  BY DEF GroupsWhole, Created
<1> QED
  BY <1>1, <1>3, <1>4 DEF MergesDone, CheckedSoFar

LEMMA ConfigInitInv == ConfigInit => ConfigInv
<1> SUFFICES ASSUME ConfigInit PROVE ConfigInv
  OBVIOUS
<1>1. /\ \A s \in Servers : own[s] = Created /\ conf[s] = Created
      /\ conf \in [Servers -> Config] /\ own \in [Servers -> Config]
  BY CreatedSound DEF ConfigInit
<1>2. /\ kdf \in [Secrets -> Secrets] /\ KeysTrue /\ MergesDone /\ CheckedSoFar /\ GroupsWhole
  BY <1>1, NothingRead DEF ConfigInit
<1>3. ConfigTypeOK
  BY <1>1, <1>2, MainServer, ConfigBounds DEF ConfigInit, ConfigTypeOK
<1>4. StaticsMade
  BY DEF ConfigInit, StaticsMade
<1> QED
  BY <1>1, <1>2, <1>3, <1>4, CreatedSound DEF ConfigInv

-----------------------------------------------------------------------------
(* Directives                                                                *)

LEMMA AcceptsStep ==
    ASSUME ConfigInv, NEW s \in Servers, NEW c \in Config, OwnSound(s, c), Accepts(s, c)
    PROVE  ConfigInv'
<1>1. /\ cphase = "read" /\ written < DirectiveBound /\ written' = written + 1
      /\ own' = [own EXCEPT ![s] = c] /\ UNCHANGED <<cphase, conf, cursor, kdf, statics, restarts>>
  BY DEF Accepts
<1>2. own' \in [Servers -> Config] /\ own'[s] = c /\ \A t \in Servers : t # s => own'[t] = own[t]
  BY <1>1 DEF ConfigInv, ConfigTypeOK
<1>3. ConfigTypeOK'
  BY <1>1, <1>2, ConfigBounds DEF ConfigInv, ConfigTypeOK
<1>4. \A t \in Servers : OwnSound(t, own'[t])
  BY <1>2 DEF ConfigInv
<1>5. KeysTrue' /\ MergesDone' /\ CheckedSoFar' /\ StaticsMade' /\ GroupsWhole'
  BY <1>1 DEF ConfigInv, KeysTrue, MergesDone, CheckedSoFar, StaticsMade, GroupsWhole
<1> QED
  BY <1>3, <1>4, <1>5 DEF ConfigInv

LEMMA SetMemberSound ==
    ASSUME ConfigInv, NEW s \in Servers, NEW m \in Members
    PROVE  [own[s] EXCEPT !.by[m] = s] \in Config /\ OwnSound(s, [own[s] EXCEPT !.by[m] = s])
<1>1. own[s] \in Config /\ OwnSound(s, own[s])
  BY DEF ConfigInv, ConfigTypeOK
<1>2. PICK b : b = [own[s].by EXCEPT ![m] = s]
  OBVIOUS
<1>3. b \in [Members -> Origins]
  BY <1>1, <1>2 DEF Config, Origins
<1>4. [own[s] EXCEPT !.by[m] = s] = [own[s] EXCEPT !.by = b]
  BY <1>1, <1>2 DEF Config
<1> QED
  BY <1>1, <1>3, <1>4 DEF Config, OwnSound

LEMMA SetRedirectUriSound ==
    ASSUME ConfigInv, NEW s \in Servers, NEW r \in BOOLEAN, SetRedirectUri(s, r)
    PROVE  ConfigInv'
<1>1. own[s] \in Config /\ OwnSound(s, own[s])
  BY DEF ConfigInv, ConfigTypeOK
<1>2. PICK b : b = [own[s].by EXCEPT !["redirect_uri"] = s]
  OBVIOUS
<1>3. b \in [Members -> Origins]
  BY <1>1, <1>2 DEF Config, Origins
<1>4. PICK c : c = [own[s] EXCEPT !.by = b, !.relative = r]
  OBVIOUS
<1>5. c \in Config /\ OwnSound(s, c)
  BY <1>1, <1>3, <1>4 DEF Config, OwnSound
<1>6. Accepts(s, c)
  BY <1>2, <1>4 DEF SetRedirectUri
<1> QED
  BY <1>5, <1>6, AcceptsStep

LEMMA SetCookieDomainSound ==
    ASSUME ConfigInv, NEW s \in Servers, NEW d \in {s, Everywhere}, SetCookieDomain(s, d)
    PROVE  ConfigInv'
<1>1. own[s] \in Config /\ OwnSound(s, own[s])
  BY DEF ConfigInv, ConfigTypeOK
<1>2. d \in Domains
  BY DEF Domains, Origins
<1>3. PICK c : c = [own[s] EXCEPT !.domain = d]
  OBVIOUS
<1>4. c \in Config /\ OwnSound(s, c)
  BY <1>1, <1>2, <1>3 DEF Config, OwnSound
<1>5. Accepts(s, c)
  BY <1>3 DEF SetCookieDomain
<1> QED
  BY <1>4, <1>5, AcceptsStep

LEMMA SetPassphraseSound ==
    ASSUME ConfigInv, NEW s \in Servers, NEW first \in Given, NEW second \in {"x", NoSecret},
           SetPassphrase(s, first, second)
    PROVE  ConfigInv'
<1>1. own[s] \in Config /\ OwnSound(s, own[s])
  BY DEF ConfigInv, ConfigTypeOK
<1>2. PICK p : p = [i \in 1..2 |-> IF i = 1 THEN first ELSE IF second = NoSecret THEN own[s].secret[2] ELSE second]
  OBVIOUS
<1>3. p \in [1..2 -> Secrets]
  <2>1. first \in Secrets /\ second \in Secrets /\ own[s].secret[2] \in Secrets
    <3>1. first \in Secrets /\ second \in Secrets
      BY DEF Secrets, Given
    <3>2. own[s].secret \in [1..2 -> Secrets]
      BY <1>1 DEF Config
    <3> QED
      BY <3>1, <3>2
  <2> QED
    BY <1>2, <2>1
<1>4. PICK c : c = [own[s] EXCEPT !.secret = p]
  OBVIOUS
<1>5. c \in Config /\ OwnSound(s, c)
  BY <1>1, <1>3, <1>4 DEF Config, OwnSound
<1>6. Accepts(s, c)
  BY <1>2, <1>4 DEF SetPassphrase
<1> QED
  BY <1>5, <1>6, AcceptsStep

LEMMA SetProxySound ==
    ASSUME ConfigInv, NEW s \in Servers, NEW b \in BOOLEAN, SetProxy(s, b)
    PROVE  ConfigInv'
<1>1. own[s] \in Config /\ OwnSound(s, own[s])
  BY DEF ConfigInv, ConfigTypeOK
<1>2. PICK p : p = [host |-> s, credentials |-> IF b THEN s ELSE own[s].proxy.credentials]
  OBVIOUS
<1>3. /\ p \in [host : Origins, credentials : Origins] /\ p.host = s
      /\ p.credentials \in {s, Nobody}
  BY <1>1, <1>2 DEF Config, OwnSound, Origins
<1>4. PICK c : c = [own[s] EXCEPT !.proxy = p]
  OBVIOUS
<1>5. c \in Config /\ OwnSound(s, c)
  BY <1>1, <1>3, <1>4 DEF Config, OwnSound
<1>6. Accepts(s, c)
  BY <1>2, <1>4 DEF SetProxy
<1> QED
  BY <1>5, <1>6, AcceptsStep

LEMMA SetEndpointAuthSound ==
    ASSUME ConfigInv, NEW s \in Servers, NEW b \in BOOLEAN, SetEndpointAuth(s, b)
    PROVE  ConfigInv'
<1>1. own[s] \in Config /\ OwnSound(s, own[s])
  BY DEF ConfigInv, ConfigTypeOK
<1>2. PICK p : p = [method |-> s, alg |-> IF b THEN s ELSE own[s].auth.alg]
  OBVIOUS
<1>3. p \in [method : Origins, alg : Origins] /\ p.method = s /\ p.alg \in {s, Nobody}
  BY <1>1, <1>2 DEF Config, OwnSound, Origins
<1>4. PICK c : c = [own[s] EXCEPT !.auth = p]
  OBVIOUS
<1>5. c \in Config /\ OwnSound(s, c)
  BY <1>1, <1>3, <1>4 DEF Config, OwnSound
<1>6. Accepts(s, c)
  BY <1>2, <1>4 DEF SetEndpointAuth
<1> QED
  BY <1>5, <1>6, AcceptsStep

LEMMA DirectiveStep == ASSUME ConfigInv, Directive PROVE ConfigInv'
<1>1. PICK s \in WithDirectives :
        \/ \E m \in Members : SetServerMember(s, m) \/ SetProviderMember(s, m) \/ SetOauthMember(s, m)
        \/ \E first \in Given, second \in {"x", NoSecret} : first # second /\ SetPassphrase(s, first, second)
        \/ \E b \in BOOLEAN : SetProxy(s, b) \/ SetEndpointAuth(s, b) \/ SetRedirectUri(s, b)
        \/ \E d \in {s, Everywhere} : SetCookieDomain(s, d)
  BY DEF Directive
<1>2. s \in Servers
  BY ConfigBounds DEF Servers
<1>3. ASSUME NEW m \in Members, SetServerMember(s, m) \/ SetProviderMember(s, m) \/ SetOauthMember(s, m)
      PROVE  ConfigInv'
  <2>1. Accepts(s, [own[s] EXCEPT !.by[m] = s])
    BY <1>3 DEF SetServerMember, SetProviderMember, SetOauthMember
  <2> QED
    BY <2>1, <1>2, SetMemberSound, AcceptsStep
<1> QED
  BY <1>1, <1>2, <1>3, SetPassphraseSound, SetProxySound, SetEndpointAuthSound, SetRedirectUriSound,
     SetCookieDomainSound

-----------------------------------------------------------------------------
(* Refusal and restart                                                       *)

LEMMA AnewStep ==
    ASSUME ConfigInv, cphase' \in {"read", "refused"}, cursor' = Main, kdf' = NoKeys,
           conf' = [s \in Servers |-> Created], own' \in [Servers -> Config],
           \A s \in Servers : OwnSound(s, own'[s]), restarts' \in 0..RestartBound,
           written' \in 0..DirectiveBound, statics' \in StaticsSpace,
           cphase' = "read" => statics'.refresh_mutex = "null" /\ statics'.dir_default \in {"null", "live"}
    PROVE  ConfigInv'
<1>1. conf' \in [Servers -> Config] /\ \A s \in Servers : conf'[s] = Created
  BY CreatedSound
<1>2. kdf' \in [Secrets -> Secrets] /\ \A x \in Secrets : kdf'[x] = NoSecret
  BY DEF NoKeys, Secrets
<1>3. KeysTrue'
  <2>1. \A i \in 1..2 : Created.key[i] = NoSecret
    BY DEF Created
  <2> QED
    BY <2>1, <1>1, <1>2 DEF KeysTrue
<1>4. GroupsWhole'
  BY <1>1 DEF GroupsWhole, Created
<1>5. MergesDone' /\ CheckedSoFar' /\ StaticsMade'
  BY DEF MergesDone, CheckedSoFar, StaticsMade
<1>6. ConfigTypeOK'
  BY <1>1, <1>2, MainServer DEF ConfigTypeOK, StaticsSpace
<1> QED
  BY <1>3, <1>4, <1>5, <1>6 DEF ConfigInv

LEMMA RefuseStep ==
    ASSUME ConfigInv, Refuse, statics' \in StaticsSpace PROVE ConfigInv'
<1>1. /\ cphase' = "refused" /\ cursor' = Main /\ kdf' = NoKeys /\ conf' = [s \in Servers |-> Created]
      /\ own' = own /\ restarts' = restarts /\ written' = written
  BY DEF Refuse
<1>2. /\ own \in [Servers -> Config] /\ restarts \in 0..RestartBound /\ written \in 0..DirectiveBound
      /\ \A s \in Servers : OwnSound(s, own[s])
  BY DEF ConfigInv, ConfigTypeOK
<1> QED
  BY <1>1, <1>2, AnewStep

LEMMA BadDirectiveStep == ASSUME ConfigInv, BadDirective PROVE ConfigInv'
<1>1. Refuse /\ statics' \in StaticsSpace
  BY DEF BadDirective, ConfigInv, ConfigTypeOK, StaticsSpace
<1> QED
  BY <1>1, RefuseStep

LEMMA RestartStep == ASSUME ConfigInv, Restart PROVE ConfigInv'
<1>1. /\ cphase = "running" /\ restarts < RestartBound /\ restarts' = restarts + 1 /\ statics' = Cleanup
      /\ cphase' = "read" /\ cursor' = Main /\ kdf' = NoKeys /\ conf' = [s \in Servers |-> Created]
      /\ own' = own /\ written' = written
  BY DEF Restart
<1>2. /\ own \in [Servers -> Config] /\ restarts' \in 0..RestartBound /\ written \in 0..DirectiveBound
      /\ \A s \in Servers : OwnSound(s, own[s])
  BY <1>1, ConfigBounds DEF ConfigInv, ConfigTypeOK
<1>3. /\ statics' \in StaticsSpace /\ statics'.refresh_mutex = "null" /\ statics'.dir_default = "live"
  BY <1>1 DEF Cleanup, ConfigInv, ConfigTypeOK, StaticsMade, StaticsSpace
<1> QED
  BY <1>1, <1>2, <1>3, AnewStep

LEMMA StartAgainStep == ASSUME ConfigInv, StartAgain PROVE ConfigInv'
<1>1. /\ cphase' = "read" /\ cursor' = Main /\ kdf' = NoKeys /\ restarts' = 0 /\ written' = 0
      /\ own' = [s \in Servers |-> Created] /\ conf' = [s \in Servers |-> Created]
      /\ statics' = [marked |-> FALSE, refresh_mutex |-> "null", dir_default |-> "null"]
  BY DEF StartAgain
<1>2. own' \in [Servers -> Config] /\ \A s \in Servers : OwnSound(s, own'[s])
  BY <1>1, CreatedSound
<1>3. restarts' \in 0..RestartBound /\ written' \in 0..DirectiveBound /\ statics' \in StaticsSpace
  BY <1>1, ConfigBounds DEF StaticsSpace
<1> QED
  BY <1>1, <1>2, <1>3, AnewStep

-----------------------------------------------------------------------------
(* Merging                                                                   *)

LEMMA MergeSound ==
    ASSUME NEW base \in Config, NEW add \in Config, NEW s \in Servers,
           OwnSound(Main, base), OwnSound(s, add)
    PROVE  /\ ServerMerge(base, add) \in Config /\ ServerMerge(base, add).merged
           /\ \A i \in 1..2 : ServerMerge(base, add).key[i] = NoSecret
           /\ ServerMerge(base, add).proxy.credentials \in {ServerMerge(base, add).proxy.host, Nobody}
           /\ ServerMerge(base, add).auth.alg \in {ServerMerge(base, add).auth.method, Nobody}
<1>1. PICK pass : pass = IF add.secret[1] # NoSecret THEN add ELSE base
  OBVIOUS
<1>2. pass.secret \in [1..2 -> Secrets] /\ pass.key \in [1..2 -> Secrets] /\ \A i \in 1..2 : pass.key[i] = NoSecret
  BY <1>1 DEF Config, OwnSound
<1>3. PICK by : by = [m \in Members |-> Merged(add.by[m], base.by[m])]
  OBVIOUS
<1>4. by \in [Members -> Origins]
  BY <1>3 DEF Merged, Config
<1>5. PICK proxy : proxy = MergedProxy(add.proxy, base.proxy)
  OBVIOUS
<1>6. proxy \in [host : Origins, credentials : Origins] /\ proxy.credentials \in {proxy.host, Nobody}
  BY <1>5 DEF MergedProxy, Config, OwnSound
<1>7. PICK auth : auth = MergedAuth(add.auth, base.auth)
  OBVIOUS
<1>8. auth \in [method : Origins, alg : Origins] /\ auth.alg \in {auth.method, Nobody}
  BY <1>7 DEF MergedAuth, Merged, Config, OwnSound
<1>9. PICK inherited \in BOOLEAN :
        inherited = (add.by["redirect_uri"] = Nobody /\ base.by["redirect_uri"] # Nobody)
  OBVIOUS
<1>10. PICK relative, domain :
         /\ relative = IF add.by["redirect_uri"] # Nobody THEN add.relative ELSE base.relative
         /\ domain = Merged(add.domain, base.domain)
  OBVIOUS
<1>11. relative \in BOOLEAN /\ domain \in Domains
  BY <1>10 DEF Merged, Config
<1>12. ServerMerge(base, add) =
         [by |-> by, secret |-> pass.secret, key |-> pass.key, proxy |-> proxy, auth |-> auth,
          relative |-> relative, domain |-> domain, merged |-> TRUE, inherited |-> inherited]
  BY <1>1, <1>3, <1>5, <1>7, <1>9, <1>10 DEF ServerMerge
<1> QED
  BY <1>2, <1>4, <1>6, <1>8, <1>11, <1>12 DEF Config

LEMMA ReadDoneStep == ASSUME ConfigInv, ReadDone PROVE ConfigInv'
<1>1. /\ cphase = "read" /\ cphase' = "post" /\ cursor' = Main
      /\ UNCHANGED <<own, kdf, statics, restarts, written>>
  BY DEF ReadDone
<1>2. conf' = [s \in Servers |-> IF s # Main /\ IsSet(s) THEN ServerMerge(own[Main], own[s]) ELSE own[s]]
  BY DEF ReadDone
<1>3. ASSUME NEW s \in Servers
      PROVE  /\ conf'[s] \in Config /\ (conf'[s].merged <=> s # Main /\ IsSet(s))
             /\ \A i \in 1..2 : conf'[s].key[i] = NoSecret
             /\ conf'[s].proxy.credentials \in {conf'[s].proxy.host, Nobody}
             /\ conf'[s].auth.alg \in {conf'[s].auth.method, Nobody}
  <2>1. own[s] \in Config /\ own[Main] \in Config /\ OwnSound(s, own[s]) /\ OwnSound(Main, own[Main])
    BY MainServer DEF ConfigInv, ConfigTypeOK
  <2>2. CASE s # Main /\ IsSet(s)
    <3>1. conf'[s] = ServerMerge(own[Main], own[s])
      BY <1>2, <2>2
    <3> QED
      BY <3>1, <2>1, <2>2, MergeSound
  <2>3. CASE ~(s # Main /\ IsSet(s))
    <3>1. conf'[s] = own[s]
      BY <1>2, <2>3
    <3> QED
      BY <3>1, <2>1, <2>3 DEF OwnSound
  <2> QED
    BY <2>2, <2>3
<1>4. conf' \in [Servers -> Config]
  BY <1>2, <1>3
<1>5. IsSet(1)' = IsSet(1) /\ \A s \in Servers : IsSet(s)' <=> IsSet(s)
  BY <1>1 DEF IsSet
<1>6. ConfigTypeOK'
  BY <1>1, <1>4, MainServer DEF ConfigInv, ConfigTypeOK
<1>7. KeysTrue'
  BY <1>1, <1>3 DEF ConfigInv, KeysTrue
<1>8. MergesDone'
  BY <1>1, <1>3, <1>5 DEF MergesDone
<1>9. GroupsWhole'
  BY <1>3 DEF GroupsWhole
<1>10. CheckedSoFar' /\ StaticsMade'
  BY <1>1 DEF ConfigInv, CheckedSoFar, StaticsMade
<1>11. \A s \in Servers : OwnSound(s, own'[s])
  BY <1>1 DEF ConfigInv
<1> QED
  BY <1>6, <1>7, <1>8, <1>9, <1>10, <1>11 DEF ConfigInv

-----------------------------------------------------------------------------
(* post_config                                                               *)

LEMMA PostConfigFirstStep == ASSUME ConfigInv, PostConfigFirst PROVE ConfigInv'
<1>1. /\ cphase = "post" /\ statics' = [statics EXCEPT !.marked = TRUE]
      /\ UNCHANGED <<cphase, own, conf, cursor, kdf, restarts, written>>
  BY DEF PostConfigFirst
<1>2. /\ statics' \in StaticsSpace /\ statics'.refresh_mutex = statics.refresh_mutex
      /\ statics'.dir_default = statics.dir_default
  BY <1>1 DEF ConfigInv, ConfigTypeOK, StaticsSpace
<1>3. ConfigTypeOK' /\ StaticsMade'
  BY <1>1, <1>2 DEF ConfigInv, ConfigTypeOK, StaticsSpace, StaticsMade
<1>4. KeysTrue' /\ MergesDone' /\ CheckedSoFar' /\ GroupsWhole'
  BY <1>1 DEF ConfigInv, KeysTrue, MergesDone, IsSet, CheckedSoFar, GroupsWhole
<1> QED
  BY <1>1, <1>3, <1>4 DEF ConfigInv

LEMMA PostConfigServerStep == ASSUME ConfigInv, PostConfigServer PROVE ConfigInv'
<1>1. cphase = "post" /\ cursor <= ServerCount /\ statics \in StaticsSpace /\ cursor \in 1..ServerCount + 1
  BY DEF PostConfigServer, ConfigInv, ConfigTypeOK, StaticsSpace
<1>2. CASE /\ statics' = [statics EXCEPT !.refresh_mutex = IF @ = "null" THEN "live" ELSE @,
                                         !.dir_default = IF @ = "null" THEN "live" ELSE @]
           /\ cursor' = cursor + 1
           /\ UNCHANGED <<cphase, own, conf, kdf, restarts, written>>
  <2>1. PICK r, d : /\ r = IF statics.refresh_mutex = "null" THEN "live" ELSE statics.refresh_mutex
                    /\ d = IF statics.dir_default = "null" THEN "live" ELSE statics.dir_default
    OBVIOUS
  <2>2. r = "live" /\ d = "live"
    BY <2>1, <1>1 DEF ConfigInv, StaticsMade
  <2>3. statics' = [statics EXCEPT !.refresh_mutex = r, !.dir_default = d]
    BY <1>2, <2>1
  <2>4. statics' \in StaticsSpace /\ statics'.refresh_mutex = "live" /\ statics'.dir_default = "live"
    BY <2>2, <2>3, <1>1 DEF StaticsSpace
  <2>5. cursor' \in 1..ServerCount + 1 /\ cursor' # Main
    BY <1>1, <1>2, MainServer DEF Main
  <2>6. ConfigTypeOK' /\ StaticsMade'
    BY <1>1, <1>2, <2>4, <2>5 DEF ConfigInv, ConfigTypeOK, StaticsSpace, StaticsMade
  <2>7. KeysTrue' /\ MergesDone' /\ CheckedSoFar' /\ GroupsWhole'
    BY <1>1, <1>2 DEF ConfigInv, KeysTrue, MergesDone, IsSet, CheckedSoFar, GroupsWhole
  <2> QED
    BY <1>2, <2>6, <2>7 DEF ConfigInv
<1>3. CASE Refuse /\ statics' = [statics EXCEPT !.refresh_mutex = "null"]
  <2>1. statics' \in StaticsSpace
    BY <1>1, <1>3 DEF StaticsSpace
  <2> QED
    BY <1>3, <2>1, RefuseStep
<1> QED
  BY <1>2, <1>3 DEF PostConfigServer

LEMMA PostConfigDoneStep == ASSUME ConfigInv, PostConfigDone PROVE ConfigInv'
<1>1. /\ cphase = "post" /\ cursor > ServerCount /\ cphase' = "check" /\ cursor' = Main /\ kdf' = NoKeys
      /\ UNCHANGED <<own, conf, statics, restarts, written>>
  BY DEF PostConfigDone
<1>2. kdf' \in [Secrets -> Secrets] /\ \A x \in Secrets : kdf'[x] = NoSecret
  BY <1>1 DEF NoKeys, Secrets
<1>3. cursor # Main /\ \A s \in Servers : ~(s < Main)
  BY <1>1, ConfigBounds DEF Main, Servers
<1>4. ConfigTypeOK'
  BY <1>1, <1>2, MainServer DEF ConfigInv, ConfigTypeOK
<1>5. KeysTrue' /\ MergesDone' /\ GroupsWhole'
  BY <1>1, <1>2 DEF ConfigInv, KeysTrue, MergesDone, IsSet, GroupsWhole
<1>6. CheckedSoFar' /\ StaticsMade'
  BY <1>1, <1>3 DEF ConfigInv, CheckedSoFar, StaticsMade
<1> QED
  BY <1>1, <1>4, <1>5, <1>6 DEF ConfigInv

-----------------------------------------------------------------------------
(* Checking                                                                  *)

LEMMA KeyOfSecret == ASSUME NEW x \in Secrets PROVE KeyOf(x) \in Secrets
  BY DEF KeyOf, Secrets

\* The keys of an object, with a passphrase that may have been generated,
\* are those that belong to it.
LEMMA DeriveSound ==
    ASSUME NEW c \in Config, NEW secret \in [1..2 -> Secrets], NEW cache \in [Secrets -> Secrets],
           \A i \in 1..2 : c.key[i] \in {NoSecret, KeyOf(secret[i])},
           \A x \in Secrets : cache[x] \in {NoSecret, KeyOf(x)}
    PROVE  LET keys == DeriveKeys([c EXCEPT !.secret = secret], cache) IN
           /\ keys \in [1..2 -> Secrets] /\ \A i \in 1..2 : keys[i] = KeyOf(secret[i])
           /\ Remember(cache, secret, keys) \in [Secrets -> Secrets]
           /\ \A x \in Secrets : Remember(cache, secret, keys)[x] \in {NoSecret, KeyOf(x)}
<1>1. PICK d : d = [c EXCEPT !.secret = secret]
  OBVIOUS
<1>2. d.key = c.key /\ d.secret = secret
  BY <1>1 DEF Config
<1>3. PICK keys : keys = DeriveKeys(d, cache)
  OBVIOUS
<1>4. \A i \in 1..2 : keys[i] = IF c.key[i] # NoSecret THEN c.key[i]
                               ELSE IF cache[secret[i]] # NoSecret THEN cache[secret[i]] ELSE KeyOf(secret[i])
  BY <1>2, <1>3 DEF DeriveKeys
<1>5. \A i \in 1..2 : keys[i] = KeyOf(secret[i]) /\ keys[i] \in Secrets
  BY <1>4, KeyOfSecret
<1>6. keys \in [1..2 -> Secrets]
  BY <1>3, <1>5 DEF DeriveKeys
<1>7. PICK r : r = Remember(cache, secret, keys)
  OBVIOUS
<1>8. r \in [Secrets -> Secrets]
  BY <1>6, <1>7 DEF Remember
<1>9. \A x \in Secrets : r[x] \in {NoSecret, KeyOf(x)}
  BY <1>5, <1>7 DEF Remember
<1> QED
  BY <1>1, <1>3, <1>5, <1>6, <1>7, <1>8, <1>9

LEMMA OkComplete == ASSUME NEW c, VhostOk(c) PROVE Complete(c)
<1>1. ASSUME OpenidcConfigured(c)
      PROVE  /\ Has(c, "redirect_uri") /\ (Has(c, "client_id") \/ Has(c, "metadata_dir"))
             /\ c.relative \/ c.domain \in {Nobody, Everywhere, c.by["redirect_uri"]}
  BY <1>1 DEF VhostOk, OpenidcOk, ProviderComplete, DomainSuits
<1>2. ASSUME OauthConfigured(c) PROVE \E m \in OauthMembers \ {"oauth_client"} : Has(c, m)
  <2>1. OauthOk(c)
    BY <1>2 DEF VhostOk
  <2>2. \E m \in {"oauth_metadata", "introspection", "verify_keys"} : Has(c, m)
    BY <2>1 DEF OauthOk, Has
  <2> QED
    BY <2>2 DEF OauthMembers
<1> QED
  BY <1>1, <1>2 DEF Complete

\* Whether a configuration is complete does not depend on its keys.
LEMMA SameComplete ==
    ASSUME NEW c, NEW d, c.by = d.by, c.relative = d.relative, c.domain = d.domain, Complete(c)
    PROVE  Complete(d)
  BY DEF Complete, OpenidcConfigured, OauthConfigured, Has

LEMMA ObjectOf == ASSUME ConfigInv, NEW s \in Servers PROVE Object(s) \in Servers
  BY MainServer DEF Object

LEMMA CheckServerStep == ASSUME ConfigInv, CheckServer PROVE ConfigInv'
<1>1. cphase = "check" /\ cursor <= ServerCount /\ cursor \in 1..ServerCount + 1 /\ cursor \in Servers
  BY MainServer DEF CheckServer, ConfigInv, ConfigTypeOK, Servers
<1>2. PICK o : o = Object(cursor)
  OBVIOUS
<1>3. PICK full \in BOOLEAN : full = (conf[o].merged \/ ~AnyMerged)
  OBVIOUS
<1>4. PICK secret : secret = IF conf[o].secret[1] = NoSecret /\ full
                               THEN [conf[o].secret EXCEPT ![1] = Generated[cursor]] ELSE conf[o].secret
  OBVIOUS
<1>5. PICK keys : keys = DeriveKeys([conf[o] EXCEPT !.secret = secret], kdf)
  OBVIOUS
<1>6. \/ /\ full => VhostOk(conf[o])
         /\ conf' = [conf EXCEPT ![o].secret = secret, ![o].key = keys]
         /\ kdf' = IF AnyMerged THEN Remember(kdf, secret, keys) ELSE kdf
         /\ cursor' = cursor + 1
         /\ UNCHANGED <<cphase, own, statics, restarts, written>>
      \/ Refuse /\ UNCHANGED statics
  BY <1>2, <1>3, <1>4, <1>5, Zenon DEF CheckServer
<1>7. o \in Servers /\ conf[o] \in Config /\ conf \in [Servers -> Config] /\ kdf \in [Secrets -> Secrets]
  BY <1>1, <1>2, ObjectOf DEF ConfigInv, ConfigTypeOK
<1>8. /\ secret \in [1..2 -> Secrets]
      /\ \A i \in 1..2 : conf[o].key[i] \in {NoSecret, KeyOf(secret[i])}
  <2>1. Generated[cursor] \in Secrets
    BY <1>1 DEF Secrets
  <2>2. conf[o].secret \in [1..2 -> Secrets] /\ conf[o].key \in [1..2 -> Secrets]
    BY <1>7 DEF Config
  <2>3. \A i \in 1..2 : conf[o].key[i] \in {NoSecret, KeyOf(conf[o].secret[i])}
    BY <1>7 DEF ConfigInv, KeysTrue
  <2>4. KeyOf(NoSecret) = NoSecret
    BY DEF KeyOf
  <2> QED
    BY <1>4, <2>1, <2>2, <2>3, <2>4
<1>9. /\ keys \in [1..2 -> Secrets] /\ \A i \in 1..2 : keys[i] = KeyOf(secret[i])
      /\ Remember(kdf, secret, keys) \in [Secrets -> Secrets]
      /\ \A x \in Secrets : Remember(kdf, secret, keys)[x] \in {NoSecret, KeyOf(x)}
  <2>1. \A x \in Secrets : kdf[x] \in {NoSecret, KeyOf(x)}
    BY DEF ConfigInv, KeysTrue
  <2> QED
    BY <1>5, <1>7, <1>8, <2>1, DeriveSound
<1>10. CASE /\ full => VhostOk(conf[o])
            /\ conf' = [conf EXCEPT ![o].secret = secret, ![o].key = keys]
            /\ kdf' = IF AnyMerged THEN Remember(kdf, secret, keys) ELSE kdf
            /\ cursor' = cursor + 1
            /\ UNCHANGED <<cphase, own, statics, restarts, written>>
  <2>1. PICK c : c = [conf[o] EXCEPT !.secret = secret, !.key = keys]
    OBVIOUS
  <2>2. /\ c \in Config /\ c.by = conf[o].by /\ c.proxy = conf[o].proxy /\ c.auth = conf[o].auth
        /\ c.relative = conf[o].relative /\ c.domain = conf[o].domain
        /\ c.merged = conf[o].merged /\ c.secret = secret /\ c.key = keys
    BY <2>1, <1>7, <1>8, <1>9 DEF Config
  <2>3. conf' = [conf EXCEPT ![o] = c]
    BY <2>1, <1>7, <1>10
  <2>4. conf' \in [Servers -> Config] /\ conf'[o] = c /\ \A s \in Servers : s # o => conf'[s] = conf[s]
    BY <2>2, <2>3, <1>7
  <2>5. kdf' \in [Secrets -> Secrets] /\ \A x \in Secrets : kdf'[x] \in {NoSecret, KeyOf(x)}
    BY <1>9, <1>10, <1>7 DEF ConfigInv, KeysTrue
  <2>6. cursor' \in 1..ServerCount + 1
    BY <1>1, <1>10, MainServer
  <2>7. ConfigTypeOK'
    BY <1>1, <1>10, <2>4, <2>5, <2>6 DEF ConfigInv, ConfigTypeOK
  <2>8. KeysTrue'
    BY <2>2, <2>4, <2>5, <1>9 DEF ConfigInv, KeysTrue
  <2>9. \A s \in Servers : (IsSet(s)' <=> IsSet(s)) /\ Object(s)' = Object(s)
    BY <1>10 DEF IsSet, Object
  <2>10. MergesDone'
    BY <2>2, <2>4, <2>9, <1>1, <1>10 DEF ConfigInv, MergesDone
  <2>11. GroupsWhole'
    BY <2>2, <2>4 DEF ConfigInv, GroupsWhole
  <2>12. \A s \in Servers : Complete(conf[s]) => Complete(conf'[s])
    BY <2>2, <2>4, SameComplete
  <2>13. ASSUME NEW s \in Servers, s < cursor' PROVE Checked(s)'
    <3>1. Object(s) \in Servers /\ Object(s)' = Object(s)
      BY <2>9, ObjectOf
    <3>2. CASE s < cursor
      <4>1. Checked(s)
        BY <3>2, <1>1 DEF ConfigInv, CheckedSoFar
      <4>2. \A i \in 1..2 : conf'[Object(s)].key[i] = KeyOf(conf'[Object(s)].secret[i])
        BY <4>1, <3>1, <2>2, <2>4, <1>9 DEF Checked
      <4> QED
        BY <4>1, <4>2, <3>1, <2>9, <2>12 DEF Checked
    <3>3. CASE s = cursor
      <4>1. \A i \in 1..2 : conf'[Object(s)].key[i] = KeyOf(conf'[Object(s)].secret[i])
        BY <3>3, <1>2, <1>9, <2>2, <2>4
      <4>2. s # Main /\ IsSet(s) => o = s /\ VhostOk(conf[s])
        BY <3>3, <1>1, <1>2, <1>3, <1>10 DEF ConfigInv, MergesDone, Object
      <4>3. s # Main /\ IsSet(s) => Complete(conf[s])
        BY <4>2, OkComplete
      <4> QED
        BY <4>1, <4>3, <3>1, <2>9, <2>12 DEF Checked
    <3> QED
      BY <3>2, <3>3, <2>13, <1>1, <1>10, MainServer
  <2>14. CheckedSoFar'
    BY <2>13, <1>1, <1>10 DEF CheckedSoFar
  <2>15. StaticsMade'
    BY <1>1, <1>10 DEF ConfigInv, StaticsMade
  <2> QED
    BY <2>7, <2>8, <2>10, <2>11, <2>14, <2>15, <1>10 DEF ConfigInv
<1>11. CASE Refuse /\ UNCHANGED statics
  <2>1. statics' \in StaticsSpace
    BY <1>11 DEF ConfigInv, ConfigTypeOK, StaticsSpace
  <2> QED
    BY <2>1, <1>11, RefuseStep
<1> QED
  BY <1>6, <1>10, <1>11

LEMMA CheckDoneStep == ASSUME ConfigInv, CheckDone PROVE ConfigInv'
<1>1. /\ cphase = "check" /\ cphase' = "running" /\ (cursor > ServerCount \/ (~AnyMerged /\ cursor > Main))
      /\ UNCHANGED <<own, conf, cursor, kdf, statics, restarts, written>>
  BY DEF CheckDone
<1>2. ASSUME NEW s \in Servers PROVE Checked(s)
  <2>1. CASE cursor > ServerCount
    <3>1. s < cursor
      BY <2>1, MainServer DEF ConfigInv, ConfigTypeOK, Servers
    <3> QED
      BY <3>1, <1>1 DEF ConfigInv, CheckedSoFar
  <2>2. CASE ~AnyMerged /\ cursor > Main
    <3>1. Checked(Main)
      BY <2>2, <1>1, MainServer DEF ConfigInv, CheckedSoFar
    <3>2. ~conf[Object(s)].merged
      BY <2>2 DEF AnyMerged
    <3>3. s = Main \/ ~IsSet(s)
      BY <3>2, <1>1 DEF ConfigInv, MergesDone, Object
    <3>4. Object(s) = Main /\ Object(Main) = Main
      BY <3>3 DEF Object
    <3> QED
      BY <3>1, <3>3, <3>4 DEF Checked
  <2> QED
    BY <2>1, <2>2, <1>1
<1>3. \A s \in Servers : Checked(s)'
  BY <1>1, <1>2 DEF Checked, Object, IsSet
<1>4. CheckedSoFar'
  BY <1>1, <1>3 DEF CheckedSoFar
<1>5. ConfigTypeOK' /\ KeysTrue' /\ MergesDone' /\ StaticsMade' /\ GroupsWhole'
  BY <1>1 DEF ConfigInv, ConfigTypeOK, KeysTrue, MergesDone, IsSet, StaticsMade, GroupsWhole
<1> QED
  BY <1>1, <1>4, <1>5 DEF ConfigInv

LEMMA ConfigStep == ConfigInv /\ [ConfigNext]_confVars => ConfigInv'
<1> SUFFICES ASSUME ConfigInv, [ConfigNext]_confVars PROVE ConfigInv'
  OBVIOUS
<1>1. CASE UNCHANGED confVars
  BY <1>1 DEF confVars, ConfigInv, ConfigTypeOK, KeysTrue, MergesDone, IsSet, CheckedSoFar, Checked, Object,
     StaticsMade, GroupsWhole
<1>2. CASE ConfigNext
  BY <1>2, DirectiveStep, BadDirectiveStep, ReadDoneStep, PostConfigFirstStep, PostConfigServerStep,
     PostConfigDoneStep, CheckServerStep, CheckDoneStep, RestartStep, StartAgainStep DEF ConfigNext
<1> QED
  BY <1>1, <1>2

\* The inductive invariant of the configuration: what each server's own
\* directives and each merged object can say, which keys are derived and
\* which servers are complete by the turn that the check has come to, and
\* when the process-wide objects exist.
THEOREM ConfigInvariance == ConfigSpec => []ConfigInv
  BY ConfigInitInv, ConfigStep, PTL DEF ConfigSpec

\* A server that runs has a whole configuration, for any directives on any
\* number of servers, in any order, and through any number of graceful restarts
\* (oidc_cfg_server_merge, oidc_cfg_post_config, oidc_cfg_check_vhosts).
THEOREM ConfigurationAlwaysSound == ConfigSpec => []ConfigurationSound
<1>1. ConfigInv => ConfigurationSound
  <2> SUFFICES ASSUME ConfigInv PROVE ConfigurationSound
    OBVIOUS
  <2>1. KeysDerived
    BY DEF ConfigInv, CheckedSoFar, Checked, KeysDerived
  <2>2. VhostsComplete
    BY DEF ConfigInv, CheckedSoFar, Checked, VhostsComplete
  <2> QED
    BY <2>1, <2>2 DEF ConfigInv, StaticsMade, StaticsLive, ConfigurationSound
<1> QED
  BY <1>1, ConfigInvariance, PTL

-----------------------------------------------------------------------------
(* Sums over the children                                                    *)

\* The child that FoldSet takes from the set s.
Taken(s) == CHOOSE x \in s : TRUE

\* g is the function that FoldSet defines recursively for the tables t.
IsSum(g, t) ==
    g = [s \in SUBSET Children |-> IF s = {} THEN 0 ELSE g[s \ {Taken(s)}] + t[Taken(s)].hits]

LEMMA HitsInSum ==
    ASSUME NEW t
    PROVE  HitsIn(t) = (CHOOSE g : IsSum(g, t))[Children]
  BY Zenon DEF HitsIn, FoldSet, MapThenFoldSet, IsSum, Taken

LEMMA LeastNumber ==
    ASSUME NEW S \in SUBSET Nat, S # {}
    PROVE  \E x \in S : \A y \in S : x <= y
<1> DEFINE R == OpToRel(<, Nat)
<1>1. IsWellFoundedOn(R, Nat)
  BY NatLessThanWellFounded
<1>2. \A x, y \in Nat : x < y => <<x, y>> \in R
  BY DEF OpToRel
<1> HIDE DEF R
<1>3. PICK x \in S : \A y \in S : ~(<<y, x>> \in R)
  BY <1>1, WFMin
<1>4. \A y \in S : ~(y < x)
  BY <1>2, <1>3
<1>5. \A y \in S : x <= y
  BY <1>4
<1> QED
  BY <1>5

\* A set of children loses one when one is taken.
LEMMA TakenOne ==
    ASSUME NEW s \in SUBSET Children, s # {}
    PROVE  /\ Taken(s) \in s /\ Taken(s) \in Children /\ s \ {Taken(s)} \in SUBSET Children
           /\ IsFiniteSet(s) /\ Cardinality(s) \in Nat /\ Cardinality(s \ {Taken(s)}) = Cardinality(s) - 1
<1>1. Taken(s) \in s
  BY DEF Taken
<1>2. IsFiniteSet(s)
  BY FS_Subset, MetricsAssumption
<1> QED
  BY <1>1, <1>2, FS_RemoveElement, FS_CardinalityType

LEMMA NoneTaken == ASSUME NEW s \in SUBSET Children PROVE Cardinality(s) \in Nat /\ (Cardinality(s) = 0 <=> s = {})
  BY FS_Subset, FS_CardinalityType, FS_EmptySet, MetricsAssumption

\* The definition has a solution: it agrees, on sets of up to n children,
\* with what n steps of the definition give.
LEMMA SumExists ==
    ASSUME NEW t \in [Children -> Tallies]
    PROVE  \E g \in [SUBSET Children -> Nat] : IsSum(g, t)
<1> DEFINE F(g) == [s \in SUBSET Children |-> IF s = {} THEN 0 ELSE g[s \ {Taken(s)}] + t[Taken(s)].hits]
           Good(n, g) == \A s \in SUBSET Children : Cardinality(s) <= n => g[s] = F(g)[s]
           S == {n \in Nat : ~ \E g \in [SUBSET Children -> Nat] : Good(n, g)}
<1>1. ASSUME NEW g \in [SUBSET Children -> Nat] PROVE F(g) \in [SUBSET Children -> Nat]
  <2>1. ASSUME NEW s \in SUBSET Children, s # {} PROVE g[s \ {Taken(s)}] + t[Taken(s)].hits \in Nat
    <3>1. Taken(s) \in Children /\ s \ {Taken(s)} \in SUBSET Children
      BY <2>1, TakenOne
    <3>2. g[s \ {Taken(s)}] \in Nat /\ t[Taken(s)] \in Tallies
      BY <3>1
    <3>3. t[Taken(s)].hits \in Nat
      BY <3>2 DEF Tallies
    <3> QED
      BY <3>2, <3>3
  <2> QED
    BY <2>1
<1>2. 0 \notin S
  <2>1. PICK g : g = [s \in SUBSET Children |-> 0]
    OBVIOUS
  <2>2. g \in [SUBSET Children -> Nat]
    BY <2>1
  <2>3. Good(0, g)
    BY <2>1, NoneTaken
  <2> QED
    BY <2>2, <2>3
<1>3. ASSUME NEW n \in Nat, n \notin S PROVE n + 1 \notin S
  <2>1. PICK g \in [SUBSET Children -> Nat] : Good(n, g)
    BY <1>3
  <2>2. PICK h : h = F(g)
    OBVIOUS
  <2>3. h \in [SUBSET Children -> Nat]
    BY <2>2, <1>1
  <2>4. ASSUME NEW s \in SUBSET Children, Cardinality(s) <= n + 1 PROVE h[s] = F(h)[s]
    <3>1. CASE s = {}
      BY <3>1, <2>2
    <3>2. CASE s # {}
      <4>1. /\ s \ {Taken(s)} \in SUBSET Children /\ Cardinality(s) \in Nat
            /\ Cardinality(s \ {Taken(s)}) = Cardinality(s) - 1
        BY <3>2, TakenOne
      <4>2. PICK q \in SUBSET Children : q = s \ {Taken(s)} /\ Cardinality(q) <= n
        BY <4>1, <2>4
      <4>5. g[q] = F(g)[q]
        BY <4>2, <2>1
      <4>3. h[s \ {Taken(s)}] = g[s \ {Taken(s)}]
        BY <4>2, <4>5, <2>2
      <4> QED
        BY <4>1, <4>3, <3>2, <2>2
    <3> QED
      BY <3>1, <3>2
  <2>5. Good(n + 1, h)
    BY <2>4
  <2> QED
    BY <2>3, <2>5
<1>4. S = {}
  <2> SUFFICES ASSUME S # {} PROVE FALSE
    OBVIOUS
  <2>1. PICK x \in S : \A y \in S : x <= y
    BY LeastNumber
  <2>2. x \in Nat /\ x # 0
    BY <1>2, <2>1
  <2> HIDE DEF S
  <2>3. x - 1 \in Nat /\ x - 1 \notin S /\ (x - 1) + 1 = x
    BY <2>1, <2>2
  <2> QED
    BY <1>3, <2>1, <2>3
<1>5. PICK n \in Nat : n = Cardinality(Children)
  BY FS_CardinalityType, MetricsAssumption
<1>6. PICK g \in [SUBSET Children -> Nat] : Good(n, g)
  <2>1. n \notin S
    BY <1>4
  <2> QED
    BY <2>1, Zenon
<1>7. ASSUME NEW s \in SUBSET Children PROVE g[s] = F(g)[s]
  <2>1. Cardinality(s) <= n
    BY <1>5, FS_Subset, MetricsAssumption
  <2> QED
    BY <2>1, <1>6
<1>8. g = F(g)
  BY <1>7, <1>1
<1> QED
  BY <1>6, <1>8 DEF IsSum

\* A solution of the definition counts.
LEMMA SumTyped ==
    ASSUME NEW t \in [Children -> Tallies], NEW g, IsSum(g, t)
    PROVE  g \in [SUBSET Children -> Nat]
<1> DEFINE S == {n \in Nat : \E s \in SUBSET Children : Cardinality(s) = n /\ g[s] \notin Nat}
<1>1. S = {}
  <2> SUFFICES ASSUME S # {} PROVE FALSE
    OBVIOUS
  <2>1. PICK n \in S : \A y \in S : n <= y
    BY LeastNumber
  <2>2. PICK s \in SUBSET Children : Cardinality(s) = n /\ g[s] \notin Nat
    BY <2>1
  <2>3. s # {}
    BY <2>2 DEF IsSum
  <2>4. PICK x, r : x = Taken(s) /\ r = s \ {Taken(s)}
    OBVIOUS
  <2>5. x \in Children /\ r \in SUBSET Children /\ Cardinality(r) = n - 1 /\ n \in Nat /\ Cardinality(r) \in Nat
    BY <2>2, <2>3, <2>4, TakenOne, NoneTaken
  <2>6. g[r] \in Nat
    <3>1. n - 1 \notin S
      BY <2>1, <2>5
    <3> QED
      BY <3>1, <2>5
  <2>7. g[s] = g[r] + t[x].hits
    BY <2>3, <2>4 DEF IsSum
  <2> QED
    BY <2>2, <2>5, <2>6, <2>7 DEF Tallies
<1>2. \A s \in SUBSET Children : g[s] \in Nat
  BY <1>1, NoneTaken
<1> QED
  BY <1>2 DEF IsSum

\* When the table of one child changes, the sum changes as much.
LEMMA SumChanges ==
    ASSUME NEW t \in [Children -> Tallies], NEW u \in [Children -> Tallies], NEW c \in Children,
           \A d \in Children : d # c => u[d].hits = t[d].hits,
           NEW g, NEW h, IsSum(g, t), IsSum(h, u),
           g \in [SUBSET Children -> Nat], h \in [SUBSET Children -> Nat]
    PROVE  h[Children] + t[c].hits = g[Children] + u[c].hits
<1> DEFINE Agree(s) == IF c \in s THEN h[s] + t[c].hits = g[s] + u[c].hits ELSE h[s] = g[s]
           S == {n \in Nat : \E s \in SUBSET Children : Cardinality(s) = n /\ ~Agree(s)}
<1>1. S = {}
  <2> SUFFICES ASSUME S # {} PROVE FALSE
    OBVIOUS
  <2>1. PICK n \in S : \A y \in S : n <= y
    BY LeastNumber
  <2>2. PICK s \in SUBSET Children : Cardinality(s) = n /\ ~Agree(s)
    BY <2>1
  <2>3. s # {}
    BY <2>2 DEF IsSum
  <2>4. PICK x, r : x = Taken(s) /\ r = s \ {Taken(s)}
    OBVIOUS
  <2>5. x \in s /\ x \in Children /\ r = s \ {x} /\ r \in SUBSET Children /\ Cardinality(r) = n - 1 /\ n \in Nat
        /\ Cardinality(r) \in Nat
    BY <2>2, <2>3, <2>4, TakenOne, NoneTaken
  <2>6. Agree(r)
    <3>1. n - 1 \notin S
      BY <2>1, <2>5
    <3> QED
      BY <3>1, <2>5
  <2>7. g[s] = g[r] + t[x].hits /\ h[s] = h[r] + u[x].hits
    BY <2>3, <2>4 DEF IsSum
  <2>8. /\ g[r] \in Nat /\ h[r] \in Nat /\ t[x].hits \in Nat /\ u[x].hits \in Nat
        /\ t[c].hits \in Nat /\ u[c].hits \in Nat
    BY <2>5 DEF Tallies
  <2>9. CASE x = c
    <3>1. c \notin r /\ c \in s
      BY <2>5, <2>9
    <3> QED
      BY <3>1, <2>2, <2>6, <2>7, <2>8, <2>9
  <2>10. CASE x # c
    <3>1. u[x].hits = t[x].hits /\ (c \in s <=> c \in r)
      BY <2>5, <2>10
    <3> QED
      BY <3>1, <2>2, <2>6, <2>7, <2>8
  <2> QED
    BY <2>9, <2>10
<1>2. Cardinality(Children) \in Nat
  BY FS_CardinalityType, MetricsAssumption
<1>3. Agree(Children)
  BY <1>1, <1>2
<1> QED
  BY <1>3

LEMMA HitsInChanges ==
    ASSUME NEW t \in [Children -> Tallies], NEW u \in [Children -> Tallies], NEW c \in Children,
           \A d \in Children : d # c => u[d].hits = t[d].hits
    PROVE  HitsIn(t) \in Nat /\ HitsIn(u) \in Nat /\ HitsIn(u) + t[c].hits = HitsIn(t) + u[c].hits
<1>1. PICK g : g = CHOOSE x : IsSum(x, t)
  OBVIOUS
<1>2. PICK h : h = CHOOSE x : IsSum(x, u)
  OBVIOUS
<1>3. IsSum(g, t) /\ IsSum(h, u)
  BY <1>1, <1>2, SumExists, Zenon
<1>4. g \in [SUBSET Children -> Nat] /\ h \in [SUBSET Children -> Nat]
  BY <1>3, SumTyped
<1>5. HitsIn(t) = g[Children] /\ HitsIn(u) = h[Children]
  BY <1>1, <1>2, HitsInSum
<1>6. g[Children] \in Nat /\ h[Children] \in Nat
  BY <1>4
<1>7. h[Children] + t[c].hits = g[Children] + u[c].hits
  BY <1>3, <1>4, SumChanges, ZenonT(60)
<1> QED
  BY <1>5, <1>6, <1>7

LEMMA NoHits ==
    ASSUME NEW t \in [Children -> Tallies], \A c \in Children : t[c].hits = 0
    PROVE  HitsIn(t) = 0
<1>1. PICK g : g = CHOOSE x : IsSum(x, t)
  OBVIOUS
<1>2. IsSum(g, t)
  BY <1>1, SumExists, Zenon
<1> DEFINE S == {n \in Nat : \E s \in SUBSET Children : Cardinality(s) = n /\ g[s] # 0}
<1>3. S = {}
  <2> SUFFICES ASSUME S # {} PROVE FALSE
    OBVIOUS
  <2>1. PICK n \in S : \A y \in S : n <= y
    BY LeastNumber
  <2>2. PICK s \in SUBSET Children : Cardinality(s) = n /\ g[s] # 0
    BY <2>1
  <2>3. s # {}
    BY <2>2, <1>2 DEF IsSum
  <2>4. PICK x, r : x = Taken(s) /\ r = s \ {Taken(s)}
    OBVIOUS
  <2>5. x \in Children /\ r \in SUBSET Children /\ Cardinality(r) = n - 1 /\ n \in Nat /\ Cardinality(r) \in Nat
    BY <2>2, <2>3, <2>4, TakenOne, NoneTaken
  <2>6. g[r] = 0
    <3>1. n - 1 \notin S
      BY <2>1, <2>5
    <3> QED
      BY <3>1, <2>5
  <2>7. g[s] = g[r] + t[x].hits
    BY <2>3, <2>4, <1>2 DEF IsSum
  <2> QED
    BY <2>2, <2>5, <2>6, <2>7
<1>4. Cardinality(Children) \in Nat
  BY FS_CardinalityType, MetricsAssumption
<1>5. g[Children] = 0
  BY <1>3, <1>4
<1> QED
  BY <1>1, <1>5, HitsInSum

-----------------------------------------------------------------------------
(* Counters and histograms                                                   *)

Threads == [pc : {"sleep", "flush", "check", "ended", "dead"}, read : Tallies]
Ghosts == [counted : 0 .. EventBound, reported : Nat, lost : Nat, timed : 0 .. EventBound]

\* A histogram with cumulative buckets, the last of which counts all.
Cumulative(v) == v.bucket[1] <= v.bucket[2] /\ v.bucket[2] = v.count

\* A thread that stores holds the global mutex, and what it read is what the
\* text still is.
FlushHolds == \A c \in Children : thread[c].pc = "flush" => mutex = c /\ thread[c].read = text

MetricsInv ==
    /\ MetricsTypeOK /\ CountsConserved /\ FlushHolds
    /\ Cumulative(text) /\ \A c \in Children : Cumulative(table[c])

LEMMA ZeroTally == Zero \in Tallies /\ Zero.hits = 0 /\ Cumulative(Zero)
<1>1. Zero.bucket = [b \in Buckets |-> 0] /\ Zero.hits = 0 /\ Zero.count = 0
  BY DEF Zero
<1>2. Zero.bucket[1] = 0 /\ Zero.bucket[2] = 0
  BY <1>1 DEF Buckets
<1> QED
  BY <1>1, <1>2 DEF Zero, Tallies, Cumulative

LEMMA MetricsInitInv == MetricsInit => MetricsInv
<1> SUFFICES ASSUME MetricsInit PROVE MetricsInv
  OBVIOUS
<1>1. table \in [Children -> Tallies] /\ \A c \in Children : table[c] = Zero
  BY ZeroTally DEF MetricsInit
<1>2. HitsIn(table) = 0
  BY <1>1, ZeroTally, NoHits
<1>3. /\ text = Zero /\ tally = [counted |-> 0, reported |-> 0, lost |-> 0, timed |-> 0]
      /\ \A c \in Children : thread[c].pc = "sleep"
  BY DEF MetricsInit
<1>4. MetricsTypeOK
  BY <1>1, ZeroTally, MetricsAssumption DEF MetricsInit, MetricsTypeOK
<1>5. CountsConserved
  BY <1>2, <1>3, ZeroTally DEF CountsConserved
<1> QED
  BY <1>1, <1>3, <1>4, <1>5, ZeroTally DEF MetricsInv, FlushHolds

\* The table of child c changes: what has to be known of its new value, and
\* of the text and the tally.
LEMMA TableStep ==
    ASSUME MetricsInv, NEW c \in Children, NEW v \in Tallies, Cumulative(v),
           table' = [table EXCEPT ![c] = v], text' \in Tallies, Cumulative(text'),
           tally' \in Ghosts, mutex' \in Children \cup {Unlocked},
           thread' \in [Children -> Threads], leaving' \in [Children -> BOOLEAN], FlushHolds',
           tally'.counted + table[c].hits + text.hits + tally.reported + tally.lost
             = tally.counted + v.hits + text'.hits + tally'.reported + tally'.lost
    PROVE  MetricsInv'
<1>1. table \in [Children -> Tallies] /\ text \in Tallies /\ tally \in Ghosts
  BY DEF MetricsInv, MetricsTypeOK, Ghosts
<1>2. table' \in [Children -> Tallies] /\ table'[c] = v /\ \A d \in Children : d # c => table'[d] = table[d]
  BY <1>1
<1>3. /\ HitsIn(table) \in Nat /\ HitsIn(table') \in Nat
      /\ HitsIn(table') + table[c].hits = HitsIn(table) + v.hits
  <2>1. \A d \in Children : d # c => table'[d].hits = table[d].hits
    BY <1>2
  <2> QED
    BY <1>1, <1>2, <2>1, HitsInChanges
<1>4. /\ text.hits \in Nat /\ text'.hits \in Nat /\ v.hits \in Nat /\ table[c].hits \in Nat
      /\ tally.counted \in Nat /\ tally.reported \in Nat /\ tally.lost \in Nat
      /\ tally'.counted \in Nat /\ tally'.reported \in Nat /\ tally'.lost \in Nat
  BY <1>1, MetricsAssumption DEF Tallies, Ghosts
<1>5. tally.counted = text.hits + tally.reported + tally.lost + HitsIn(table)
  BY DEF MetricsInv, CountsConserved
<1>6. CountsConserved'
  <2>1. HitsIn(table)' = HitsIn(table')
    BY Zenon DEF HitsIn, FoldSet, MapThenFoldSet
  <2>2. tally'.counted = text'.hits + tally'.reported + tally'.lost + HitsIn(table')
    <3>1. tally'.counted + table[c].hits + text.hits + tally.reported + tally.lost
            = tally.counted + v.hits + text'.hits + tally'.reported + tally'.lost
      OBVIOUS
    <3>2. PICK n \in Nat, x \in Nat, r \in Nat, l \in Nat, h \in Nat, a \in Nat :
            /\ n = tally.counted /\ x = text.hits /\ r = tally.reported /\ l = tally.lost
            /\ h = HitsIn(table) /\ a = table[c].hits
      BY <1>3, <1>4
    <3>3. PICK m \in Nat, y \in Nat, s \in Nat, k \in Nat, i \in Nat, b \in Nat :
            /\ m = tally'.counted /\ y = text'.hits /\ s = tally'.reported /\ k = tally'.lost
            /\ i = HitsIn(table') /\ b = v.hits
      BY <1>3, <1>4
    <3>4. i + a = h + b
      BY <1>3, <3>2, <3>3, Zenon
    <3>5. n = x + r + l + h /\ m + a + x + r + l = n + b + y + s + k
      BY <1>5, <3>1, <3>2, <3>3, Zenon
    <3>6. m = y + s + k + i
      BY ONLY <3>4, <3>5
    <3> QED
      BY <3>3, <3>6, Zenon
  <2> QED
    BY <2>1, <2>2 DEF CountsConserved
<1>7. MetricsTypeOK'
  BY <1>2 DEF MetricsTypeOK, Threads, Ghosts
<1>8. \A d \in Children : Cumulative(table'[d])
  BY <1>2 DEF MetricsInv
<1> QED
  BY <1>6, <1>7, <1>8 DEF MetricsInv

\* The tables stay.
LEMMA TextStep ==
    ASSUME MetricsInv, table' = table, text' \in Tallies, Cumulative(text'),
           tally' \in Ghosts, mutex' \in Children \cup {Unlocked},
           thread' \in [Children -> Threads], leaving' \in [Children -> BOOLEAN], FlushHolds',
           tally'.counted + text.hits + tally.reported + tally.lost
             = tally.counted + text'.hits + tally'.reported + tally'.lost,
           HitsIn(table) \in Nat
    PROVE  MetricsInv'
<1>1. text \in Tallies /\ tally \in Ghosts
  BY DEF MetricsInv, MetricsTypeOK, Ghosts
<1>2. HitsIn(table)' = HitsIn(table)
  <2>1. HitsIn(table)' = HitsIn(table')
    BY Zenon DEF HitsIn, FoldSet, MapThenFoldSet
  <2> QED
    BY <2>1
<1>4. /\ text.hits \in Nat /\ text'.hits \in Nat
      /\ tally.counted \in Nat /\ tally.reported \in Nat /\ tally.lost \in Nat
      /\ tally'.counted \in Nat /\ tally'.reported \in Nat /\ tally'.lost \in Nat
  BY <1>1, MetricsAssumption DEF Tallies, Ghosts
<1>5. tally.counted = text.hits + tally.reported + tally.lost + HitsIn(table)
  BY DEF MetricsInv, CountsConserved
<1>6. CountsConserved'
  <2>1. tally'.counted = text'.hits + tally'.reported + tally'.lost + HitsIn(table)
    <3>1. tally'.counted + text.hits + tally.reported + tally.lost
            = tally.counted + text'.hits + tally'.reported + tally'.lost
      OBVIOUS
    <3>2. PICK n \in Nat, x \in Nat, r \in Nat, l \in Nat, h \in Nat :
            /\ n = tally.counted /\ x = text.hits /\ r = tally.reported /\ l = tally.lost
            /\ h = HitsIn(table)
      BY <1>4
    <3>3. PICK m \in Nat, y \in Nat, s \in Nat, k \in Nat :
            /\ m = tally'.counted /\ y = text'.hits /\ s = tally'.reported /\ k = tally'.lost
      BY <1>4
    <3>4. n = x + r + l + h /\ m + x + r + l = n + y + s + k
      BY <1>5, <3>1, <3>2, <3>3, Zenon
    <3>5. m = y + s + k + h
      BY ONLY <3>4
    <3> QED
      BY <3>2, <3>3, <3>5, Zenon
  <2> QED
    BY <2>1, <1>2 DEF CountsConserved
<1>7. MetricsTypeOK'
  BY DEF MetricsInv, MetricsTypeOK, Threads, Ghosts
<1> QED
  BY <1>6, <1>7 DEF MetricsInv

LEMMA HitsInNat == ASSUME NEW t \in [Children -> Tallies] PROVE HitsIn(t) \in Nat
<1>1. PICK g : g = CHOOSE x : IsSum(x, t)
  OBVIOUS
<1>2. IsSum(g, t)
  BY <1>1, SumExists, Zenon
<1> QED
  BY <1>1, <1>2, SumTyped, HitsInSum

\* An integer that starts anew drops what it was.
LEMMA SumDropped ==
    ASSUME NEW a \in Nat, NEW b \in Nat
    PROVE  Sum(a, b) \in Nat /\ DroppedBy(a, b) \in Nat /\ Sum(a, b) + DroppedBy(a, b) = a + b
  BY DEF Sum, DroppedBy

LEMMA BucketsIncCumulative ==
    ASSUME NEW t \in Tallies, Cumulative(t), NEW b \in Buckets
    PROVE  LET v == [t EXCEPT !.bucket = BucketsInc(@, b), !.count = @ + 1]
           IN  v \in Tallies /\ Cumulative(v) /\ v.hits = t.hits
<1>1. PICK h, n : h = BucketsInc(t.bucket, b) /\ n = t.count + 1
  OBVIOUS
<1>2. t.bucket[1] \in Nat /\ t.bucket[2] \in Nat /\ t.count \in Nat
  BY DEF Tallies, Buckets
<1>3. /\ h \in [Buckets -> Nat] /\ h[2] = t.bucket[2] + 1
      /\ h[1] = t.bucket[1] \/ h[1] = t.bucket[1] + 1
  BY <1>1, <1>2 DEF BucketsInc, Tallies, Buckets
<1>4. h[1] <= h[2] /\ h[2] = n /\ n \in Nat
  BY <1>1, <1>2, <1>3 DEF Cumulative
<1>5. PICK v : v = [t EXCEPT !.bucket = h, !.count = n]
  OBVIOUS
<1>6. v \in Tallies /\ v.bucket = h /\ v.count = n /\ v.hits = t.hits
  BY <1>3, <1>4, <1>5 DEF Tallies
<1> QED
  BY <1>1, <1>4, <1>5, <1>6 DEF Cumulative

LEMMA MergedCumulative ==
    ASSUME NEW old \in Tallies, NEW new \in Tallies, Cumulative(old), Cumulative(new)
    PROVE  /\ MergedText(old, new) \in Tallies /\ Cumulative(MergedText(old, new))
           /\ MergedText(old, new).hits = Sum(old.hits, new.hits)
<1>1. /\ old.bucket \in [Buckets -> Nat] /\ new.bucket \in [Buckets -> Nat]
      /\ old.count \in Nat /\ new.count \in Nat /\ old.hits \in Nat /\ new.hits \in Nat
  BY DEF Tallies
<1>2. PICK h, n, k : /\ h = [b \in Buckets |-> old.bucket[b] + new.bucket[b]]
                     /\ n = old.count + new.count /\ k = Sum(old.hits, new.hits)
  OBVIOUS
<1>3. h \in [Buckets -> Nat] /\ n \in Nat /\ k \in Nat
  <2>1. k \in Nat
    BY <1>1, <1>2, SumDropped
  <2>2. n \in Nat
    BY <1>1, <1>2
  <2>3. h \in [Buckets -> Nat]
    BY <1>1, <1>2
  <2> QED
    BY <2>1, <2>2, <2>3
<1>4. /\ old.bucket[1] \in Nat /\ old.bucket[2] \in Nat /\ new.bucket[1] \in Nat /\ new.bucket[2] \in Nat
      /\ h[1] = old.bucket[1] + new.bucket[1] /\ h[2] = old.bucket[2] + new.bucket[2]
  BY <1>1, <1>2 DEF Buckets
<1>5. h[1] <= h[2] /\ h[2] = n
  BY <1>2, <1>4 DEF Cumulative
<1>6. MergedText(old, new) = [hits |-> k, count |-> n, bucket |-> h]
  BY <1>2 DEF MergedText
<1> QED
  BY <1>2, <1>3, <1>5, <1>6 DEF Tallies, Cumulative

\* What the steps of child c find.
LEMMA MetricsKnown ==
    ASSUME MetricsInv, NEW c \in Children
    PROVE  /\ table[c] \in Tallies /\ Cumulative(table[c]) /\ table[c].hits \in Nat
           /\ text \in Tallies /\ Cumulative(text) /\ text.hits \in Nat
           /\ tally \in Ghosts /\ tally.counted \in Nat /\ tally.reported \in Nat /\ tally.lost \in Nat
           /\ mutex \in Children \cup {Unlocked} /\ thread \in [Children -> Threads]
           /\ leaving \in [Children -> BOOLEAN] /\ FlushHolds
<1>1. /\ table[c] \in Tallies /\ Cumulative(table[c]) /\ text \in Tallies /\ Cumulative(text)
      /\ tally \in Ghosts /\ mutex \in Children \cup {Unlocked} /\ thread \in [Children -> Threads]
      /\ leaving \in [Children -> BOOLEAN] /\ FlushHolds
  BY DEF MetricsInv, MetricsTypeOK, Threads, Ghosts
<1> QED
  BY <1>1, MetricsAssumption DEF Tallies, Ghosts

LEMMA CounterIncStep == ASSUME MetricsInv, NEW c \in Children, CounterInc(c) PROVE MetricsInv'
<1>1. /\ table' = [table EXCEPT ![c].hits = Sum(@, 1)] /\ tally.counted + tally.timed < EventBound
      /\ tally' = [tally EXCEPT !.counted = @ + 1, !.lost = @ + DroppedBy(table[c].hits, 1)]
      /\ UNCHANGED <<text, mutex, thread, leaving>>
  BY DEF CounterInc
<1>11. PICK a \in Nat : a = table[c].hits
  BY MetricsKnown
<1>2. PICK k \in Nat, d \in Nat : k = Sum(a, 1) /\ d = DroppedBy(a, 1) /\ k + d = a + 1
  BY SumDropped
<1>3. PICK v : v = [table[c] EXCEPT !.hits = k]
  OBVIOUS
<1>4. v \in Tallies /\ v.hits = k /\ Cumulative(v)
  BY <1>2, <1>3, <1>11, MetricsKnown DEF Tallies, Cumulative
<1>5. table' = [table EXCEPT ![c] = v]
  BY <1>1, <1>2, <1>3, <1>11
<1>6. PICK n \in Nat, l \in Nat : n = tally.counted + 1 /\ l = tally.lost + d /\ n \in 0 .. EventBound
  BY <1>1, MetricsKnown, MetricsAssumption DEF Ghosts
<1>7. tally' = [tally EXCEPT !.counted = n, !.lost = l]
  BY <1>1, <1>2, <1>6, <1>11
<1>8. tally' \in Ghosts /\ tally'.counted = n /\ tally'.lost = l /\ tally'.reported = tally.reported
  BY <1>6, <1>7, MetricsKnown DEF Ghosts
<1>9. tally'.counted + table[c].hits + text.hits + tally.reported + tally.lost
        = tally.counted + v.hits + text'.hits + tally'.reported + tally'.lost
  <2>1. PICK n0 \in Nat, x \in Nat, r \in Nat, l0 \in Nat :
          n0 = tally.counted /\ x = text.hits /\ r = tally.reported /\ l0 = tally.lost
    BY MetricsKnown
  <2>2. n + a + x + r + l0 = n0 + k + x + r + l
    BY <2>1, <1>2, <1>6
  <2> QED
    BY <2>1, <2>2, <1>1, <1>2, <1>4, <1>8, <1>11
<1>10. FlushHolds'
  BY <1>1, MetricsKnown DEF FlushHolds
<1> QED
  BY <1>1, <1>4, <1>5, <1>8, <1>9, <1>10, MetricsKnown, TableStep

LEMMA TimingAddStep == ASSUME MetricsInv, NEW c \in Children, TimingAdd(c) PROVE MetricsInv'
<1>1. PICK b \in Buckets, overflow \in BOOLEAN :
        LET t == IF overflow /\ table[c].count > 0 THEN [Zero EXCEPT !.hits = table[c].hits]
                 ELSE table[c] IN
        table' = [table EXCEPT ![c] = [t EXCEPT !.bucket = BucketsInc(@, b), !.count = @ + 1]]
  BY DEF TimingAdd
<1>2. PICK t : t = IF overflow /\ table[c].count > 0 THEN [Zero EXCEPT !.hits = table[c].hits] ELSE table[c]
  OBVIOUS
<1>3. t \in Tallies /\ Cumulative(t) /\ t.hits = table[c].hits
  BY <1>2, MetricsKnown, ZeroTally DEF Tallies, Cumulative
<1>4. PICK v : v = [t EXCEPT !.bucket = BucketsInc(@, b), !.count = @ + 1]
  OBVIOUS
<1>5. v \in Tallies /\ Cumulative(v) /\ v.hits = table[c].hits
  BY <1>3, <1>4, BucketsIncCumulative
<1>6. table' = [table EXCEPT ![c] = v]
  BY <1>1, <1>2, <1>4
<1>7. /\ tally' = [tally EXCEPT !.timed = @ + 1] /\ tally.counted + tally.timed < EventBound
      /\ UNCHANGED <<text, mutex, thread, leaving>>
  BY DEF TimingAdd
<1>8. PICK n \in 0 .. EventBound : n = tally.timed + 1
  BY <1>7, MetricsKnown, MetricsAssumption DEF Ghosts
<1>9. tally' \in Ghosts /\ tally'.counted = tally.counted /\ tally'.lost = tally.lost /\ tally'.reported = tally.reported
  BY <1>7, <1>8, MetricsKnown DEF Ghosts
<1>10. FlushHolds'
  BY <1>7, MetricsKnown DEF FlushHolds
<1>11. tally'.counted + table[c].hits + text.hits + tally.reported + tally.lost
         = tally.counted + v.hits + text'.hits + tally'.reported + tally'.lost
  BY <1>5, <1>7, <1>9
<1> QED
  BY <1>5, <1>6, <1>7, <1>9, <1>10, <1>11, MetricsKnown, TableStep

LEMMA WakeUpStep == ASSUME MetricsInv, NEW c \in Children, WakeUp(c) PROVE MetricsInv'
<1>1. thread[c].pc = "sleep" /\ UNCHANGED <<table, text, leaving, tally>>
  BY DEF WakeUp
<1>2. /\ mutex' \in Children \cup {Unlocked} /\ thread' \in [Children -> Threads] /\ FlushHolds'
  <2>1. CASE thread' = [thread EXCEPT ![c].pc = "check"] /\ UNCHANGED mutex
    <3>1. PICK st : st = [thread[c] EXCEPT !.pc = "check"]
      OBVIOUS
    <3>2. st \in Threads /\ st.pc = "check"
      BY <3>1, MetricsKnown DEF Threads
    <3>3. thread' = [thread EXCEPT ![c] = st]
      BY <2>1, <3>1
    <3>4. thread' \in [Children -> Threads] /\ thread'[c] = st /\ \A d \in Children : d # c => thread'[d] = thread[d]
      BY <3>2, <3>3, MetricsKnown
    <3> QED
      BY <2>1, <3>2, <3>4, <1>1, MetricsKnown DEF FlushHolds
  <2>2. CASE mutex = Unlocked /\ mutex' = c /\ thread' = [thread EXCEPT ![c] = [pc |-> "flush", read |-> text]]
    <3>1. \A d \in Children : thread[d].pc # "flush"
      BY <2>2, MetricsKnown, MetricsAssumption DEF FlushHolds
    <3>2. PICK st : st = [pc |-> "flush", read |-> text]
      OBVIOUS
    <3>3. st \in Threads /\ st.read = text
      BY <3>2, MetricsKnown DEF Threads
    <3>4. thread' \in [Children -> Threads] /\ thread'[c] = st /\ \A d \in Children : d # c => thread'[d] = thread[d]
      BY <2>2, <3>2, <3>3, MetricsKnown
    <3> QED
      BY <2>2, <3>1, <3>3, <3>4, <1>1 DEF FlushHolds
  <2> QED
    BY <2>1, <2>2 DEF WakeUp
<1>3. HitsIn(table) \in Nat
  BY HitsInNat DEF MetricsInv, MetricsTypeOK
<1> QED
  BY <1>1, <1>2, <1>3, MetricsKnown, TextStep

LEMMA StoreStep == ASSUME MetricsInv, NEW c \in Children, StoreMetrics(c) PROVE MetricsInv'
<1>1. /\ thread[c].pc = "flush" /\ mutex' = Unlocked /\ table' = [table EXCEPT ![c] = Zero]
      /\ thread' = [thread EXCEPT ![c] = [pc |-> "check", read |-> Zero]] /\ leaving' = leaving
  BY DEF StoreMetrics
<1>2. mutex = c /\ thread[c].read = text
  BY <1>1, MetricsKnown DEF FlushHolds
<1>3. thread' \in [Children -> Threads] /\ FlushHolds'
  <2>1. \A d \in Children : d # c => thread[d].pc # "flush"
    BY <1>2, MetricsKnown DEF FlushHolds
  <2>2. PICK st : st = [pc |-> "check", read |-> Zero]
    OBVIOUS
  <2>3. st \in Threads /\ st.pc = "check"
    BY <2>2, ZeroTally DEF Threads
  <2>4. thread' \in [Children -> Threads] /\ thread'[c] = st /\ \A d \in Children : d # c => thread'[d] = thread[d]
    BY <1>1, <2>2, <2>3, MetricsKnown
  <2> QED
    BY <2>1, <2>3, <2>4 DEF FlushHolds
<1>4. PICK n \in Nat, x \in Nat, r \in Nat, l \in Nat, a \in Nat :
        n = tally.counted /\ x = text.hits /\ r = tally.reported /\ l = tally.lost /\ a = table[c].hits
  BY MetricsKnown
<1>5. PICK y \in Nat, k \in Nat :
        /\ text' \in Tallies /\ Cumulative(text') /\ text'.hits = y
        /\ tally' = [tally EXCEPT !.lost = k] /\ x + l + a = y + k
  <2>1. CASE /\ text' = MergedText(thread[c].read, table[c])
             /\ tally' = [tally EXCEPT !.lost = @ + DroppedBy(thread[c].read.hits, table[c].hits)]
    <3>1. PICK y \in Nat, d \in Nat : y = Sum(x, a) /\ d = DroppedBy(x, a) /\ y + d = x + a
      BY SumDropped
    <3>2. text' \in Tallies /\ Cumulative(text') /\ text'.hits = y
      BY <2>1, <3>1, <1>2, <1>4, MetricsKnown, MergedCumulative
    <3>3. PICK k \in Nat : k = l + d
      OBVIOUS
    <3>4. tally' = [tally EXCEPT !.lost = k]
      BY <2>1, <3>1, <3>3, <1>2, <1>4
    <3>5. x + l + a = y + k
      BY <3>1, <3>3
    <3> QED
      BY <3>2, <3>4, <3>5
  <2>2. CASE text' = text /\ tally' = [tally EXCEPT !.lost = @ + table[c].hits]
    <3>1. PICK k \in Nat : k = l + a
      OBVIOUS
    <3>2. tally' = [tally EXCEPT !.lost = k] /\ x + l + a = x + k
      BY <2>2, <3>1, <1>4
    <3> QED
      BY <2>2, <3>2, <1>4, MetricsKnown
  <2> QED
    BY <2>1, <2>2 DEF StoreMetrics
<1>6. tally' \in Ghosts /\ tally'.counted = n /\ tally'.lost = k /\ tally'.reported = r
  BY <1>4, <1>5, MetricsKnown DEF Ghosts
<1>7. n + a + x + r + l = n + 0 + y + r + k
  BY <1>5
<1>8. tally'.counted + table[c].hits + text.hits + tally.reported + tally.lost
        = tally.counted + Zero.hits + text'.hits + tally'.reported + tally'.lost
  BY <1>4, <1>5, <1>6, <1>7, ZeroTally
<1> QED
  BY <1>1, <1>3, <1>5, <1>6, <1>8, ZeroTally, MetricsKnown, TableStep

LEMMA CheckExitStep == ASSUME MetricsInv, NEW c \in Children, CheckExit(c) PROVE MetricsInv'
<1>1. /\ thread[c].pc = "check" /\ thread' = [thread EXCEPT ![c].pc = IF leaving[c] THEN "ended" ELSE "sleep"]
      /\ UNCHANGED <<table, text, mutex, leaving, tally>>
  BY DEF CheckExit
<1>2. PICK st : st = [thread[c] EXCEPT !.pc = IF leaving[c] THEN "ended" ELSE "sleep"]
  OBVIOUS
<1>3. st \in Threads /\ st.pc # "flush"
  BY <1>2, MetricsKnown DEF Threads
<1>4. thread' \in [Children -> Threads] /\ thread'[c] = st /\ \A d \in Children : d # c => thread'[d] = thread[d]
  <2>1. thread' = [thread EXCEPT ![c] = st]
    BY <1>1, <1>2
  <2> QED
    BY <2>1, <1>3, MetricsKnown
<1>5. FlushHolds'
  BY <1>1, <1>3, <1>4, MetricsKnown DEF FlushHolds
<1>6. HitsIn(table) \in Nat
  BY HitsInNat DEF MetricsInv, MetricsTypeOK
<1> QED
  BY <1>1, <1>4, <1>5, <1>6, MetricsKnown, TextStep

LEMMA BeginCleanupStep == ASSUME MetricsInv, NEW c \in Children, BeginCleanup(c) PROVE MetricsInv'
<1>1. leaving' = [leaving EXCEPT ![c] = TRUE] /\ UNCHANGED <<table, text, mutex, thread, tally>>
  BY DEF BeginCleanup
<1>2. leaving' \in [Children -> BOOLEAN]
  BY <1>1, MetricsKnown
<1>3. FlushHolds'
  BY <1>1, MetricsKnown DEF FlushHolds
<1>4. HitsIn(table) \in Nat
  BY HitsInNat DEF MetricsInv, MetricsTypeOK
<1> QED
  BY <1>1, <1>2, <1>3, <1>4, MetricsKnown, TextStep

\* A child ends with what is in its table.
LEMMA TableLost ==
    ASSUME MetricsInv, NEW c \in Children, NEW st \in Threads, st.pc # "flush",
           tally' = [tally EXCEPT !.lost = @ + table[c].hits], table' = [table EXCEPT ![c] = Zero],
           thread' = [thread EXCEPT ![c] = st], leaving' \in [Children -> BOOLEAN], UNCHANGED <<text, mutex>>
    PROVE  MetricsInv'
<1>1. PICK n \in Nat, x \in Nat, r \in Nat, l \in Nat, a \in Nat :
        n = tally.counted /\ x = text.hits /\ r = tally.reported /\ l = tally.lost /\ a = table[c].hits
  BY MetricsKnown
<1>2. PICK k \in Nat : k = l + a
  OBVIOUS
<1>3. tally' = [tally EXCEPT !.lost = k]
  BY <1>1, <1>2
<1>4. tally' \in Ghosts /\ tally'.counted = n /\ tally'.lost = k /\ tally'.reported = r
  BY <1>1, <1>3, MetricsKnown DEF Ghosts
<1>5. n + a + x + r + l = n + 0 + x + r + k
  BY <1>2
<1>6. tally'.counted + table[c].hits + text.hits + tally.reported + tally.lost
        = tally.counted + Zero.hits + text'.hits + tally'.reported + tally'.lost
  BY <1>1, <1>4, <1>5, ZeroTally
<1>7. thread' \in [Children -> Threads] /\ thread'[c] = st /\ \A d \in Children : d # c => thread'[d] = thread[d]
  BY MetricsKnown
<1>8. FlushHolds'
  BY <1>7, MetricsKnown DEF FlushHolds
<1> QED
  BY <1>4, <1>6, <1>7, <1>8, ZeroTally, MetricsKnown, TableStep

LEMMA EndCleanupStep == ASSUME MetricsInv, NEW c \in Children, EndCleanup(c) PROVE MetricsInv'
<1>1. PICK st : st = [thread[c] EXCEPT !.pc = "sleep"]
  OBVIOUS
<1>2. st \in Threads /\ st.pc # "flush"
  BY <1>1, MetricsKnown DEF Threads
<1>3. /\ tally' = [tally EXCEPT !.lost = @ + table[c].hits] /\ table' = [table EXCEPT ![c] = Zero]
      /\ thread' = [thread EXCEPT ![c] = st] /\ leaving' \in [Children -> BOOLEAN] /\ UNCHANGED <<text, mutex>>
  BY <1>1, MetricsKnown DEF EndCleanup
<1> QED
  BY <1>2, <1>3, TableLost

LEMMA ChildDiesStep == ASSUME MetricsInv, NEW c \in Children, ChildDies(c) PROVE MetricsInv'
<1>1. PICK st : st = [pc |-> "dead", read |-> Zero]
  OBVIOUS
<1>2. st \in Threads /\ st.pc # "flush"
  BY <1>1, ZeroTally DEF Threads
<1>3. /\ tally' = [tally EXCEPT !.lost = @ + table[c].hits] /\ table' = [table EXCEPT ![c] = Zero]
      /\ thread' = [thread EXCEPT ![c] = st] /\ leaving' \in [Children -> BOOLEAN] /\ UNCHANGED <<text, mutex>>
  BY <1>1, MetricsKnown DEF ChildDies
<1> QED
  BY <1>2, <1>3, TableLost

LEMMA HandleMetricsStep == ASSUME MetricsInv, HandleMetrics PROVE MetricsInv'
<1>1. /\ mutex = Unlocked /\ UNCHANGED <<table, mutex, thread, leaving>>
      /\ (UNCHANGED <<text, tally>> \/ (text' = Zero /\ tally' = [tally EXCEPT !.reported = @ + text.hits]))
  BY DEF HandleMetrics
<1>2. /\ text \in Tallies /\ Cumulative(text) /\ tally \in Ghosts /\ FlushHolds
      /\ mutex \in Children \cup {Unlocked} /\ thread \in [Children -> Threads]
      /\ leaving \in [Children -> BOOLEAN] /\ HitsIn(table) \in Nat
  BY HitsInNat DEF MetricsInv, MetricsTypeOK, Ghosts, Threads
<1>3. FlushHolds'
  BY <1>1, <1>2, MetricsAssumption DEF FlushHolds
<1>4. CASE UNCHANGED <<text, tally>>
  <2>1. text' = text /\ tally' = tally
    BY <1>4
  <2> QED
    BY <2>1, <1>1, <1>2, <1>3, TextStep
<1>5. CASE text' = Zero /\ tally' = [tally EXCEPT !.reported = @ + text.hits]
  <2>1. PICK n \in Nat, x \in Nat, r \in Nat, l \in Nat :
          n = tally.counted /\ x = text.hits /\ r = tally.reported /\ l = tally.lost
    BY <1>2, MetricsAssumption DEF Tallies, Ghosts
  <2>2. PICK k \in Nat : k = r + x
    OBVIOUS
  <2>3. tally' = [tally EXCEPT !.reported = k]
    BY <1>5, <2>1, <2>2
  <2>4. tally' \in Ghosts /\ tally'.counted = n /\ tally'.lost = l /\ tally'.reported = k
    BY <1>2, <2>1, <2>3 DEF Ghosts
  <2>5. n + x + r + l = n + 0 + k + l
    BY <2>2
  <2>6. tally'.counted + text.hits + tally.reported + tally.lost
          = tally.counted + text'.hits + tally'.reported + tally'.lost
    BY <1>5, <2>1, <2>4, <2>5, ZeroTally
  <2> QED
    BY <1>1, <1>2, <1>3, <1>5, <2>4, <2>6, ZeroTally, TextStep
<1> QED
  BY <1>1, <1>4, <1>5

LEMMA MetricsStep == MetricsInv /\ [MetricsNext]_metricVars => MetricsInv'
<1> SUFFICES ASSUME MetricsInv, [MetricsNext]_metricVars PROVE MetricsInv'
  OBVIOUS
<1>1. CASE UNCHANGED metricVars
  <2>1. /\ table' = table /\ text' = text /\ mutex' = mutex /\ thread' = thread /\ leaving' = leaving
        /\ tally' = tally
    BY <1>1 DEF metricVars
  <2>2. /\ text \in Tallies /\ Cumulative(text) /\ tally \in Ghosts /\ FlushHolds
        /\ mutex \in Children \cup {Unlocked} /\ thread \in [Children -> Threads]
        /\ leaving \in [Children -> BOOLEAN] /\ HitsIn(table) \in Nat
    BY HitsInNat DEF MetricsInv, MetricsTypeOK, Ghosts, Threads
  <2>3. FlushHolds'
    BY <2>1, <2>2 DEF FlushHolds
  <2> QED
    BY <2>1, <2>2, <2>3, TextStep
<1>2. CASE HandleMetrics
  BY <1>2, HandleMetricsStep
<1>3. ASSUME NEW c \in Children,
             \/ CounterInc(c) \/ TimingAdd(c) \/ WakeUp(c) \/ StoreMetrics(c) \/ CheckExit(c)
             \/ BeginCleanup(c) \/ EndCleanup(c) \/ ChildDies(c)
      PROVE  MetricsInv'
  BY <1>3, CounterIncStep, TimingAddStep, WakeUpStep, StoreStep, CheckExitStep, BeginCleanupStep,
     EndCleanupStep, ChildDiesStep
<1> QED
  BY <1>1, <1>2, <1>3 DEF MetricsNext

\* The inductive invariant of the metrics: the books balance, a thread that
\* stores has the mutex and the text as it is, and histograms are cumulative.
THEOREM MetricsInvariance == MetricsSpec => []MetricsInv
  BY MetricsInitInv, MetricsStep, PTL DEF MetricsSpec

\* Every event is counted once, in one place, and every histogram is one, for
\* any number of child processes and any interleaving of counting, storing,
\* pages, exits and crashes (oidc_metrics_thread_run,
\* oidc_metrics_handle_request).
THEOREM MetricsAlwaysRight == MetricsSpec => []MetricsRight
<1>1. MetricsInv => MetricsRight
  <2> SUFFICES ASSUME MetricsInv PROVE MetricsRight
    OBVIOUS
  <2>1. HistogramCoherent
    BY DEF MetricsInv, Cumulative, HistogramCoherent, Buckets
  <2> QED
    BY <2>1 DEF MetricsInv, MetricsRight
<1> QED
  BY <1>1, MetricsInvariance, PTL

=============================================================================
