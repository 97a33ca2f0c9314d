------------------------------ MODULE FileCache ------------------------------
(***************************************************************************)
(* The file cache backend.  A value is written to a temporary file that is *)
(* renamed to the file of its key; a set first cleans the directory of     *)
(* expired and corrupted files, temporary ones that a dead process left    *)
(* behind included.  Processes share nothing but the directory: every step *)
(* between two of them is a system call.                                   *)
(*                                                                         *)
(* One key.  A file is its inode: 1, 2, ... in the order of creation.  The *)
(* name 0 is the file of the key, the name n the temporary file that inode *)
(* n was created with (12 random bytes: never met again).                  *)
(***************************************************************************)
EXTENDS Naturals, FiniteSets

CONSTANTS
    FileWorkers,    \* processes that use the cache
    MaxInode,       \* bound: files that are created
    FileFaults      \* faults that happen, of {"write", "crash"}

ASSUME FileAssumption == MaxInode \in Nat

VARIABLES
    dir,        \* per name: the inode, 0 if there is no such file
    file,       \* per inode: what is in it
    w,          \* per process: where it is
    current,    \* the inode that the last set or delete of the key left
    born        \* the number of inodes created so far

fileVars == <<dir, file, w, current, born>>

Inodes == 1 .. MaxInode
Names == 0 .. MaxInode

\* What of a file was written: nothing, the info record, the value too.
Fill == {"empty", "info", "full"}

FileTypeOK ==
    /\ dir \in [Names -> Names]
    /\ file \in [Inodes -> [fill : Fill, expired : BOOLEAN, lock : FileWorkers \cup {0}]]
    /\ w \in [FileWorkers -> [pc : {"idle", "open", "write", "rename", "read", "list", "inspect",
                                    "same", "remove", "delete", "put"},
                              ino : Names, name : Names, todo : SUBSET Names,
                              wants : {"none", "put", "delete"}, seen : SUBSET Names,
                              got : {"none", "miss", "hit", "torn"}]]
    /\ current \in Names
    /\ born \in Names

Quiet == [pc |-> "idle", ino |-> 0, name |-> 0, todo |-> {}, wants |-> "none", seen |-> {},
          got |-> "none"]

FileInit ==
    /\ dir = [n \in Names |-> 0]
    /\ file = [i \in Inodes |-> [fill |-> "empty", expired |-> FALSE, lock |-> 0]]
    /\ w = [p \in FileWorkers |-> Quiet]
    /\ current = 0
    /\ born = 0

Step(p, s) == w' = [w EXCEPT ![p] = s]

\* The key has another value: every get that is under way may answer with it.
Becomes(i, ww) ==
    /\ current' = i
    /\ w' = [p \in FileWorkers |-> [ww[p] EXCEPT !.seen = IF ww[p].pc = "read" THEN @ \cup {i} ELSE @]]

-----------------------------------------------------------------------------
(* oidc_cache_file_get: opens the file; the shared lock waits for a writer.  *)
OpenForGet(p) ==
    /\ w[p].pc = "idle"
    /\ Step(p, IF dir[0] = 0 THEN [Quiet EXCEPT !.got = "miss"]
               ELSE [Quiet EXCEPT !.pc = "read", !.ino = dir[0], !.seen = {current}])
    /\ UNCHANGED <<dir, file, current, born>>

ReadValue(p) ==
    /\ w[p].pc = "read"
    /\ LET f == file[w[p].ino] IN
       /\ f.lock = 0
       /\ Step(p, [w[p] EXCEPT !.pc = "idle",
                     !.got = IF f.fill # "full" THEN "torn" ELSE IF f.expired THEN "miss" ELSE "hit"])
    /\ UNCHANGED <<dir, file, current, born>>

-----------------------------------------------------------------------------
(* oidc_cache_file_set                                                       *)

(* oidc_cache_file_clean_due: the time stamp says whether this set cleans;   *)
(* two processes may find it due at once.                                    *)
StartSet(p) ==
    /\ w[p].pc = "idle" /\ born < MaxInode
    /\ \E wants \in {"put", "delete"}, due \in BOOLEAN :
         Step(p, [Quiet EXCEPT !.wants = wants, !.pc = IF due THEN "list" ELSE wants])
    /\ UNCHANGED <<dir, file, current, born>>

(* oidc_cache_file_clean: the directory is read.                             *)
ListDirectory(p) ==
    /\ w[p].pc = "list"
    /\ Step(p, [w[p] EXCEPT !.pc = "inspect", !.todo = {n \in Names : dir[n] # 0}])
    /\ UNCHANGED <<dir, file, current, born>>

(* oidc_cache_file_clean_entry: open, lock, read the info record.  A file    *)
(* that is too short for it is corrupted.                                    *)
InspectEntry(p) ==
    /\ w[p].pc = "inspect"
    /\ \/ /\ w[p].todo = {}
          /\ Step(p, [w[p] EXCEPT !.pc = w[p].wants])
       \/ \E n \in w[p].todo :
            LET i == dir[n] rest == [w[p] EXCEPT !.todo = @ \ {n}] IN
            /\ i # 0 => file[i].lock = 0
            /\ Step(p, IF i # 0 /\ (file[i].fill = "empty" \/ file[i].expired)
                         THEN [rest EXCEPT !.pc = "same", !.name = n, !.ino = i] ELSE rest)
    /\ UNCHANGED <<dir, file, current, born>>

(* oidc_cache_file_is_same *)
CheckSame(p) ==
    /\ w[p].pc = "same"
    /\ Step(p, [w[p] EXCEPT !.pc = IF dir[w[p].name] = w[p].ino THEN "remove" ELSE "inspect"])
    /\ UNCHANGED <<dir, file, current, born>>

RemoveEntry(p) ==
    /\ w[p].pc = "remove"
    /\ dir' = [dir EXCEPT ![w[p].name] = 0]
    /\ Step(p, [w[p] EXCEPT !.pc = "inspect"])
    /\ UNCHANGED <<file, current, born>>

\* A delete that takes the name of the temporary file for that of the key.
DeleteTemporary(p) ==
    /\ w[p].pc = "delete"
    /\ Becomes(0, [w EXCEPT ![p] = Quiet])
    /\ UNCHANGED <<dir, file, born>>

(* A set without a value removes the file of the key.                        *)
DeleteKey(p) ==
    /\ w[p].pc = "delete"
    /\ dir' = [dir EXCEPT ![0] = 0]
    /\ Becomes(0, [w EXCEPT ![p] = Quiet])
    /\ UNCHANGED <<file, born>>

(* The temporary file is created, then locked, then written.                 *)
CreateTemporary(p) ==
    /\ w[p].pc = "put" /\ born < MaxInode
    /\ born' = born + 1
    /\ dir' = [dir EXCEPT ![born + 1] = born + 1]
    /\ Step(p, [w[p] EXCEPT !.pc = "open", !.ino = born + 1])
    /\ UNCHANGED <<file, current>>

LockAndWriteInfo(p) ==
    /\ w[p].pc = "open"
    /\ file' = [file EXCEPT ![w[p].ino] = [@ EXCEPT !.fill = "info", !.lock = p]]
    /\ Step(p, [w[p] EXCEPT !.pc = "write"])
    /\ UNCHANGED <<dir, current, born>>

WriteValue(p) ==
    /\ w[p].pc = "write"
    /\ file' = [file EXCEPT ![w[p].ino] = [@ EXCEPT !.fill = "full", !.lock = 0]]
    /\ Step(p, [w[p] EXCEPT !.pc = "rename"])
    /\ UNCHANGED <<dir, current, born>>

\* The write fails: the temporary file is removed.
WriteFails(p) ==
    /\ "write" \in FileFaults /\ w[p].pc \in {"open", "write"}
    /\ dir' = [dir EXCEPT ![w[p].ino] = 0]
    /\ file' = [file EXCEPT ![w[p].ino].lock = 0]
    /\ Step(p, Quiet)
    /\ UNCHANGED <<current, born>>

\* The rename is done before the value is written.
RenameEarly(p) ==
    /\ w[p].pc \in {"write", "rename"}
    /\ dir' = [dir EXCEPT ![0] = w[p].ino, ![w[p].ino] = 0]
    /\ file' = [file EXCEPT ![w[p].ino].lock = 0]
    /\ Becomes(w[p].ino, [w EXCEPT ![p] = Quiet])
    /\ UNCHANGED born

(* The rename replaces the file of the key, or fails if the temporary file   *)
(* was taken by another process that cleans.                                 *)
Rename(p) ==
    /\ w[p].pc = "rename"
    /\ IF dir[w[p].ino] = 0
         THEN Step(p, Quiet) /\ UNCHANGED <<dir, current>>
         ELSE /\ dir' = [dir EXCEPT ![0] = w[p].ino, ![w[p].ino] = 0]
              /\ Becomes(w[p].ino, [w EXCEPT ![p] = Quiet])
    /\ UNCHANGED <<file, born>>

-----------------------------------------------------------------------------
(* The system gives the locks of a dead process back.                        *)
CrashWorker(p) ==
    /\ "crash" \in FileFaults /\ w[p].pc # "idle"
    /\ file' = [i \in Inodes |-> [file[i] EXCEPT !.lock = IF @ = p THEN 0 ELSE @]]
    /\ Step(p, Quiet)
    /\ UNCHANGED <<dir, current, born>>

Expire(i) ==
    /\ i <= born /\ ~file[i].expired
    /\ file' = [file EXCEPT ![i].expired = TRUE]
    /\ UNCHANGED <<dir, w, current, born>>

FileNext ==
    \/ \E p \in FileWorkers :
         \/ OpenForGet(p) \/ ReadValue(p) \/ StartSet(p) \/ ListDirectory(p) \/ InspectEntry(p)
         \/ CheckSame(p) \/ RemoveEntry(p) \/ DeleteKey(p) \/ CreateTemporary(p)
         \/ LockAndWriteInfo(p) \/ WriteValue(p) \/ WriteFails(p) \/ Rename(p) \/ CrashWorker(p)
    \/ \E i \in Inodes : Expire(i)

FileSpec == FileInit /\ [][FileNext]_fileVars

-----------------------------------------------------------------------------
(* Properties                                                                *)

\* A get never answers with a value that was written in part, or whose
\* writer died or failed halfway: every such get would be a session that is
\* cut short.
NeverTorn == \A p \in FileWorkers : w[p].got # "torn"

\* A value that a get answers with was the value of the key at some moment
\* of that call: not one that had been replaced or deleted before it began,
\* and not one that was never renamed to the key.
ReadsCurrent ==
    \A p \in FileWorkers : w[p].got = "hit" => w[p].ino \in w[p].seen

\* A read of a file yields a whole value that is current.
ReadsWhole == NeverTorn /\ ReadsCurrent
=============================================================================
