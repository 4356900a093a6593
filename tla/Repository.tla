------------------------------- MODULE Repository ------------------------------
(***************************************************************************)
(* The table of files and the metadata files it is kept in: class          *)
(* Repository of simple_p2p/repository/repository.py, under crashes and    *)
(* restarts of the program.                                                *)
(*                                                                         *)
(* Every operation that writes holds the one lock from its start to its    *)
(* end, but a metadata file is opened, which empties it, before it is      *)
(* written, and the program may die in between.  So an operation is a      *)
(* first step in memory and then steps on disk; "op" is the one that holds *)
(* the lock.                                                               *)
(*                                                                         *)
(* A content stands for its size and its hash.  What the transfers do to   *)
(* the files and to the sizes seen so far is the matter of Downloads; here *)
(* the files change at any time.                                           *)
(***************************************************************************)
EXTENDS FiniteSets

CONSTANTS
    Names,      \* file names
    Contents,   \* contents of files
    Absent      \* no file, or no metadata file

ASSUME RepositoryConstants == Absent \notin Contents

VARIABLES
    process,    \* the program is "down", "loading" its repository or "up"
    files,      \* Repository._files
    yaml,       \* the metadata files, some of them cut by a crash
    disk,       \* the files themselves
    op,         \* the operation that holds the lock
    jobs        \* change_state calls queued in the executor

vars == <<process, files, yaml, disk, op, jobs>>

-----------------------------------------------------------------------------
(* Data *)

Statuses == {"READY", "DOWNLOADING", "INVALID"}

\* FileMetadata: the content wanted, and the one seen when last measured.
Meta == [wanted : Contents, status : Statuses, seen : Contents \cup {Absent}]

NoMeta == [wanted |-> Absent]

\* as_dict, as far as load uses it: the rest is measured again.
Saved(m) == [wanted |-> m.wanted, status |-> m.status]

SavedMeta == [wanted : Contents, status : Statuses]

Cut == [wanted |-> Absent, status |-> "INVALID"]

NoYaml == [wanted |-> Absent, status |-> "READY"]

IsValid(m) == m.seen = m.wanted

\* What the holder of the lock does, at which step, to which file; what load
\* has still to do.
Doing(kind, step, n, m, todo) ==
    [kind |-> kind, at |-> step, name |-> n, meta |-> m, todo |-> todo]

Operation ==
    [kind : {"none", "init", "add", "change", "remove", "load"},
     at : {"start", "open", "dump", "unlink", "next"},
     name : Names \cup {Absent}, meta : Meta \cup {NoMeta}, todo : SUBSET Names]

Free == Doing("none", "start", Absent, NoMeta, {})

With(n, m) ==
    [k \in DOMAIN files \cup {n} |-> IF k = n THEN m ELSE files[k]]

Without(n) == [k \in DOMAIN files \ {n} |-> files[k]]

Saving(kind, n, m) == Doing(kind, "open", n, m, {})

\* An operation starts: the program is up and takes the lock.
CanStart == process = "up" /\ op = Free

-----------------------------------------------------------------------------
(* The operations, up to their first step on disk *)

\* init_meta: a new download enters the table only when it is saved.
InitMeta(n, c) ==
    /\ CanStart
    /\ n \notin DOMAIN files
    /\ op' = Saving("init", n, [wanted |-> c, status |-> "DOWNLOADING", seen |-> disk[n]])
    /\ UNCHANGED <<process, files, yaml, disk, jobs>>

AddAnything(n) ==    \* mutant: a path without a file is accepted
    /\ CanStart
    /\ n \notin DOMAIN files
    /\ LET m == [wanted |-> disk[n], status |-> "READY", seen |-> disk[n]]
       IN  files' = With(n, m) /\ op' = Saving("add", n, m)
    /\ UNCHANGED <<process, yaml, disk, jobs>>

\* add_file: what is there is what is wanted.
AddFile(n) ==
    /\ CanStart
    /\ n \notin DOMAIN files
    /\ disk[n] # Absent
    /\ LET m == [wanted |-> disk[n], status |-> "READY", seen |-> disk[n]]
       IN  files' = With(n, m) /\ op' = Saving("add", n, m)
    /\ UNCHANGED <<process, yaml, disk, jobs>>

StatusNotSaved(j) ==    \* mutant: the new status is not persisted
    /\ CanStart
    /\ j \in jobs
    /\ jobs' = jobs \ {j}
    /\ IF j.name \in DOMAIN files
       THEN files' = [files EXCEPT ![j.name].status = j.status]
       ELSE UNCHANGED files
    /\ UNCHANGED <<process, yaml, disk, op>>

\* change_state, as a job of the executor; the name may be gone.
ChangeState(j) ==
    /\ CanStart
    /\ j \in jobs
    /\ jobs' = jobs \ {j}
    /\ IF j.name \in DOMAIN files
       THEN LET m == [files[j.name] EXCEPT !.status = j.status]
            IN  files' = With(j.name, m) /\ op' = Saving("change", j.name, m)
       ELSE UNCHANGED <<files, op>>
    /\ UNCHANGED <<process, yaml, disk>>

RemoveFile(n) ==
    /\ CanStart
    /\ n \in DOMAIN files
    /\ files' = Without(n)
    /\ op' = Doing("remove", "unlink", n, NoMeta, {})
    /\ UNCHANGED <<process, yaml, disk, jobs>>

-----------------------------------------------------------------------------
(* The steps on disk *)

\* open(path, "w") of __persist_filedata.
Open ==
    /\ op.at = "open"
    /\ yaml' = [yaml EXCEPT ![op.name] = Cut]
    /\ op' = [op EXCEPT !.at = "dump"]
    /\ UNCHANGED <<process, files, disk, jobs>>

\* yaml.dump, and what follows it.
Dump ==
    /\ op.at = "dump"
    /\ yaml' = [yaml EXCEPT ![op.name] = Saved(op.meta)]
    /\ IF op.kind \in {"init", "load"} THEN files' = With(op.name, op.meta)
                                       ELSE UNCHANGED files
    /\ op' = IF op.kind = "load" THEN [op EXCEPT !.at = "next"] ELSE Free
    /\ UNCHANGED <<process, disk, jobs>>

Unlink ==
    /\ op.at = "unlink"
    /\ yaml' = [yaml EXCEPT ![op.name] = NoYaml]
    /\ op' = Free
    /\ UNCHANGED <<process, files, disk, jobs>>

-----------------------------------------------------------------------------
(* load *)

\* The program is launched, or its daemon stopped and started again.
StartLoad ==
    /\ process = "down" \/ CanStart
    /\ process' = "loading"
    /\ files' = [n \in {} |-> NoMeta]
    /\ op' = Doing("load", "next", Absent, NoMeta, {n \in Names : yaml[n] # NoYaml})
    /\ UNCHANGED <<yaml, disk, jobs>>

\* A metadata file that is cut is no dictionary: the exception ends the program.
LoadFails(n) ==
    /\ op.at = "next" /\ n \in op.todo
    /\ yaml[n] = Cut
    /\ process' = "down"
    /\ files' = [k \in {} |-> NoMeta]
    /\ op' = Free
    /\ jobs' = {}
    /\ UNCHANGED <<yaml, disk>>

\* The metadata of a file that is gone goes too.
LoadForgets(n) ==
    /\ op.at = "next" /\ n \in op.todo
    /\ yaml[n] # Cut /\ disk[n] = Absent
    /\ yaml' = [yaml EXCEPT ![n] = NoYaml]
    /\ op' = [op EXCEPT !.todo = @ \ {n}]
    /\ UNCHANGED <<process, files, disk, jobs>>

StatusKept(m) == m    \* mutant: the file is not checked

\* A READY file that changed is INVALID, an INVALID one that is right again READY.
Checked(m) ==
    [m EXCEPT !.status = IF @ = "READY" /\ ~IsValid(m) THEN "INVALID"
                         ELSE IF @ = "INVALID" /\ IsValid(m) THEN "READY"
                         ELSE @]

LoadTrusts(n) ==    \* mutant: the digest is taken again from the file
    /\ op.at = "next" /\ n \in op.todo
    /\ yaml[n] # Cut /\ disk[n] # Absent
    /\ LET m == [wanted |-> disk[n], status |-> yaml[n].status, seen |-> disk[n]]
       IN  op' = Doing("load", "open", n, Checked(m), op.todo \ {n})
    /\ UNCHANGED <<process, files, yaml, disk, jobs>>

LoadReads(n) ==
    /\ op.at = "next" /\ n \in op.todo
    /\ yaml[n] # Cut /\ disk[n] # Absent
    /\ LET m == [wanted |-> yaml[n].wanted, status |-> yaml[n].status, seen |-> disk[n]]
       IN  op' = Doing("load", "open", n, Checked(m), op.todo \ {n})
    /\ UNCHANGED <<process, files, yaml, disk, jobs>>

LoadEnds ==
    /\ op.at = "next" /\ op.todo = {}
    /\ process' = "up"
    /\ op' = Free
    /\ UNCHANGED <<files, yaml, disk, jobs>>

-----------------------------------------------------------------------------
(* The rest of the program and of the machine *)

\* update_stat takes no lock.
UpdateStat(n) ==
    /\ process = "up" /\ n \in DOMAIN files
    /\ files' = [files EXCEPT ![n].seen = disk[n]]
    /\ UNCHANGED <<process, yaml, disk, op, jobs>>

\* A download that is whole, by its metadata, is to become READY.
AskReady(n) ==
    /\ process = "up" /\ n \in DOMAIN files
    /\ files[n].status = "DOWNLOADING" /\ IsValid(files[n])
    /\ jobs' = jobs \cup {[name |-> n, status |-> "READY"]}
    /\ UNCHANGED <<process, files, yaml, disk, op>>

\* The monitor, or an upload that found the file wrong.
AskInvalid(n) ==
    /\ process = "up" /\ n \in DOMAIN files
    /\ files[n].status = "READY"
    /\ jobs' = jobs \cup {[name |-> n, status |-> "INVALID"]}
    /\ UNCHANGED <<process, files, yaml, disk, op>>

\* A transfer, the user or another program writes or deletes the file.
FileChanges(n, c) ==
    /\ disk[n] # c
    /\ disk' = [disk EXCEPT ![n] = c]
    /\ UNCHANGED <<process, files, yaml, op, jobs>>

\* The program is killed, or the machine stops.
Crash ==
    /\ process # "down"
    /\ process' = "down"
    /\ files' = [n \in {} |-> NoMeta]
    /\ op' = Free
    /\ jobs' = {}
    /\ UNCHANGED <<yaml, disk>>

-----------------------------------------------------------------------------
(* Specification *)

Init ==
    /\ process = "down"
    /\ files = [n \in {} |-> NoMeta]
    /\ yaml = [n \in Names |-> NoYaml]
    /\ disk = [n \in Names |-> Absent]
    /\ op = Free
    /\ jobs = {}

Next ==
    \/ \E n \in Names :
          \/ \E c \in Contents : InitMeta(n, c)
          \/ \E c \in Contents \cup {Absent} : FileChanges(n, c)
          \/ AddFile(n) \/ RemoveFile(n)
          \/ LoadFails(n) \/ LoadForgets(n) \/ LoadReads(n)
          \/ UpdateStat(n) \/ AskReady(n) \/ AskInvalid(n)
    \/ \E j \in jobs : ChangeState(j)
    \/ Open \/ Dump \/ Unlink
    \/ StartLoad \/ LoadEnds
    \/ Crash

Spec == Init /\ [][Next]_vars

-----------------------------------------------------------------------------
(* Properties *)

\* The variables keep their shapes.
TypeOK ==
    /\ process \in {"down", "loading", "up"}
    /\ DOMAIN files \subseteq Names
    /\ files \in [DOMAIN files -> Meta]
    /\ yaml \in [Names -> SavedMeta \cup {Cut, NoYaml}]
    /\ disk \in [Names -> Contents \cup {Absent}]
    /\ op \in Operation
    /\ jobs \subseteq [name : Names, status : {"READY", "INVALID"}]

\* While the program is up, a crash at any moment endangers one name at most:
\* the metadata files of all the others say what the table says, no more and no
\* less, so that a removed file does not come back and a daemon started again
\* never fails on a file cut half way, whatever crashes, failed launches and lost
\* files came before.  And even the one being written is no record of another
\* content than the one listed.
SavedAsIs ==
    process = "up" =>
        /\ \A n \in Names :
              op = Free \/ n # op.name =>
                  yaml[n] = IF n \in DOMAIN files THEN Saved(files[n]) ELSE NoYaml
        /\ \A n \in DOMAIN files :
              yaml[n] \in {Cut, NoYaml} \/ yaml[n].wanted = files[n].wanted

\* A launch never offers a file whose bytes are not the ones its digest
\* promises, whatever happened to it while the program was down.
LoadedReadyIsValid ==
    [][process = "loading" /\ process' = "up" =>
          \A n \in DOMAIN files' :
              files'[n].status = "READY" => IsValid(files'[n])]_vars

\* The operations, their steps on disk and load keep a Ledger: at any moment
\* the table and the metadata files differ in one name at most, a launch shows
\* exactly what is kept, changes no content that was promised, and never comes
\* up beside a metadata file that was cut.
Promised(r) == r.wanted

L == INSTANCE Ledger WITH
        Records <- SavedMeta, Content <- Promised, Torn <- Cut, Blank <- NoYaml,
        open <- process = "up",
        page <- IF process = "up" THEN [n \in DOMAIN files |-> Saved(files[n])]
                                  ELSE [n \in {} |-> NoYaml],
        book <- yaml,
        pen <- IF op.at = "dump" THEN [on |-> op.name, record |-> Saved(op.meta)]
                                 ELSE [on |-> NoYaml, record |-> NoYaml]

KeepsALedger == L!Spec

=============================================================================
