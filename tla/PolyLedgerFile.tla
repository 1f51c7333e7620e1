---------------------------- MODULE PolyLedgerFile ----------------------------
(***************************************************************************)
(* The positions ledger as the file it is                                  *)
(* (src/src/polymarket/positions.py, PositionsLedger): every call reads    *)
(* the whole file, changes the list in memory, writes it to <path>.tmp and *)
(* renames that over <path>.  The worker process and the request threads   *)
(* of the dashboard process (src/src/dashboard/api.py, post_poly_close)    *)
(* call it without a lock, and share the one .tmp name.                    *)
(*                                                                         *)
(* Names and files are told apart: a writer that opened the .tmp goes on   *)
(* writing the same file after somebody else renamed it.                   *)
(***************************************************************************)
EXTENDS PolyStatus, Naturals, FiniteSets

CONSTANTS
    Ids,             \* record ids
    RequestThreads,  \* request threads of the dashboard that use the ledger
    Inodes,          \* files on the disk: enough for <path>, <tmp> and each writer
    NoInode,         \* a name that names no file
    FileFaults,      \* a subset of {"save", "read", "crash"}
    MaxFileFaults    \* bound: faults of one behaviour

Worker == "worker"

Procs == {Worker} \cup RequestThreads

ASSUME FileAssumption ==
    /\ Worker \notin RequestThreads
    /\ NoInode \notin Inodes
    /\ FileFaults \subseteq {"save", "read", "crash"}
    /\ MaxFileFaults \in Nat

VARIABLES
    path,            \* the inode <path> names, or NoInode
    tmp,             \* the inode <path>.tmp names, or NoInode
    disk,            \* inode -> its content
    pr,              \* process or thread -> the call it is in
    added,           \* history: ids whose add() has returned
    overlapped,      \* history: some call has begun during another
    file_faults      \* faults so far

vars_file == <<path, tmp, disk, pr, added, overlapped, file_faults>>

-----------------------------------------------------------------------------
(* Contents.                                                               *)

NoRecords == [id \in {} |-> "open"]

\* A list of records, each with its id and its status.
Tables == UNION {[S -> Statuses] : S \in SUBSET Ids}

\* A file holds a table, or bytes that json.load() rejects: empty, half written,
\* or two writers' bytes mixed.
Torn == [ok |-> FALSE, recs |-> NoRecords]

Content(recs) == [ok |-> TRUE, recs |-> recs]

\* _load_raw(): no file, and bytes that do not parse, both read as an empty list.
_load_raw == IF path = NoInode THEN NoRecords ELSE disk[path].recs

-----------------------------------------------------------------------------
(* Calls, on the list in memory.                                           *)

\* Mutant: the list is replaced, not appended to.
Added_Alone(raw, id, s) == [i \in {id} |-> s]

Added(raw, id, s) == [i \in DOMAIN raw \cup {id} |-> IF i = id THEN s ELSE raw[i]]

\* Mutant: the status is not validated.
CanMove_Any(raw, id, s) == id \in DOMAIN raw

\* transition(): found and valid, or nothing is saved.
CanMove(raw, id, s) == id \in DOMAIN raw /\ s \in VALID_TRANSITIONS[raw[id]]

Idle == [pc |-> "idle", raw |-> NoRecords, new |-> {}, file |-> NoInode]

\* The call has its list and goes on to _save_raw().
Saving(raw, new) == [pc |-> "open", raw |-> raw, new |-> new, file |-> NoInode]

FileFault(k) == k \in FileFaults /\ file_faults < MaxFileFaults

-----------------------------------------------------------------------------
InitFile ==
    /\ path = NoInode
    /\ tmp = NoInode
    /\ disk = [n \in Inodes |-> Torn]
    /\ pr = [p \in Procs |-> Idle]
    /\ added = {}
    /\ overlapped = FALSE
    /\ file_faults = 0

\* What _load_raw() gives a call; an OSError reads as an empty list, too.
Loads == {_load_raw} \cup (IF FileFault("read") THEN {NoRecords} ELSE {})

\* The fault a read that missed the content has cost.
Paid(raw) == file_faults' = IF raw = _load_raw THEN file_faults ELSE file_faults + 1

\* Whether p's call begins during a call of somebody else.
Overlaps(p) == overlapped' = (overlapped \/ \E q \in Procs \ {p} : pr[q].pc # "idle")

\* new_position() draws a uuid that no file and no call has seen.
Fresh(id) ==
    /\ id \notin added \cup DOMAIN _load_raw
    /\ \A p \in Procs : id \notin DOMAIN pr[p].raw

\* add(): a fresh id, "open" or "unhedged".  Only the worker adds.
CallAdd(id, s) ==
    /\ pr[Worker].pc = "idle"
    /\ Fresh(id)
    /\ \E raw \in Loads :
          /\ pr' = [pr EXCEPT ![Worker] = Saving(Added(raw, id, s), {id})]
          /\ Paid(raw)
    /\ Overlaps(Worker)
    /\ UNCHANGED <<path, tmp, disk, added>>

\* transition() that finds its record and a valid move; the dashboard only closes.
CallTransition(p, id, s) ==
    /\ pr[p].pc = "idle"
    /\ p # Worker => s \in {"closing", "closed"}
    /\ \E raw \in Loads :
          /\ CanMove(raw, id, s)
          /\ pr' = [pr EXCEPT ![p] = Saving([raw EXCEPT ![id] = s], {})]
          /\ Paid(raw)
    /\ Overlaps(p)
    /\ UNCHANGED <<path, tmp, disk, added>>

\* update_fields() of the monitor: the statuses stay, the list is written again.
CallUpdateFields(id) ==
    /\ pr[Worker].pc = "idle"
    /\ \E raw \in Loads :
          /\ id \in DOMAIN raw
          /\ pr' = [pr EXCEPT ![Worker] = Saving(raw, {})]
          /\ Paid(raw)
    /\ Overlaps(Worker)
    /\ UNCHANGED <<path, tmp, disk, added>>

\* A call that finds no record, or no valid move, warns and saves nothing.
CallRejected(p, id, s) ==
    /\ pr[p].pc = "idle"
    /\ \E raw \in Loads : ~CanMove(raw, id, s) /\ Paid(raw)
    /\ UNCHANGED <<path, tmp, disk, pr, added, overlapped>>

-----------------------------------------------------------------------------
(* _save_raw.                                                              *)

InUse == {path, tmp} \cup {pr[p].file : p \in Procs}

\* The bytes of a file are gone once nothing names it and nobody has it open.
Kept(d) == [n \in Inodes |-> IF n \in InUse' THEN d[n] ELSE Torn]

\* Mutant: <path> itself is opened.
SaveOpen_InPlace(p) ==
    /\ pr[p].pc = "open"
    /\ \E n \in Inodes :
          /\ IF path = NoInode THEN n \notin InUse ELSE n = path
          /\ path' = n
          /\ tmp' = n
          /\ disk' = [disk EXCEPT ![n] = Torn]
          /\ pr' = [pr EXCEPT ![p] = [@ EXCEPT !.pc = "dump", !.file = n]]
    /\ UNCHANGED <<added, overlapped, file_faults>>

\* open("w"): truncates the file <tmp> names, or makes a new one.
SaveOpen(p) ==
    /\ pr[p].pc = "open"
    /\ \E n \in Inodes :
          /\ IF tmp = NoInode THEN n \notin InUse ELSE n = tmp
          /\ tmp' = n
          /\ disk' = [disk EXCEPT ![n] = Torn]
          /\ pr' = [pr EXCEPT ![p] = [@ EXCEPT !.pc = "dump", !.file = n]]
    /\ UNCHANGED <<path, added, overlapped, file_faults>>

\* json.dump() and close().  Over the bytes of another writer a shorter list
\* leaves the other's tail behind.
SaveDump(p) ==
    /\ pr[p].pc = "dump"
    /\ pr' = [pr EXCEPT ![p] = [@ EXCEPT !.pc = "replace", !.file = NoInode]]
    /\ UNCHANGED <<path, tmp, added, overlapped, file_faults>>
    /\ LET n == pr[p].file IN
          \E c \in {Content(pr[p].raw)} \cup (IF disk[n].ok THEN {Torn} ELSE {}) :
             disk' = Kept([disk EXCEPT ![n] = c])

\* os.replace(tmp, path), and the call returns.
SaveReplace(p) ==
    /\ pr[p].pc = "replace"
    /\ tmp # NoInode
    /\ path' = tmp
    /\ tmp' = NoInode
    /\ added' = added \cup pr[p].new
    /\ pr' = [pr EXCEPT ![p] = Idle]
    /\ UNCHANGED <<overlapped, file_faults>>
    /\ disk' = Kept(disk)

\* Somebody else has renamed the file: FileNotFoundError, and the call raises.
SaveNotFound(p) ==
    /\ pr[p].pc = "replace"
    /\ tmp = NoInode
    /\ pr' = [pr EXCEPT ![p] = Idle]
    /\ UNCHANGED <<path, tmp, disk, added, overlapped, file_faults>>

\* open(), the writes or the rename raise OSError: what is on the disk stays.
SaveFails(p) ==
    /\ pr[p].pc # "idle"
    /\ FileFault("save")
    /\ file_faults' = file_faults + 1
    /\ pr' = [pr EXCEPT ![p] = Idle]
    /\ UNCHANGED <<path, tmp, added, overlapped>>
    /\ disk' = Kept(disk)

\* A process dies with the calls of all its threads.
Crash(S) ==
    /\ FileFault("crash")
    /\ \E p \in S : pr[p].pc # "idle"
    /\ file_faults' = file_faults + 1
    /\ pr' = [p \in Procs |-> IF p \in S THEN Idle ELSE pr[p]]
    /\ UNCHANGED <<path, tmp, added, overlapped>>
    /\ disk' = Kept(disk)

-----------------------------------------------------------------------------
Call ==
    \/ \E id \in Ids, s \in {"open", "unhedged"} : CallAdd(id, s)
    \/ \E p \in Procs, id \in Ids, s \in Statuses :
          CallTransition(p, id, s) \/ CallRejected(p, id, s)
    \/ \E id \in Ids : CallUpdateFields(id)

Save(p) == SaveOpen(p) \/ SaveDump(p) \/ SaveReplace(p) \/ SaveNotFound(p) \/ SaveFails(p)

NextFile ==
    \/ Call
    \/ \E p \in Procs : Save(p)
    \/ Crash({Worker})
    \/ Crash(RequestThreads)

SpecFile == InitFile /\ [][NextFile]_vars_file

-----------------------------------------------------------------------------
(* Properties.                                                             *)

\* <path> never holds anything but a whole list: "All writes use a write-then-rename
\* pattern to avoid partial writes" (positions.py).
NeverTorn == path # NoInode => disk[path].ok

\* A whole file holds every record whose add() returned, through the saves that fail
\* and the processes that die half way: "Append a new position record and persist".
AddsSurvive == (path # NoInode /\ disk[path].ok) => added \subseteq DOMAIN _load_raw

\* Two processes on one ledger do no harm as long as no call of one begins during a
\* call of the other, whatever saves fail and whichever process dies: what is lost or
\* torn is lost to an overlap ("Not safe for concurrent multi-process use").
SafeWithoutOverlap == ~overlapped => NeverTorn /\ AddsSurvive

\* The file, read at any time, is the table of PolyLedger until two calls overlap: every
\* rename that takes effect is one call's change of one record, done at once.
Table == INSTANCE PolyLedger WITH recs <- _load_raw

TableUntilOverlap == Table!Init /\ [][overlapped' \/ Table!Next]_(_load_raw)
=============================================================================
