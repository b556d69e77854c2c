---------------------------- MODULE FileTransfer ----------------------------
(***************************************************************************)
(* File transfer between a client and a host: libs/hbb_common/src/fs.rs    *)
(* (TransferJob and the helpers on lists of jobs), driven on the client by *)
(* src/client/io_loop.rs, on the host by src/server/connection.rs and by   *)
(* the connection manager process (CM), src/ui_cm_interface.rs.            *)
(*                                                                         *)
(* A job moves files 0 .. N-1.  Its read job sends, for every file, a      *)
(* digest; the other side answers it with a confirmation (skip, or an      *)
(* offset to start from), perhaps after asking the user; then the blocks   *)
(* follow and an empty block closes the file.  The write job collects a    *)
(* file in "<file>.download", next to "<file>.digest", and renames it over *)
(* the file when the next file, or Done, arrives.                          *)
(*                                                                         *)
(*   download: the host reads (in the connection, or in CM on Windows) and *)
(*             the client writes;                                          *)
(*   upload:   the client reads and CM writes.                             *)
(*                                                                         *)
(* The connection may break at any moment; what was in flight is lost, the *)
(* client saves its job's file number and may resume from it later.        *)
(***************************************************************************)
EXTENDS Naturals, Sequences, FiniteSetsExt, SequencesExt

CONSTANTS
    N,          \* number of files of a job
    Size,       \* blocks per file
    MaxJobs,    \* bound: jobs started
    MaxLinks,   \* bound: connections made
    MaxFaults,  \* bound: failed opens, reads, seeks, creations and listings
    None,       \* absent
    Skip        \* the answer "skip this file"

ASSUME FileTransferAssumption ==
    /\ N \in Nat \ {0} /\ Size \in Nat \ {0}
    /\ MaxJobs \in Nat /\ MaxLinks \in Nat /\ MaxFaults \in Nat

VARIABLES
    dir,      \* "download" or "upload"; never changes
    cm,       \* need_fs_cm_send_files(): CM reads for the host; never changes
    links,    \* connections made so far
    up,       \* is there a connection?
    faults,   \* failures so far
    src,      \* version of the files on the reading side
    disk,     \* disk[f]: the file, its .download and its .digest on the writing side
    rjobs,    \* read jobs by id (a list is in the order of the ids)
    wjobs,    \* write jobs by id
    cmIds,    \* Connection.cm_read_job_ids
    c2h, h2c, \* messages from client to host and back
    m2h,      \* messages of CM's read jobs on their way to the connection
    cur,      \* id of the last job the user started
    strat,    \* the client job's default_overwrite_strategy
    resume,   \* the client job's is_resume
    ask,      \* file whose override dialog is open, or None
    saved,    \* file_num in the saved meta of the interrupted job, or None
    decided,  \* history: what was answered for each file of each job
    stale,    \* history: files with a .download when cur's write job was made, not resumed
    badDisk,  \* history: files that were hit by a failed creation or seek
    ended     \* history: what the user was told about job cur

config   == <<dir, cm>>
network  == <<c2h, h2c, m2h>>
client   == <<strat, resume, ask, saved>>
history  == <<decided, stale, badDisk, ended>>
vars == <<config, links, up, faults, src, disk, rjobs, wjobs, cmIds, network,
          cur, client, history>>

File == 0 .. N - 1
Id   == 1 .. MaxJobs

\* A file's content is the sequence of its blocks; a block knows the version
\* of the source it was read from and its place in it.
Version == 0 .. MaxLinks
Version0 == [i \in 1 .. Size |-> <<0, i>>]
Whole(c) == \E v \in Version : c = [i \in 1 .. Size |-> <<v, i>>]

\* File::write_all at position p of a file with content c
WriteAt(c, p, b) == [i \in 1 .. (IF p < Len(c) THEN Len(c) ELSE p + 1) |->
                        IF i = p + 1 THEN b ELSE c[i]]

-----------------------------------------------------------------------------
(***************************************************************************)
(* The read job (TransferJob with an open data_stream at block pos).       *)
(***************************************************************************)
NewRead(fn) == [fn |-> fn, pos |-> None, conf |-> FALSE, wait |-> FALSE, skip |-> FALSE]

NextFile(j) == [j EXCEPT !.fn = j.fn + 1, !.pos = None, !.conf = FALSE, !.wait = FALSE]

\* open_data_stream: opens the file at fn; broken: File::open fails
Open(j, broken) ==
    CASE j.fn >= N             -> [j EXCEPT !.pos = None]
      [] j.pos # None          -> j
      [] j.pos = None /\ broken -> NextFile(j)
      [] OTHER                 -> [j EXCEPT !.pos = 0, !.conf = FALSE, !.wait = FALSE]

OpenFails(j, broken) == j.fn < N /\ j.pos = None /\ broken

(* mutant: the job does not remember that it waits *)
AnnouncesAgain(j) == j.fn < N /\ ~j.conf

\* init_data_stream sends a digest once per file, and then waits
Announces(j) == j.fn < N /\ ~j.conf /\ ~j.wait

InitStream(id, j, broken) ==
    LET o == Open(j, broken) IN
    CASE OpenFails(j, broken) -> [job |-> o, out |-> <<[t |-> "error", id |-> id, f |-> o.fn]>>]
      [] ~OpenFails(j, broken) /\ Announces(o) ->
             [job |-> [o EXCEPT !.wait = TRUE],
              out |-> <<[t |-> "digest", id |-> id, f |-> o.fn, ver |-> src,
                         res |-> resume, part |-> 0]>>]
      [] OTHER -> [job |-> o, out |-> << >>]

\* read: nothing before the confirmation; the empty block at the end of a file
\* moves the job to the next one.  broken: the read fails
Reads(j) == j.conf /\ j.fn < N

ReadBlock(id, j, broken) ==
    CASE broken       -> [job |-> NextFile(j), out |-> <<[t |-> "error", id |-> id, f |-> j.fn + 1]>>]
      [] ~broken /\ j.pos = Size ->
             [job |-> NextFile(j), out |-> <<[t |-> "block", id |-> id, f |-> j.fn, data |-> None]>>]
      [] OTHER ->
             [job |-> [j EXCEPT !.pos = j.pos + 1],
              out |-> <<[t |-> "block", id |-> id, f |-> j.fn, data |-> <<src, j.pos + 1>>]>>]

(* mutant: a job that waits for an answer counts as completed *)
CompletedWaiting(j) == ~j.conf

JobCompleted(j) == ~j.conf /\ ~j.wait
JobSkipped(j)   == j.skip /\ N = 1

Finish(id, j) == IF JobSkipped(j) THEN [t |-> "error", id |-> id, f |-> j.fn]
                                  ELSE [t |-> "done", id |-> id, f |-> j.fn]

\* What a tick does with the job at the head of the list once its stream is
\* initialised: a block, the end of the job (job |-> None), or nothing.
ReadStep(id, j, broken) ==
    CASE Reads(j) -> ReadBlock(id, j, broken)
      [] ~Reads(j) /\ JobCompleted(j) -> [job |-> None, out |-> <<Finish(id, j)>>]
      [] OTHER -> [job |-> j, out |-> << >>]

\* TransferJob::confirm with set_file_skipped and set_stream_offset: an
\* answer is Skip or the block to start from; broken: the file cannot be
\* opened or sought, and the stream stays as it was
Skipped(j) == [NextFile(j) EXCEPT !.skip = TRUE]

(* mutant: the read job is confirmed but does not seek to the offset *)
NoSeek(j, f, ans, broken) ==
    CASE j.fn # f -> j
      [] j.fn = f /\ ans = Skip -> Skipped(j)
      [] OTHER -> [j EXCEPT !.conf = TRUE, !.skip = FALSE]

ConfirmRead(j, f, ans, broken) ==
    CASE j.fn # f -> j
      [] j.fn = f /\ ans = Skip -> Skipped(j)
      [] OTHER -> [j EXCEPT !.conf = TRUE, !.skip = FALSE,
                            !.pos = IF ans = 0 \/ broken THEN j.pos ELSE ans]

\* handle_read_jobs: initialises every job, then serves only the first one.
\* bad: the jobs whose next file does not open; br: the read fails
Live == {id \in Id : rjobs[id] # None}

HandleReadJobs(bad, br) ==
    LET ini   == [id \in Live |-> InitStream(id, rjobs[id], id \in bad)]
        first == Min(Live)
        step  == ReadStep(first, ini[first].job, br)
    IN [jobs |-> [id \in Id |-> CASE id = first -> step.job
                                  [] id \in Live \ {first} -> ini[id].job
                                  [] OTHER -> None],
        out  |-> FlattenSeq([id \in Id |-> IF id \in Live THEN ini[id].out ELSE << >>])
                    \o step.out]

\* handle_read_jobs_tick, CM's version: a job whose file does not open, or
\* whose read fails, is dropped with an error; the first other one is served
HandleReadJobsCm(bad, br) ==
    LET ini(id) == InitStream(id, rjobs[id], id \in bad)
        fails   == {id \in Live : OpenFails(rjobs[id], id \in bad)}
        first   == IF Live = fails THEN MaxJobs + 1 ELSE Min(Live \ fails)
        step    == ReadStep(first, ini(first).job, br)
        dropped == {id \in fails : id < first}
        gone(id) == id \in dropped \/ (id = first /\ br)
    IN [jobs |-> [id \in Id |-> CASE gone(id) -> None
                                  [] id = first /\ ~br -> step.job
                                  [] OTHER -> rjobs[id]],
        out  |-> FlattenSeq([id \in Id |-> CASE id \in dropped -> ini(id).out
                                            [] id = first -> ini(id).out \o step.out
                                            [] OTHER -> << >>])]

-----------------------------------------------------------------------------
(***************************************************************************)
(* The write job.  str is its data_stream: the file it was created for,    *)
(* the position, and whether that file has been renamed since.             *)
(***************************************************************************)
NewWrite(fn, listed) ==
    [fn |-> fn, str |-> None, digest |-> None, files |-> listed, skip |-> FALSE]

\* modify_time: drops the .digest and renames the .download over the file
Publish(d, f) ==
    IF f >= N THEN d
    ELSE [d EXCEPT ![f] = [file |-> IF d[f].part = None THEN d[f].file ELSE d[f].part,
                           part |-> None, digest |-> None]]

\* remove_download_file
RemoveDownload(d, j) ==
    IF j.files /\ j.fn < N THEN [d EXCEPT ![j.fn].part = None, ![j.fn].digest = None] ELSE d

\* is_write_need_confirmation: what is already at the destination of f?
OnDisk(d, f, ver, resuming) ==
    CASE resuming /\ d[f].digest # None /\ d[f].part # None
             /\ d[f].digest = ver /\ d[f].part # << >> -> "partial"
      [] OTHER -> IF d[f].file # None THEN "exists" ELSE "nothing"

\* write, the part that makes file f the current one: the file before it is
\* published; broken: the new .download cannot be created, and the old stream
\* stays
Turns(j, f) == f # j.fn \/ j.str = None

TurnTo(j, d, f, broken) ==
    LET moves == j.str # None /\ j.str.f = j.fn /\ d[j.fn].part # None
        old   == IF moves THEN [j.str EXCEPT !.renamed = TRUE] ELSE j.str
        e     == [Publish(d, j.fn) EXCEPT ![f].digest = None]
    IN IF broken
       THEN [job |-> [j EXCEPT !.fn = f, !.str = old], disk |-> e]
       ELSE [job  |-> [j EXCEPT !.fn = f, !.str = [f |-> f, pos |-> 0, renamed |-> FALSE]],
             disk |-> [e EXCEPT ![f].part = << >>, ![f].digest = j.digest]]

\* write, the rest: the block goes to wherever the stream is
Append1(j, d, b) ==
    IF b = None THEN [job |-> j, disk |-> d]
    ELSE [job  |-> [j EXCEPT !.str.pos = j.str.pos + 1],
          disk |-> IF j.str.renamed
                   THEN [d EXCEPT ![j.str.f].file = WriteAt(@, j.str.pos, b)]
                   ELSE [d EXCEPT ![j.str.f].part = WriteAt(@, j.str.pos, b)]]

Write(j, d, m, broken) ==
    CASE ~j.files -> [job |-> j, disk |-> d]
      [] j.files /\ ~Turns(j, m.f) -> Append1(j, d, m.data)
      [] j.files /\ Turns(j, m.f) /\ broken -> TurnTo(j, d, m.f, TRUE)
      [] OTHER -> LET t == TurnTo(j, d, m.f, FALSE) IN Append1(t.job, t.disk, m.data)

(* mutant: a skipped file stays the current one *)
SkipStays(j, d, f, ans, broken) ==
    IF j.fn # f \/ ans \in {Skip, 0} \/ broken THEN j
    ELSE [j EXCEPT !.str = [f |-> f, pos |-> ans, renamed |-> FALSE]]

\* confirm on a write job: an offset opens the .download there, if it and its
\* .digest are (still) there; broken as in ConfirmRead, and the first block
\* then renames what is there and begins anew
ConfirmWrite(j, d, f, ans, broken) ==
    CASE j.fn # f -> j
      [] j.fn = f /\ ans = Skip -> [j EXCEPT !.fn = f + 1, !.str = None, !.skip = TRUE]
      [] OTHER ->
           [j EXCEPT !.skip = FALSE,
                     !.str = IF ans = 0 \/ broken \/ d[f].part = None \/ d[f].digest = None
                             THEN j.str
                             ELSE [f |-> f, pos |-> ans, renamed |-> FALSE]]

-----------------------------------------------------------------------------
(***************************************************************************)
(* The client: the user's commands (handle_msg_from_ui).                   *)
(***************************************************************************)
Download == dir = "download"

ClientJob == CASE cur = 0 -> None
               [] cur > 0 /\ Download -> wjobs[cur]
               [] OTHER -> rjobs[cur]
Running == ClientJob # None

\* the files with a .download
LeftOver == {f \in File : disk[f].part # None}

\* Data::SendFiles, or Data::AddJob followed by Data::ResumeJob.  A bound of the
\* model: the client has one job at a time, although the code takes more
Begin(fn, resuming) ==
    /\ up /\ ~Running /\ cur < MaxJobs
    /\ cur' = cur + 1
    /\ IF Download
       THEN /\ wjobs' = [wjobs EXCEPT ![cur'] = NewWrite(fn, FALSE)]
            /\ c2h' = Append(c2h, [t |-> "send", id |-> cur', f |-> fn])
            /\ UNCHANGED rjobs
       ELSE /\ rjobs' = [rjobs EXCEPT ![cur'] = NewRead(fn)]
            /\ c2h' = Append(c2h, [t |-> "receive", id |-> cur', f |-> fn])
            /\ UNCHANGED wjobs
    /\ strat' = None /\ resume' = resuming /\ ask' = None
    /\ stale' = LeftOver
    /\ ended' = "none"
    /\ UNCHANGED <<config, links, up, faults, src, disk, cmIds, h2c, m2h, decided, badDisk>>

\* (a user who starts afresh gives up the saved job)
SendFiles == Begin(0, FALSE) /\ saved' = None
ResumeJob == saved # None /\ Begin(saved, TRUE) /\ saved' = None

\* The answer ans for file f of the client's job is on record
Decide(f, ans) ==
    /\ decided' = [decided EXCEPT ![cur][f] = IF ans = Skip THEN "skip" ELSE "write"]
    /\ stale' = IF ans \in {Skip, 0} THEN stale ELSE stale \ {f}

\* The client's job becomes j; it takes an answer
SetOwn(j) ==
    IF Download THEN wjobs' = [wjobs EXCEPT ![cur] = j] /\ UNCHANGED rjobs
                ELSE rjobs' = [rjobs EXCEPT ![cur] = j] /\ UNCHANGED wjobs

\* May job j fail to seek to the offset it was answered?
Seeks(j, f, ans) ==
    IF j.fn = f /\ ans \notin {Skip, 0} /\ faults < MaxFaults THEN BOOLEAN ELSE {FALSE}

\* A disk operation that hits the files fs fails, or not
Fails(broken, fs) ==
    /\ faults' = IF broken THEN faults + 1 ELSE faults
    /\ badDisk' = IF broken THEN badDisk \cup fs ELSE badDisk

ConfirmOwn(j, f, ans) ==
    /\ Decide(f, ans)
    /\ \E broken \in Seeks(j, f, ans) :
         /\ Fails(broken, {f})
         /\ SetOwn(IF Download THEN ConfirmWrite(j, disk, f, ans, broken)
                               ELSE ConfirmRead(j, f, ans, broken))

ConfirmMsg(f, ans) == [t |-> "confirm", id |-> cur, f |-> f, ans |-> ans]

\* Data::SetConfirmOverrideFile: the host hears of it only when it reads
SetConfirmOverrideFile(override, remember) ==
    /\ up /\ ask # None /\ Running
    /\ LET ans == IF override THEN 0 ELSE Skip IN
       /\ ConfirmOwn(ClientJob, ask, ans)
       /\ c2h' = IF Download THEN Append(c2h, ConfirmMsg(ask, ans)) ELSE c2h
    /\ strat' = IF remember THEN override ELSE strat
    /\ ask' = None
    /\ UNCHANGED <<config, links, up, src, disk, cmIds, h2c, m2h, cur, resume, saved, ended>>

\* Data::CancelJob
CancelJob ==
    /\ up /\ Running
    /\ c2h' = Append(c2h, [t |-> "cancel", id |-> cur])
    /\ disk' = IF Download THEN RemoveDownload(disk, wjobs[cur]) ELSE disk
    /\ SetOwn(None)
    /\ ask' = None /\ ended' = "cancel"
    /\ UNCHANGED <<config, links, up, faults, src, cmIds, h2c, m2h, cur, strat,
                   resume, saved, decided, stale, badDisk>>

-----------------------------------------------------------------------------
(***************************************************************************)
(* The timers that serve the read jobs.                                    *)
(***************************************************************************)
\* the failures a tick may meet: at most one, while the bound allows it
Trouble == {<<{}, FALSE>>} \cup
           IF faults = MaxFaults THEN {}
           ELSE {<<{id}, FALSE>> : id \in {i \in Live : OpenFails(rjobs[i], TRUE)}}
                \cup IF Live # {} /\ Reads(rjobs[Min(Live)]) THEN {<<{}, TRUE>>} ELSE {}

Counted(x) == faults' = IF x = <<{}, FALSE>> THEN faults ELSE faults + 1

\* client timer (upload) or Connection.file_timer (download without CM)
ReadTick ==
    /\ up /\ Live # {} /\ ~(Download /\ cm)
    /\ \E x \in Trouble :
         LET r == HandleReadJobs(x[1], x[2]) IN
         /\ Counted(x)
         /\ rjobs' = r.jobs
         /\ IF Download THEN h2c' = h2c \o r.out /\ UNCHANGED c2h
                        ELSE c2h' = c2h \o r.out /\ UNCHANGED h2c
    /\ UNCHANGED <<config, links, up, src, disk, wjobs, cmIds, m2h, cur, client, history>>

\* CM's file_timer
CmTick ==
    /\ up /\ Live # {} /\ Download /\ cm
    /\ \E x \in Trouble :
         LET r == HandleReadJobsCm(x[1], x[2]) IN
         /\ Counted(x) /\ rjobs' = r.jobs /\ m2h' = m2h \o r.out
    /\ UNCHANGED <<config, links, up, src, disk, wjobs, cmIds, c2h, h2c, cur, client, history>>

-----------------------------------------------------------------------------
(***************************************************************************)
(* The host: the connection's handlers, with what CM does for them.        *)
(***************************************************************************)
HostGets(t) == up /\ c2h # << >> /\ Head(c2h).t = t /\ c2h' = Tail(c2h)
hostKeeps   == <<config, links, up, src, cur, client, history>>

\* file_action Send: create_and_start_read_job, or CM's start_read_job; a
\* listing that fails is reported
HostSend ==
    /\ HostGets("send")
    /\ \E ok \in IF faults = MaxFaults THEN {TRUE} ELSE BOOLEAN :
         LET m   == Head(c2h)
             out == [t |-> IF ok THEN "dir" ELSE "error", id |-> m.id, f |-> 0]
         IN /\ faults' = IF ok THEN faults ELSE faults + 1
            /\ rjobs' = IF ok THEN [rjobs EXCEPT ![m.id] = NewRead(m.f)] ELSE rjobs
            /\ IF cm THEN m2h' = Append(m2h, out) /\ cmIds' = cmIds \cup {m.id} /\ UNCHANGED h2c
                     ELSE h2c' = Append(h2c, out) /\ UNCHANGED <<m2h, cmIds>>
    /\ UNCHANGED <<hostKeeps, disk, wjobs>>

\* file_action Receive: CM's NewWrite
HostReceive ==
    /\ HostGets("receive")
    /\ wjobs' = [wjobs EXCEPT ![Head(c2h).id] = NewWrite(Head(c2h).f, TRUE)]
    /\ stale' = LeftOver
    /\ UNCHANGED <<config, links, up, src, cur, client, decided, badDisk, ended, faults, disk, rjobs, cmIds, h2c, m2h>>

\* file_action Cancel: CM's CancelWrite and CancelRead, and the own read job
HostCancel ==
    /\ HostGets("cancel")
    /\ LET id == Head(c2h).id IN
       IF Download
       THEN /\ rjobs' = [rjobs EXCEPT ![id] = None]
            /\ cmIds' = cmIds \ {id}
            /\ UNCHANGED <<disk, wjobs>>
       ELSE /\ disk' = IF wjobs[id] = None THEN disk ELSE RemoveDownload(disk, wjobs[id])
            /\ wjobs' = [wjobs EXCEPT ![id] = None]
            /\ UNCHANGED <<rjobs, cmIds>>
    /\ UNCHANGED <<hostKeeps, faults, h2c, m2h>>

\* file_action SendConfirm, routed to the own read job, to CM's read job (whose
\* SendConfirmForRead puts the job's own file number), or to CM's write job
HostConfirm ==
    /\ HostGets("confirm")
    /\ LET m == Head(c2h)
           f == IF cm /\ rjobs[m.id] # None THEN rjobs[m.id].fn ELSE m.f
       IN \/ /\ Download /\ rjobs[m.id] # None /\ (cm => m.id \in cmIds)
             /\ \E broken \in Seeks(rjobs[m.id], f, m.ans) :
                  /\ Fails(broken, {f})
                  /\ rjobs' = [rjobs EXCEPT ![m.id] = ConfirmRead(@, f, m.ans, broken)]
             /\ UNCHANGED wjobs
          \/ /\ ~Download /\ wjobs[m.id] # None
             /\ \E broken \in Seeks(wjobs[m.id], m.f, m.ans) :
                  /\ Fails(broken, {m.f})
                  /\ wjobs' = [wjobs EXCEPT ![m.id] = ConfirmWrite(@, disk, m.f, m.ans, broken)]
             /\ UNCHANGED rjobs
          \/ /\ IF Download THEN rjobs[m.id] = None \/ (cm /\ m.id \notin cmIds)
                            ELSE wjobs[m.id] = None
             /\ UNCHANGED <<rjobs, wjobs, faults, badDisk>>
    /\ UNCHANGED <<config, links, up, src, cur, client, decided, stale, ended, disk, cmIds,
                   h2c, m2h>>

\* file_response Digest: CM's CheckDigest; a file that does not exist is
\* confirmed at once, one that exists is sent back for the client to decide
HostDigest ==
    /\ HostGets("digest")
    /\ LET m == Head(c2h)
           found == OnDisk(disk, m.f, m.ver, m.res)
           reply == IF found = "nothing"
                    THEN [t |-> "confirm", id |-> m.id, f |-> m.f, ans |-> 0]
                    ELSE [m EXCEPT !.part = IF found = "partial" THEN Len(disk[m.f].part) ELSE 0]
       IN IF wjobs[m.id] = None THEN UNCHANGED <<wjobs, h2c>>
          ELSE /\ wjobs' = [wjobs EXCEPT ![m.id].digest = m.ver]
               /\ h2c' = Append(h2c, reply)
    /\ UNCHANGED <<hostKeeps, faults, disk, rjobs, cmIds, m2h>>

\* May the write of m by job j fail to create a file?
Creates(j, m) == IF j.files /\ Turns(j, m.f) /\ faults < MaxFaults THEN BOOLEAN ELSE {FALSE}

\* The files that such a failure hits: the one that is not created, and the one
\* whose stream is left in its place
Hit(j, f) == {f} \cup IF j.str = None THEN {} ELSE {j.str.f}

\* file_response Block: CM's WriteBlock
HostBlock ==
    /\ HostGets("block")
    /\ LET m == Head(c2h) IN
       IF wjobs[m.id] = None THEN UNCHANGED <<wjobs, disk, faults, h2c, badDisk>>
       ELSE \E broken \in Creates(wjobs[m.id], m) :
              LET w == Write(wjobs[m.id], disk, m, broken) IN
              /\ wjobs' = [wjobs EXCEPT ![m.id] = w.job]
              /\ disk' = w.disk
              /\ Fails(broken, Hit(wjobs[m.id], m.f))
              /\ h2c' = IF broken THEN Append(h2c, [t |-> "error", id |-> m.id, f |-> m.f]) ELSE h2c
    /\ UNCHANGED <<config, links, up, src, cur, client, decided, stale, ended, rjobs, cmIds, m2h>>

\* file_response Done and Error: CM's WriteDone and WriteError
HostDone ==
    /\ HostGets("done")
    /\ LET m == Head(c2h) IN
       IF wjobs[m.id] = None THEN UNCHANGED <<wjobs, disk, h2c>>
       ELSE /\ disk' = Publish(disk, wjobs[m.id].fn)
            /\ wjobs' = [wjobs EXCEPT ![m.id] = None]
            /\ h2c' = Append(h2c, m)
    /\ UNCHANGED <<hostKeeps, faults, rjobs, cmIds, m2h>>

HostError ==
    /\ HostGets("error")
    /\ LET m == Head(c2h) IN
       IF wjobs[m.id] = None THEN UNCHANGED <<wjobs, h2c>>
       ELSE /\ wjobs' = [wjobs EXCEPT ![m.id] = None]
            /\ h2c' = Append(h2c, m)
    /\ UNCHANGED <<hostKeeps, faults, disk, rjobs, cmIds, m2h>>

\* The connection passes on what CM's read jobs send (handle_read_job_init_result,
\* handle_file_block_from_cm, handle_file_read_done, handle_file_read_error,
\* handle_file_digest_from_cm): nothing of a job it no longer knows, and it
\* forgets a job that is done or has failed
Final(m) == m.t \in {"done", "error"}

CmForward ==
    /\ up /\ m2h # << >>
    /\ LET m == Head(m2h) IN
       /\ m2h' = Tail(m2h)
       /\ h2c' = IF m.id \in cmIds THEN Append(h2c, m) ELSE h2c
       /\ cmIds' = IF Final(m) THEN cmIds \ {m.id} ELSE cmIds
    /\ UNCHANGED <<hostKeeps, faults, disk, rjobs, wjobs, c2h>>

-----------------------------------------------------------------------------
(***************************************************************************)
(* The client: what the host sends (handle_msg_from_peer).                 *)
(***************************************************************************)
ClientGets(t) == up /\ h2c # << >> /\ Head(h2c).t = t /\ h2c' = Tail(h2c)
clientKeeps   == <<config, links, up, src, cmIds, m2h, cur, resume, saved>>

\* a message for the client's job
Mine(m) == Running /\ m.id = cur

\* file_response Dir: set_files
ClientDir ==
    /\ ClientGets("dir")
    /\ wjobs' = IF Mine(Head(h2c)) THEN [wjobs EXCEPT ![cur].files = TRUE] ELSE wjobs
    /\ UNCHANGED <<clientKeeps, faults, disk, rjobs, c2h, strat, ask, history>>

(* mutant: the host is not told *)
SettleAlone(j, f, ans) == ConfirmOwn(j, f, ans) /\ UNCHANGED <<c2h, ask>>

\* The client settles the answer itself and tells the host
Settle(j, f, ans) ==
    /\ ConfirmOwn(j, f, ans)
    /\ c2h' = Append(c2h, ConfirmMsg(f, ans))
    /\ UNCHANGED ask

\* NeedConfirm: a partial file is continued at offset, else the remembered
\* answer holds, else the user is asked
NeedConfirm(j, f, offset) ==
    CASE offset > 0 -> Settle(j, f, offset)
      [] offset = 0 /\ strat # None -> Settle(j, f, IF strat THEN 0 ELSE Skip)
      [] OTHER -> ask' = f /\ SetOwn(j) /\ UNCHANGED <<c2h, decided, stale, faults, badDisk>>

\* file_response Digest of the host's read job: the client looks at its disk
CheckOwnDisk(m) ==
    LET j     == [wjobs[cur] EXCEPT !.digest = m.ver]
        found == OnDisk(disk, m.f, m.ver, resume)
    IN IF found = "nothing" THEN Settle(j, m.f, 0)
       ELSE NeedConfirm(j, m.f, IF found = "partial" THEN Len(disk[m.f].part) ELSE 0)

\* file_response Digest; in an upload it is the client's own, back from the host
ClientDigest ==
    /\ ClientGets("digest")
    /\ LET m == Head(h2c) IN
       CASE ~Mine(m) -> UNCHANGED <<wjobs, rjobs, c2h, ask, decided, stale, faults, badDisk>>
         [] Mine(m) /\ Download -> CheckOwnDisk(m)
         [] OTHER -> NeedConfirm(rjobs[cur], m.f, IF resume THEN m.part ELSE 0)
    /\ UNCHANGED <<clientKeeps, disk, strat, ended>>

\* file_action SendConfirm from the host: the file does not exist there
ClientConfirm ==
    /\ ClientGets("confirm")
    /\ LET m == Head(h2c) IN
       IF Mine(m) THEN ConfirmOwn(rjobs[cur], m.f, m.ans)
                  ELSE UNCHANGED <<wjobs, rjobs, decided, stale, faults, badDisk>>
    /\ UNCHANGED <<clientKeeps, disk, c2h, strat, ask, ended>>

\* file_response Block: a write that fails is not reported to anyone
ClientBlock ==
    /\ ClientGets("block")
    /\ LET m == Head(h2c) IN
       IF ~Mine(m) THEN UNCHANGED <<wjobs, disk, faults, badDisk>>
       ELSE \E broken \in Creates(wjobs[cur], m) :
              LET w == Write(wjobs[cur], disk, m, broken) IN
              /\ wjobs' = [wjobs EXCEPT ![cur] = w.job]
              /\ disk' = w.disk
              /\ Fails(broken, Hit(wjobs[cur], m.f))
    /\ UNCHANGED <<clientKeeps, rjobs, c2h, strat, ask, decided, stale, ended>>

\* What the user is told about the current job; the first word counts
Tell(m, word) == ended' = IF m.id = cur /\ ended = "none" THEN word ELSE ended

\* file_response Done: publishes the last file of the client's write job; in
\* an upload it only reports that CM has done so
ClientDone ==
    /\ ClientGets("done")
    /\ LET m == Head(h2c) IN
       IF Mine(m) /\ Download
       THEN /\ disk' = IF wjobs[cur].files THEN Publish(disk, wjobs[cur].fn) ELSE disk
            /\ SetOwn(None)
            /\ Tell(m, IF JobSkipped(wjobs[cur]) THEN "error" ELSE "done")
       ELSE Tell(m, "done") /\ UNCHANGED <<disk, wjobs, rjobs>>
    /\ UNCHANGED <<clientKeeps, faults, c2h, strat, ask, decided, stale, badDisk>>

\* file_response Error: drops the job, and leaves its .download
ClientError ==
    /\ ClientGets("error")
    /\ LET m == Head(h2c) IN
       /\ Tell(m, "error")
       /\ IF Mine(m) THEN SetOwn(None) /\ ask' = None
                     ELSE UNCHANGED <<wjobs, rjobs, ask>>
    /\ UNCHANGED <<clientKeeps, faults, disk, c2h, strat, decided, stale, badDisk>>

-----------------------------------------------------------------------------
(***************************************************************************)
(* The connection breaks: both sides drop their jobs, the client saves the *)
(* file number of its own (sync_jobs_status_to_local), and what was on the *)
(* way is lost.  Meanwhile the source files may change.                    *)
(***************************************************************************)
NoJobs == [id \in Id |-> None]

Disconnect ==
    /\ up
    /\ up' = FALSE
    /\ saved' = IF Running THEN ClientJob.fn ELSE None
    /\ rjobs' = NoJobs /\ wjobs' = NoJobs /\ cmIds' = {}
    /\ c2h' = << >> /\ h2c' = << >> /\ m2h' = << >>
    /\ ask' = None
    /\ UNCHANGED <<config, links, faults, src, disk, cur, strat, resume, history>>

Reconnect ==
    /\ ~up /\ links < MaxLinks
    /\ up' = TRUE /\ links' = links + 1
    /\ src' \in {src, src + 1}
    /\ UNCHANGED <<config, faults, disk, rjobs, wjobs, cmIds, network, cur, client, history>>

-----------------------------------------------------------------------------
Init ==
    /\ dir \in {"download", "upload"} /\ cm \in BOOLEAN /\ (cm => Download)
    /\ links = 1 /\ up = TRUE /\ faults = 0 /\ src = 1
    /\ disk \in [File -> {[file |-> c, part |-> None, digest |-> None] : c \in {None, Version0}}]
    /\ rjobs = NoJobs /\ wjobs = NoJobs /\ cmIds = {}
    /\ c2h = << >> /\ h2c = << >> /\ m2h = << >>
    /\ cur = 0 /\ strat = None /\ resume = FALSE /\ ask = None /\ saved = None
    /\ decided = [id \in Id |-> [f \in File |-> "none"]] /\ stale = {} /\ badDisk = {} /\ ended = "none"

User   == SendFiles \/ ResumeJob \/ CancelJob
Answer == \E override, remember \in BOOLEAN : SetConfirmOverrideFile(override, remember)
Host   == \/ HostSend \/ HostReceive \/ HostCancel \/ HostConfirm
          \/ HostDigest \/ HostBlock \/ HostDone \/ HostError
Client == \/ ClientDir \/ ClientDigest \/ ClientConfirm \/ ClientBlock
          \/ ClientDone \/ ClientError

\* What the loops of both ends, and a user who answers the dialogs, do by themselves
Work == Answer \/ ReadTick \/ CmTick \/ Host \/ CmForward \/ Client

Next == User \/ Work \/ Disconnect \/ Reconnect

Spec == Init /\ [][Next]_vars

-----------------------------------------------------------------------------
(***************************************************************************)
(* Properties                                                              *)
(***************************************************************************)

\* A file that exists at the destination is replaced only after the user, the
\* answer the user asked to remember, or an identical partial download said so
\* (the confirmation answers for this file, not for the one before or after).
\* In an upload CM's write job does not hear of a skip; there the property is
\* about files without a left-over .download.
OverwriteAsked ==
    [][\A f \in File :
         disk'[f].file # disk[f].file /\ disk[f].file # None /\ (Download \/ f \notin stale)
           => \E id \in Id : wjobs[id] # None /\ decided[id][f] = "write"]_vars

\* What modify_time renames into place is whole, whatever was lost, cancelled,
\* resumed or failed to be read before: one version of the source, every block
\* in its place.  Not so for a .download left over from an earlier job that is
\* not resumed (the first write renames it as it is), nor for a file that could
\* not be created (the blocks go on into the file before it, which is no better
\* off), nor for one that either end could not open at the offset (both go on as
\* if it had been).
PublishesWhole ==
    [][\A f \in File \ (stale \cup badDisk') :
         disk'[f].file # disk[f].file => Whole(disk'[f].file)]_vars

\* A job that is reported as done has asked about every file, and has put the
\* source's content at the destination of every file that was to be written;
\* a resumed download relies on the interrupted one for the files before the
\* saved file number, and rightly.  (An upload saves the number of the file the
\* client reads, which may be ahead of what reached CM.)  The files that a failed
\* creation or seek hit are excepted.
Delivered(f) ==
    /\ decided[cur][f] = "write" => disk'[f].file = [i \in 1 .. Size |-> <<src, i>>]
    /\ decided[cur][f] = "none" => resume
    /\ Download /\ decided[cur][f] = "none" /\ decided[cur - 1][f] = "write"
          => Whole(disk'[f].file)

DoneMeansDelivered ==
    [][ended' = "done" /\ ended = "none" => \A f \in File \ badDisk : Delivered(f)]_vars

\* A confirmation on its way to a read job of the host is for the file this job
\* waits with: CM's SendConfirmForRead may put the job's own file number in place
\* of the one it was sent with.
AnswersFit ==
    Download => \A i \in 1 .. Len(c2h) :
        LET m == c2h[i] IN
        m.t = "confirm" /\ rjobs[m.id] # None
          => rjobs[m.id].fn = m.f /\ rjobs[m.id].wait /\ ~rjobs[m.id].conf

\* The two ends never wait for each other: when nothing is on the way and no
\* dialog is open, the first read job, the one that is served, has something to
\* do at its next tick (a file to announce, a block to read, the end to report), so
\* every digest is answered and every answer is heard.  Only a read job of the
\* host that lost its client to a failed read can stand in front of it.
NotStuck ==
    up /\ Running /\ network = <<<< >>, << >>, << >>>> /\ ask = None
       /\ (\A id \in Live : id >= cur)
    => Live # {} /\ LET j == rjobs[Min(Live)] IN j.conf \/ ~j.wait

=============================================================================
