------------------------------ MODULE ApiFiles ------------------------------
(***************************************************************************)
(* The two stores of whole files behind the HTTP API: objects, one file    *)
(* per <collection>/<id> (read_file_full, write_file and delete_file of    *)
(* src/api.c), and blobs, one file per SHA-256 digest (src/api_blob.c).    *)
(* Every worker thread runs a request one system call after another, so    *)
(* the calls of concurrent requests interleave, any call may fail, and the *)
(* process or the machine may stop between two of them.                    *)
(*                                                                         *)
(* A file is the inode its request created, so inodes are named by the     *)
(* requests.  The page cache holds the directories (dirent) and how much   *)
(* of every file was written; onDisk holds what a power cut may leave:     *)
(* every version of a directory since its last fsync, and any part of a    *)
(* file that was not fsynced.                                              *)
(*                                                                         *)
(* An operator whose name ends in _bug is a faulty variant of the next     *)
(* definition; no action uses it.                                          *)
(***************************************************************************)
EXTENDS Naturals, FiniteSets

CONSTANTS
    Objects,        \* ids of one collection
    Digests,        \* digests of one shard
    Loads,          \* sets of methods; the requests of a behaviour are of one of them
    MaxRequests,    \* bound: requests of a behaviour
    ApiThreads,     \* bound: worker threads, each runs one request at a time
    MaxIoErrors,    \* bound: system calls that fail
    MaxStops        \* bound: crashes and power cuts

\* What api_dispatch and api_blob_dispatch tell apart; NEW is a POST without an id.
Methods == {"GET", "PUT", "POST", "NEW", "DELETE", "BLOBGET", "BLOBPOST", "BLOBDELETE"}

ASSUME ApiFilesAssumption ==
    MaxRequests \in Nat \ {0} /\ ApiThreads \in Nat \ {0} /\ Loads \subseteq SUBSET Methods

VARIABLES
    req,       \* the requests, in order of arrival
    inode,     \* the file each request created: how much was written, and is it fsynced
    dirent,    \* the directories in the page cache
    onDisk,    \* what a power cut may leave of each directory
    load,      \* the methods this server is asked for
    ioErrors, stops

filesVars == <<req, inode, dirent, onDisk, load, ioErrors, stops>>

Requests == 1 .. MaxRequests
Obj(o) == <<"obj", o>>
Blob(d) == <<"blob", d>>
Tmp(d) == <<"tmp", d>>        \* ".<hex>.tmp<pid>": one name for all threads of a process
ObjSlots == {Obj(o) : o \in Objects}
BlobSlots == {Blob(d) : d \in Digests} \cup {Tmp(d) : d \in Digests}

\* A directory entry: the inode (0: no such name) and the number of changes
\* made to that name so far.
NoName == [ino |-> 0, at |-> 0]
NoFile == [len |-> 0, synced |-> FALSE]    \* len: 0 empty, 1 a part, 2 the whole body
NoRequest == [m |-> "none", slot |-> <<"none", 0>>, pc |-> "new", res |-> 0, at |-> 0, held |-> 0]

Creates == {"POST", "NEW"}             \* write_file with excl
Reads == {"GET", "BLOBGET"}
Busy == {i \in Requests : req[i].pc \notin {"new", "done", "lost"}}

FilesInit ==
    /\ req = [i \in Requests |-> NoRequest]
    /\ inode = [i \in Requests |-> NoFile]
    /\ dirent = [s \in ObjSlots \cup BlobSlots |-> NoName]
    /\ onDisk = [obj |-> {[s \in ObjSlots |-> NoName]}, blob |-> {[s \in BlobSlots |-> NoName]}]
    /\ load \in Loads
    /\ ioErrors = 0
    /\ stops = 0

-----------------------------------------------------------------------------
(* System calls.                                                           *)

Restricted(d, slots) == [s \in slots |-> d[s]]

\* A change of the names in upd (a function of them to inodes): seen at once
\* by every thread, and one more version a power cut may leave.
Changed(upd) ==
    [s \in DOMAIN dirent |->
        IF s \in DOMAIN upd THEN [ino |-> upd[s], at |-> dirent[s].at + 1] ELSE dirent[s]]
Link(upd) ==
    /\ dirent' = Changed(upd)
    /\ onDisk' = [obj |-> onDisk.obj \cup {Restricted(Changed(upd), ObjSlots)},
                blob |-> onDisk.blob \cup {Restricted(Changed(upd), BlobSlots)}]
One(s, ino) == [x \in {s} |-> ino]

\* fsync of the collection directory: only the current version is left.
SyncDir_bug == UNCHANGED onDisk
SyncDir == onDisk' = [onDisk EXCEPT !.obj = {Restricted(dirent, ObjSlots)}]

\* write_all_fd, fsync and close of a file no other thread can see yet.
Filled_bug == [len |-> 2, synced |-> FALSE]
Filled == [len |-> 2, synced |-> TRUE]

Fails == ioErrors < MaxIoErrors /\ ioErrors' = ioErrors + 1
Works == UNCHANGED ioErrors

Goto(i, pc) == req' = [req EXCEPT ![i].pc = pc]
Respond(i, res) == req' = [req EXCEPT ![i].pc = "done", ![i].res = res]
Exists(s) == dirent[s].ino # 0

-----------------------------------------------------------------------------
(* A request is parsed and dispatched.                                     *)

Arrive(i) ==
    /\ req[i].pc = "new" /\ \A j \in 1 .. (i - 1) : req[j].pc # "new"
    /\ Cardinality(Busy) < ApiThreads
    /\ \E m \in load :
         \E s \in CASE m \in {"GET", "PUT", "POST", "DELETE"} -> ObjSlots
                    [] m = "NEW" -> {<<"none", 0>>}
                    [] OTHER -> {Blob(d) : d \in Digests} :
           req' = [req EXCEPT ![i] = [NoRequest EXCEPT !.m = m, !.slot = s, !.pc = "start"]]
    /\ UNCHANGED <<inode, dirent, onDisk, ioErrors, stops>>

-----------------------------------------------------------------------------
(* Objects.                                                                *)

\* PUT: a temporary file with a random name, written and fsynced.
PutFill(i) ==
    /\ req[i].m = "PUT" /\ req[i].pc = "start"
    /\ \/ Works /\ inode' = [inode EXCEPT ![i] = Filled] /\ Goto(i, "rename")
       \/ Fails /\ Respond(i, 500) /\ UNCHANGED inode
    /\ UNCHANGED <<dirent, onDisk, stops>>

\* PUT: renameat over the final name; a failure removes the temporary file.
PutRename(i) ==
    /\ req[i].m = "PUT" /\ req[i].pc = "rename"
    /\ \/ /\ Works /\ Link(One(req[i].slot, i))
          /\ req' = [req EXCEPT ![i].pc = "dirsync", ![i].at = dirent[req[i].slot].at + 1]
       \/ Fails /\ Respond(i, 500) /\ UNCHANGED <<dirent, onDisk>>
    /\ UNCHANGED <<inode, stops>>

\* POST: the final name is created with O_EXCL, empty and visible.
Create(i, s) ==
    /\ ~Exists(s) /\ Works /\ Link(One(s, i))
    /\ req' = [req EXCEPT ![i].pc = "write", ![i].slot = s, ![i].at = dirent[s].at + 1]
PostOpen(i) ==
    /\ req[i].m = "POST" /\ req[i].pc = "start"
    /\ \/ Create(i, req[i].slot)
       \/ Exists(req[i].slot) /\ Works /\ Respond(i, 409) /\ UNCHANGED <<dirent, onDisk>>
       \/ Fails /\ Respond(i, 500) /\ UNCHANGED <<dirent, onDisk>>
    /\ UNCHANGED <<inode, stops>>

\* POST without an id: random ids, tried again while they exist; when all 8
\* did, or on another error, 500.
PostNew(i) ==
    /\ req[i].m = "NEW" /\ req[i].pc = "start"
    /\ \/ \E s \in ObjSlots : Create(i, s)
       \/ (\E s \in ObjSlots : Exists(s)) /\ Works /\ Respond(i, 500) /\ UNCHANGED <<dirent, onDisk>>
       \/ Fails /\ Respond(i, 500) /\ UNCHANGED <<dirent, onDisk>>
    /\ UNCHANGED <<inode, stops>>

\* POST: write_all_fd, in one or several writes.
\* When a call fails the name is unlinked, whichever file it is by then.
PostWrite(i) ==
    /\ req[i].m \in Creates /\ req[i].pc = "write"
    /\ \/ /\ Works
          /\ \E n \in {1, 2} : n > inode[i].len /\ inode' = [inode EXCEPT ![i].len = n]
          /\ Goto(i, IF inode'[i].len = 2 THEN "fsync" ELSE "write")
          /\ UNCHANGED <<dirent, onDisk>>
       \/ Fails /\ Link(One(req[i].slot, 0)) /\ Respond(i, 500) /\ UNCHANGED inode
    /\ UNCHANGED stops
PostSync(i) ==
    /\ req[i].m \in Creates /\ req[i].pc = "fsync"
    /\ \/ Works /\ inode' = [inode EXCEPT ![i].synced = TRUE] /\ Goto(i, "dirsync")
          /\ UNCHANGED <<dirent, onDisk>>
       \/ Fails /\ Link(One(req[i].slot, 0)) /\ Respond(i, 500) /\ UNCHANGED inode
    /\ UNCHANGED stops

\* DELETE: unlinkat.
Unlink(i) ==
    /\ req[i].m = "DELETE" /\ req[i].pc = "start"
    /\ \/ /\ Exists(req[i].slot) /\ Works /\ Link(One(req[i].slot, 0))
          /\ req' = [req EXCEPT ![i].pc = "dirsync", ![i].at = dirent[req[i].slot].at + 1]
       \/ ~Exists(req[i].slot) /\ Works /\ Respond(i, 404) /\ UNCHANGED <<dirent, onDisk>>
       \/ Fails /\ Respond(i, 500) /\ UNCHANGED <<dirent, onDisk>>
    /\ UNCHANGED <<inode, stops>>

\* The last call of PUT, POST and DELETE: fsync of the directory.  Its failure
\* is answered 500 with the change in place.
SyncAndRespond(i) ==
    /\ req[i].pc = "dirsync"
    /\ \/ Works /\ SyncDir /\ Respond(i, IF req[i].m \in Creates THEN 201 ELSE 204)
       \/ Fails /\ Respond(i, 500) /\ UNCHANGED onDisk
    /\ UNCHANGED <<inode, dirent, stops>>

-----------------------------------------------------------------------------
(* Blobs.                                                                  *)

\* blob_write: fstatat first, a blob that is there is not written again.
BlobStat(i) ==
    /\ req[i].m = "BLOBPOST" /\ req[i].pc = "start"
    /\ IF Exists(req[i].slot) THEN Respond(i, 201) ELSE Goto(i, "open")
    /\ UNCHANGED <<inode, dirent, onDisk, ioErrors, stops>>

\* The temporary name is opened with O_EXCL; that it exists is an error too.
BlobOpen(i) ==
    /\ req[i].m = "BLOBPOST" /\ req[i].pc = "open"
    /\ LET tmp == Tmp(req[i].slot[2]) IN
         \/ ~Exists(tmp) /\ Works /\ Link(One(tmp, i)) /\ Goto(i, "write")
         \/ Exists(tmp) /\ Works /\ Respond(i, 500) /\ UNCHANGED <<dirent, onDisk>>
         \/ Fails /\ Respond(i, 500) /\ UNCHANGED <<dirent, onDisk>>
    /\ UNCHANGED <<inode, stops>>

BlobFill(i) ==
    /\ req[i].m = "BLOBPOST" /\ req[i].pc = "write"
    /\ \/ Works /\ inode' = [inode EXCEPT ![i] = Filled] /\ Goto(i, "rename") /\ UNCHANGED <<dirent, onDisk>>
       \/ Fails /\ Link(One(Tmp(req[i].slot[2]), 0)) /\ Respond(i, 500) /\ UNCHANGED inode
    /\ UNCHANGED stops

\* renameat of the temporary name; the shard directory is not fsynced.
BlobRename(i) ==
    /\ req[i].m = "BLOBPOST" /\ req[i].pc = "rename"
    /\ LET tmp == Tmp(req[i].slot[2]) IN
         \/ Works /\ Link([s \in {tmp, req[i].slot} |-> IF s = tmp THEN 0 ELSE dirent[tmp].ino]) /\ Respond(i, 201)
         \/ Fails /\ Link(One(tmp, 0)) /\ Respond(i, 500)
    /\ UNCHANGED <<inode, stops>>

BlobDelete(i) ==
    /\ req[i].m = "BLOBDELETE" /\ req[i].pc = "start"
    /\ \/ Exists(req[i].slot) /\ Works /\ Link(One(req[i].slot, 0)) /\ Respond(i, 204)
       \/ ~Exists(req[i].slot) /\ Works /\ Respond(i, 404) /\ UNCHANGED <<dirent, onDisk>>
       \/ Fails /\ Respond(i, 404) /\ UNCHANGED <<dirent, onDisk>>
    /\ UNCHANGED <<inode, stops>>

-----------------------------------------------------------------------------
(* Reads: the name is opened, then fstat and read of the file it named.    *)

ReadOpen(i) ==
    /\ req[i].m \in Reads /\ req[i].pc = "start"
    /\ \/ /\ Exists(req[i].slot) /\ Works
          /\ req' = [req EXCEPT ![i].pc = "read", ![i].held = dirent[req[i].slot].ino]
       \/ ~Exists(req[i].slot) /\ Works /\ Respond(i, 404)
       \/ Fails /\ Respond(i, 500)
    /\ UNCHANGED <<inode, dirent, onDisk, stops>>
ReadAll(i) ==
    /\ req[i].m \in Reads /\ req[i].pc = "read"
    /\ \/ Works /\ Respond(i, 200)
       \/ Fails /\ Respond(i, 500)
    /\ UNCHANGED <<inode, dirent, onDisk, stops>>

-----------------------------------------------------------------------------
(* The process is killed and started again, or the machine loses power.    *)
(* The temporary name of a blob is found again only if the pid is the same. *)

NewPid(d) == [s \in DOMAIN d |-> IF s[1] = "tmp" THEN NoName ELSE d[s]]
Rebooted(objects, blobs) ==
    \E samePid \in BOOLEAN :
      LET found == IF samePid THEN blobs ELSE NewPid(blobs) IN
      /\ dirent' = [s \in DOMAIN dirent |-> IF s \in ObjSlots THEN objects[s] ELSE found[s]]
      /\ req' = [i \in Requests |-> IF i \in Busy THEN [req[i] EXCEPT !.pc = "lost", !.held = 0] ELSE req[i]]

KillServer ==
    /\ stops < MaxStops /\ Busy # {}
    /\ Rebooted(Restricted(dirent, ObjSlots), Restricted(dirent, BlobSlots))
    /\ onDisk' = [onDisk EXCEPT !.blob = @ \cup {Restricted(dirent', BlobSlots)}]
    /\ stops' = stops + 1
    /\ UNCHANGED <<inode, ioErrors>>

PowerCut ==
    /\ stops < MaxStops
    /\ \E objects \in onDisk.obj, blobs \in onDisk.blob : Rebooted(objects, blobs)
    /\ \E kept \in [Requests -> 0 .. 2] :
         /\ \A i \in Requests :
              IF inode[i].synced THEN kept[i] = inode[i].len ELSE kept[i] <= inode[i].len
         /\ inode' = [i \in Requests |-> [inode[i] EXCEPT !.len = kept[i], !.synced = req[i].pc # "new"]]
    /\ onDisk' = [obj |-> {Restricted(dirent', ObjSlots)}, blob |-> {Restricted(dirent', BlobSlots)}]
    /\ stops' = stops + 1
    /\ UNCHANGED ioErrors

FilesNext ==
    /\ UNCHANGED load
    /\ \/ KillServer
       \/ PowerCut
       \/ \E i \in Requests :
            \/ Arrive(i) \/ PutFill(i) \/ PutRename(i) \/ PostOpen(i) \/ PostNew(i) \/ PostWrite(i)
            \/ PostSync(i) \/ Unlink(i) \/ SyncAndRespond(i) \/ BlobStat(i) \/ BlobOpen(i) \/ BlobFill(i)
            \/ BlobRename(i) \/ BlobDelete(i) \/ ReadOpen(i) \/ ReadAll(i)
FilesSpec == FilesInit /\ [][FilesNext]_filesVars

-----------------------------------------------------------------------------
FilesTypeOK ==
    /\ \A i \in Requests :
         /\ req[i].pc \in {"new", "start", "open", "write", "fsync", "rename", "dirsync", "read", "done", "lost"}
         /\ req[i].res \in {0, 200, 201, 204, 404, 409, 500}
         /\ req[i].held \in 0 .. MaxRequests
         /\ inode[i].len \in 0 .. 2
    /\ Restricted(dirent, ObjSlots) \in onDisk.obj /\ Restricted(dirent, BlobSlots) \in onDisk.blob

\* An object change that was answered 201 or 204 is never undone: whatever
\* moment the power fails at, the disk holds that change, whole, or a later
\* change of the same name (src/api.c, write_file and delete_file: fsync of the
\* file before it gets its name or is answered, fsync of the directory last).
AckedSurvives ==
    \A i \in Requests :
      req[i].res \in {201, 204} /\ req[i].slot \in ObjSlots =>
        \A d \in onDisk.obj \cup {Restricted(dirent, ObjSlots)} :
          LET e == d[req[i].slot] IN
          \/ e.at > req[i].at
          \/ /\ e.at = req[i].at
             /\ e.ino = IF req[i].m = "DELETE" THEN 0 ELSE i
             /\ req[i].m = "DELETE" \/ inode[i] = Filled

\* A read answered 200 returns a whole body, and for a blob the one of its
\* digest, also after a power cut.  The one exception is an object whose POST
\* is not answered yet or never was: it is written under its final name.
ReadsAreWhole ==
    [][\A i \in Requests :
         (req[i].m \in Reads /\ req[i].res = 0 /\ req'[i].res = 200) =>
           LET w == req[i].held IN
           \/ inode[w].len = 2 /\ req[w].slot = req[i].slot
           \/ req[w].m \in Creates /\ req[w].res # 201 /\ req[i].m = "GET"]_filesVars
=============================================================================
