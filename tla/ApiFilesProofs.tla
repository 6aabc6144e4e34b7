--------------------------- MODULE ApiFilesProofs ---------------------------
(***************************************************************************)
(* Proofs about ApiFiles, for any number of requests, threads, I/O errors, *)
(* crashes and power cuts.                                                 *)
(*                                                                         *)
(* What survives a power cut depends on every version of a directory the   *)
(* disk may still hold, so the invariant speaks of all of them: whatever   *)
(* file one of them names was written by a request for that name, and is   *)
(* whole and fsynced unless it is the file of a POST.  The steps of a      *)
(* request are tied to the directory by the number of changes made to its  *)
(* name: its own change is the last one, or it was overtaken.              *)
(***************************************************************************)
EXTENDS ApiFiles, TLAPS

Entry == [ino : 0 .. MaxRequests, at : Nat]
Blobs == {Blob(d) : d \in Digests}
AllSlots == ObjSlots \cup BlobSlots
Mutators == {"PUT", "POST", "NEW", "DELETE"}
RequestType ==
    [m : Methods \cup {"none"}, slot : AllSlots \cup {<<"none", 0>>},
     pc : {"new", "start", "open", "write", "fsync", "rename", "dirsync", "read", "done", "lost"},
     res : {0, 200, 201, 204, 404, 409, 500}, at : Nat, held : 0 .. MaxRequests]

FilesType ==
    /\ req \in [Requests -> RequestType]
    /\ inode \in [Requests -> [len : 0 .. 2, synced : BOOLEAN]]
    /\ dirent \in [AllSlots -> Entry]
    /\ onDisk \in [obj : SUBSET [ObjSlots -> Entry], blob : SUBSET [BlobSlots -> Entry]]
    /\ load \in Loads

\* w is a file of a request for s that got as far as creating it: a whole one,
\* or for an object possibly one that a POST has under way.
Named(w, s) == w \in Requests /\ req[w].slot = s /\ req[w].pc \notin {"new", "start"}
ObjFile(w, s) ==
    Named(w, s) /\ (req[w].m \in Creates \/ (req[w].m = "PUT" /\ inode[w] = Filled))
BlobFile(w, s) == Named(w, s) /\ req[w].m = "BLOBPOST" /\ inode[w] = Filled

\* What every version of the directories a power cut may leave names.
NamesOK ==
    /\ \A d \in onDisk.obj, s \in ObjSlots : d[s].ino # 0 => ObjFile(d[s].ino, s)
    /\ \A d \in onDisk.blob, s \in Blobs : d[s].ino # 0 => BlobFile(d[s].ino, s)
    /\ Restricted(dirent, ObjSlots) \in onDisk.obj /\ Restricted(dirent, BlobSlots) \in onDisk.blob

\* The directory entry e holds the change request i, in state r, made to it, or
\* a later one.
Holds(e, r, i) ==
    e.at > r.at \/ (e.at = r.at /\ e.ino = IF r.m = "DELETE" THEN 0 ELSE i)

\* A request belongs to a name its method is for, and at each of its steps what
\* it has done so far is there.
SlotOK(i) ==
    /\ req[i].m \in {"GET", "PUT", "POST", "DELETE"} => req[i].slot \in ObjSlots
    /\ req[i].m \in {"BLOBGET", "BLOBPOST", "BLOBDELETE"} => req[i].slot \in Blobs
StepOK(i) ==
    /\ req[i].pc # "done" => req[i].res = 0
    /\ req[i].pc = "rename" => inode[i] = Filled
    /\ req[i].pc = "fsync" => inode[i].len = 2
    /\ req[i].pc = "dirsync" =>
         /\ req[i].m \in Mutators /\ req[i].slot \in ObjSlots /\ Holds(dirent[req[i].slot], req[i], i)
         /\ req[i].m # "DELETE" => inode[i] = Filled
    /\ req[i].m \in Creates /\ req[i].pc \in {"write", "fsync"} =>
         req[i].slot \in ObjSlots /\ Holds(dirent[req[i].slot], req[i], i)
    /\ req[i].m = "BLOBPOST" /\ req[i].pc \in {"write", "rename"} =>
         dirent[Tmp(req[i].slot[2])].ino = i
    /\ req[i].pc = "read" =>
         \/ req[i].m = "GET" /\ ObjFile(req[i].held, req[i].slot)
         \/ req[i].m = "BLOBGET" /\ BlobFile(req[i].held, req[i].slot)
    /\ req[i].pc = "done" /\ req[i].res \in {201, 204} /\ req[i].slot \in ObjSlots =>
         /\ req[i].m \in Mutators
         /\ \A d \in onDisk.obj : Holds(d[req[i].slot], req[i], i)
         /\ req[i].m # "DELETE" => inode[i] = Filled

FilesInv == FilesType /\ NamesOK /\ \A i \in Requests : SlotOK(i) /\ StepOK(i)

-----------------------------------------------------------------------------
(* The names.                                                              *)

\* Object names, digests and the temporary names of blobs never clash
\* (split_path and is_valid_name keep the collections apart from the shards,
\* and a temporary name starts with a dot).
LEMMA Names ==
    /\ \A s \in ObjSlots : s \in AllSlots /\ s \notin BlobSlots /\ s \notin Blobs
    /\ \A s \in Blobs : s \in BlobSlots /\ s \in AllSlots /\ s \notin ObjSlots /\ s[2] \in Digests
    /\ \A d \in Digests : Tmp(d) \in BlobSlots /\ Tmp(d) \in AllSlots /\ Tmp(d) \notin ObjSlots /\ Tmp(d) \notin Blobs
    /\ \A s \in BlobSlots : s \in AllSlots /\ s \notin ObjSlots
    /\ <<"none", 0>> \notin AllSlots
  BY DEF ObjSlots, BlobSlots, Blobs, AllSlots, Obj, Blob, Tmp

-----------------------------------------------------------------------------
(* What a step of one request leaves alone.                                *)

\* Only request i moves; it keeps its name once it has begun to act on it, and
\* a file that is written and fsynced stays so.
OnlyOne(i) ==
    /\ req' \in [Requests -> RequestType]
    /\ inode' \in [Requests -> [len : 0 .. 2, synced : BOOLEAN]]
    /\ load' = load
    /\ \A j \in Requests \ {i} : req'[j] = req[j] /\ inode'[j] = inode[j]
    /\ inode[i] = Filled => inode'[i] = Filled
    /\ req[i].pc \notin {"new", "start"} =>
         req'[i].m = req[i].m /\ req'[i].slot = req[i].slot /\ req'[i].pc \notin {"new", "start"}

\* The entries of object names only move on, in the page cache and on disk, and
\* of the temporary names only free ones and those of request i change.
DirsMove(i) ==
    /\ dirent' \in [AllSlots -> Entry]
    /\ onDisk' \in [obj : SUBSET [ObjSlots -> Entry], blob : SUBSET [BlobSlots -> Entry]]
    /\ NamesOK'
    /\ \A s \in ObjSlots : dirent'[s] = dirent[s] \/ dirent'[s].at > dirent[s].at
    /\ \A s \in ObjSlots, d \in onDisk'.obj :
         \E e \in onDisk.obj : d[s] = e[s] \/ d[s].at > e[s].at
    /\ \A d \in Digests : dirent[Tmp(d)].ino \in {0, i} \/ dirent'[Tmp(d)] = dirent[Tmp(d)]

\* A file somebody can name or has open is not taken away by the step of a
\* request (nothing in write_file or blob_write touches a finished file).
LEMMA FilesStay ==
    ASSUME NEW i \in Requests, OnlyOne(i), NEW w, NEW s
    PROVE  (ObjFile(w, s) => ObjFile(w, s)') /\ (BlobFile(w, s) => BlobFile(w, s)')
<1>1. ASSUME Named(w, s) PROVE Named(w, s)' /\ req'[w].m = req[w].m
  <2>1. CASE w = i  BY <1>1, <2>1, Zenon DEF Named, OnlyOne
  <2>2. CASE w # i  BY <1>1, <2>2 DEF Named, OnlyOne
  <2> QED  BY <2>1, <2>2, Zenon
<1>2. ASSUME w \in Requests, inode[w] = Filled PROVE inode'[w] = Filled
  <2>1. CASE w = i  BY <1>2, <2>1, Zenon DEF OnlyOne
  <2>2. CASE w # i  BY <1>2, <2>2 DEF OnlyOne
  <2> QED  BY <2>1, <2>2, Zenon
<1>3. Named(w, s) => w \in Requests  BY Zenon DEF Named
<1>4. Filled' = Filled  BY DEF Filled
<1> QED  BY <1>1, <1>2, <1>3, <1>4, Zenon DEF ObjFile, BlobFile

\* The entry of a name that only moved on still holds the change of request j.
LEMMA HoldsStays ==
    ASSUME NEW j, NEW r \in RequestType, NEW e \in Entry, NEW f \in Entry, Holds(e, r, j), f = e \/ f.at > e.at
    PROVE  Holds(f, r, j)
<1>1. r.at \in Nat /\ e.at \in Nat /\ f.at \in Nat  BY DEF RequestType, Entry
<1> QED  BY <1>1 DEF Holds

\* A request that does not move keeps what it has done so far, whatever another
\* thread does meanwhile.
LEMMA OthersKeep ==
    ASSUME FilesInv, NEW i \in Requests, OnlyOne(i), DirsMove(i), NEW j \in Requests, j # i
    PROVE  SlotOK(j)' /\ StepOK(j)'
<1>1. req'[j] = req[j] /\ inode'[j] = inode[j]  BY Zenon DEF OnlyOne
<1>2. SlotOK(j) /\ StepOK(j) /\ FilesType  BY Zenon DEF FilesInv
<1>3. SlotOK(j)'  BY <1>1, <1>2, Zenon DEF SlotOK, ObjSlots, Blobs
<1>4. Filled' = Filled  BY Zenon DEF Filled
<1>5. ASSUME req[j].slot \in ObjSlots, Holds(dirent[req[j].slot], req[j], j)
      PROVE  Holds(dirent'[req[j].slot], req[j], j)
  <2> DEFINE e == dirent[req[j].slot]  f == dirent'[req[j].slot]
  <2>1. e \in Entry /\ f \in Entry  BY <1>2, <1>5, Names, Zenon DEF FilesType, DirsMove
  <2>2. f = e \/ f.at > e.at  BY <1>5, Zenon DEF DirsMove
  <2>3. Holds(e, req[j], j) /\ req[j] \in RequestType  BY <1>2, <1>5, Zenon DEF FilesType
  <2> HIDE DEF e, f
  <2>4. Holds(f, req[j], j)  BY <2>1, <2>2, <2>3, HoldsStays
  <2> QED  BY <2>4, Zenon DEF f
<1>6. ASSUME req[j].slot \in ObjSlots, \A d \in onDisk.obj : Holds(d[req[j].slot], req[j], j), NEW d \in onDisk'.obj
      PROVE  Holds(d[req[j].slot], req[j], j)
  <2>1. PICK e \in onDisk.obj : d[req[j].slot] = e[req[j].slot] \/ d[req[j].slot].at > e[req[j].slot].at
    BY <1>6, Zenon DEF DirsMove
  <2>2. e[req[j].slot] \in Entry /\ d[req[j].slot] \in Entry  BY <1>2, <1>6, Zenon DEF FilesType, DirsMove
  <2>3. Holds(e[req[j].slot], req[j], j)  BY <1>6
  <2> QED  BY <1>1, <1>2, <2>1, <2>2, <2>3, HoldsStays, Zenon DEF FilesType
<1>7. ASSUME req[j].m = "BLOBPOST", dirent[Tmp(req[j].slot[2])].ino = j
      PROVE  dirent'[Tmp(req[j].slot[2])].ino = j
  <2>1. req[j].slot[2] \in Digests  BY <1>2, <1>7, Names, Zenon DEF SlotOK
  <2>2. j # 0  BY DEF Requests
  <2> QED  BY <1>7, <2>1, <2>2, Zenon DEF DirsMove
<1>8. StepOK(j)'
  <2>1. (req[j].pc # "done" => req[j].res = 0)'  BY <1>1, <1>2, Zenon DEF StepOK
  <2>2. (req[j].pc = "rename" => inode[j] = Filled)' /\ (req[j].pc = "fsync" => inode[j].len = 2)'
    BY <1>1, <1>2, <1>4, Zenon DEF StepOK
  <2>3. (req[j].pc = "dirsync" =>
         /\ req[j].m \in Mutators /\ req[j].slot \in ObjSlots /\ Holds(dirent[req[j].slot], req[j], j)
         /\ req[j].m # "DELETE" => inode[j] = Filled)'
    BY <1>1, <1>2, <1>4, <1>5, Zenon DEF StepOK, Mutators, ObjSlots
  <2>4. (req[j].m \in Creates /\ req[j].pc \in {"write", "fsync"} =>
         req[j].slot \in ObjSlots /\ Holds(dirent[req[j].slot], req[j], j))'
    BY <1>1, <1>2, <1>5, Zenon DEF StepOK, Creates, ObjSlots
  <2>5. (req[j].m = "BLOBPOST" /\ req[j].pc \in {"write", "rename"} =>
         dirent[Tmp(req[j].slot[2])].ino = j)'
    BY <1>1, <1>2, <1>7, Zenon DEF StepOK, Tmp
  <2>6. (req[j].pc = "read" =>
         \/ req[j].m = "GET" /\ ObjFile(req[j].held, req[j].slot)
         \/ req[j].m = "BLOBGET" /\ BlobFile(req[j].held, req[j].slot))'
    <3>1. PICK w, s : w = req[j].held /\ s = req[j].slot  BY Zenon
    <3>2. (ObjFile(w, s) => ObjFile(w, s)') /\ (BlobFile(w, s) => BlobFile(w, s)')  BY FilesStay, Zenon
    <3>3. req[j].pc = "read" => (req[j].m = "GET" /\ ObjFile(w, s)) \/ (req[j].m = "BLOBGET" /\ BlobFile(w, s))
      BY <1>2, <3>1 DEF StepOK
    <3> QED  BY <1>1, <3>1, <3>2, <3>3, Zenon
  <2>7. (req[j].pc = "done" /\ req[j].res \in {201, 204} /\ req[j].slot \in ObjSlots =>
         /\ req[j].m \in Mutators
         /\ \A d \in onDisk.obj : Holds(d[req[j].slot], req[j], j)
         /\ req[j].m # "DELETE" => inode[j] = Filled)'
    <3> SUFFICES ASSUME req[j].pc = "done", req[j].res \in {201, 204}, req[j].slot \in ObjSlots
                 PROVE  (/\ req[j].m \in Mutators
                         /\ \A d \in onDisk.obj : Holds(d[req[j].slot], req[j], j)
                         /\ req[j].m # "DELETE" => inode[j] = Filled)'
      BY <1>1, Zenon DEF ObjSlots
    <3>1. /\ req[j].m \in Mutators
          /\ \A d \in onDisk.obj : Holds(d[req[j].slot], req[j], j)
          /\ req[j].m # "DELETE" => inode[j] = Filled
      BY <1>2, Zenon DEF StepOK
    <3>2. \A d \in onDisk'.obj : Holds(d[req[j].slot], req[j], j)  BY <1>6, <3>1, Zenon
    <3> QED  BY <1>1, <1>4, <3>1, <3>2 DEF Mutators, Holds
  <2> QED  BY <2>1, <2>2, <2>3, <2>4, <2>5, <2>6, <2>7, Zenon DEF StepOK
<1> QED  BY <1>3, <1>8, Zenon

\* A step of request i that moves the directories on and leaves i itself in
\* order keeps the whole invariant.
LEMMA OneKeeps ==
    ASSUME FilesInv, NEW i \in Requests, OnlyOne(i), DirsMove(i), SlotOK(i)', StepOK(i)'
    PROVE  FilesInv'
<1>1. FilesType'  BY Zenon DEF OnlyOne, DirsMove, FilesType, FilesInv
<1>2. NamesOK'  BY Zenon DEF DirsMove
<1>3. \A j \in Requests : SlotOK(j)' /\ StepOK(j)'  BY OthersKeep, Zenon
<1>4. Requests' = Requests  BY DEF Requests
<1> QED  BY <1>1, <1>2, <1>3, <1>4, Zenon DEF FilesInv

-----------------------------------------------------------------------------
(* The directories.                                                        *)

\* A step that changes no directory.
LEMMA DirsSame ==
    ASSUME FilesInv, NEW i \in Requests, OnlyOne(i), dirent' = dirent, onDisk' = onDisk
    PROVE  DirsMove(i)
<1>1. \A w, s : (ObjFile(w, s) => ObjFile(w, s)') /\ (BlobFile(w, s) => BlobFile(w, s)')  BY FilesStay, Zenon
<1>2. FilesType /\ NamesOK  BY Zenon DEF FilesInv
<1>3. NamesOK'
  <2>1. ASSUME NEW d \in onDisk'.obj, NEW s \in ObjSlots, d[s].ino # 0 PROVE ObjFile(d[s].ino, s)'
    <3>1. PICK w : w = d[s].ino  BY Zenon
    <3>2. ObjFile(w, s)  BY <1>2, <2>1, <3>1 DEF NamesOK
    <3> QED  BY <1>1, <3>1, <3>2, Zenon
  <2>2. ASSUME NEW d \in onDisk'.blob, NEW s \in Blobs, d[s].ino # 0 PROVE BlobFile(d[s].ino, s)'
    <3>1. PICK w : w = d[s].ino  BY Zenon
    <3>2. BlobFile(w, s)  BY <1>2, <2>2, <3>1 DEF NamesOK
    <3> QED  BY <1>1, <3>1, <3>2, Zenon
  <2>3. (Restricted(dirent, ObjSlots) \in onDisk.obj)' /\ (Restricted(dirent, BlobSlots) \in onDisk.blob)'
    BY <1>2, Zenon DEF NamesOK, Restricted, ObjSlots, BlobSlots
  <2>4. ObjSlots' = ObjSlots /\ Blobs' = Blobs  BY DEF ObjSlots, Blobs
  <2> QED  BY <2>1, <2>2, <2>3, <2>4, Zenon DEF NamesOK
<1>4. \A s \in ObjSlots, d \in onDisk'.obj : \E e \in onDisk.obj : d[s] = e[s] \/ d[s].at > e[s].at  BY Zenon
<1> QED  BY <1>2, <1>3, <1>4, Zenon DEF DirsMove, FilesType

\* What a change of the names in upd does to the entries: those names get the
\* given files and one change more, all others keep what they had.
LEMMA LinkEntries ==
    ASSUME FilesInv, NEW upd, DOMAIN upd \subseteq AllSlots, \A s \in DOMAIN upd : upd[s] \in 0 .. MaxRequests, Link(upd)
    PROVE  /\ dirent' \in [AllSlots -> Entry]
           /\ \A s \in AllSlots \ DOMAIN upd : dirent'[s] = dirent[s]
           /\ \A s \in DOMAIN upd : dirent'[s].ino = upd[s] /\ dirent'[s].at = dirent[s].at + 1
           /\ \A s \in AllSlots : dirent'[s] = dirent[s] \/ dirent'[s].at > dirent[s].at
           /\ onDisk'.obj = onDisk.obj \cup {Restricted(dirent', ObjSlots)}
           /\ onDisk'.blob = onDisk.blob \cup {Restricted(dirent', BlobSlots)}
           /\ onDisk' \in [obj : SUBSET [ObjSlots -> Entry], blob : SUBSET [BlobSlots -> Entry]]
<1>1. FilesType  BY Zenon DEF FilesInv
<1>2. dirent' = [s \in AllSlots |->
        IF s \in DOMAIN upd THEN [ino |-> upd[s], at |-> dirent[s].at + 1] ELSE dirent[s]]
  BY <1>1, Zenon DEF Link, Changed, FilesType
<1>3. \A s \in AllSlots : dirent[s].at \in Nat  BY <1>1, Zenon DEF FilesType, Entry
<1>4. dirent' \in [AllSlots -> Entry]
  <2>1. ASSUME NEW s \in AllSlots PROVE dirent'[s] \in Entry
    <3>1. CASE s \in DOMAIN upd  BY <1>2, <1>3, <3>1 DEF Entry
    <3>2. CASE s \notin DOMAIN upd  BY <1>1, <1>2, <3>2, Zenon DEF FilesType
    <3> QED  BY <3>1, <3>2
  <2> QED  BY <1>2, <2>1, Zenon
<1>5. /\ onDisk'.obj = onDisk.obj \cup {Restricted(dirent', ObjSlots)}
      /\ onDisk'.blob = onDisk.blob \cup {Restricted(dirent', BlobSlots)}
  BY Zenon DEF Link
<1>6. Restricted(dirent', ObjSlots) \in [ObjSlots -> Entry] /\ Restricted(dirent', BlobSlots) \in [BlobSlots -> Entry]
  BY <1>4, Names, Zenon DEF Restricted
<1>7. onDisk' \in [obj : SUBSET [ObjSlots -> Entry], blob : SUBSET [BlobSlots -> Entry]]
  <2>1. onDisk' = [obj |-> onDisk.obj \cup {Restricted(dirent', ObjSlots)}, blob |-> onDisk.blob \cup {Restricted(dirent', BlobSlots)}]
    BY Zenon DEF Link
  <2>2. onDisk.obj \in SUBSET [ObjSlots -> Entry] /\ onDisk.blob \in SUBSET [BlobSlots -> Entry]  BY <1>1 DEF FilesType
  <2> QED  BY <1>6, <2>1, <2>2, Zenon
<1>8. \A s \in DOMAIN upd : dirent'[s].ino = upd[s] /\ dirent'[s].at = dirent[s].at + 1  BY <1>2, Zenon
<1>9. \A s \in AllSlots \ DOMAIN upd : dirent'[s] = dirent[s]  BY <1>2, Zenon
<1> QED  BY <1>3, <1>4, <1>5, <1>7, <1>8, <1>9

\* A change of names keeps every version of the directories in order when the
\* files it names are (renameat, unlinkat and open with O_CREAT).
LEMMA LinkMoves ==
    ASSUME FilesInv, NEW i \in Requests, OnlyOne(i), NEW upd, Link(upd),
           DOMAIN upd \subseteq AllSlots, \A s \in DOMAIN upd : upd[s] \in 0 .. MaxRequests,
           \A s \in DOMAIN upd \cap ObjSlots : upd[s] # 0 => ObjFile(upd[s], s)',
           \A s \in DOMAIN upd \cap Blobs : upd[s] # 0 => BlobFile(upd[s], s)',
           \A d \in Digests : Tmp(d) \in DOMAIN upd => dirent[Tmp(d)].ino \in {0, i}
    PROVE  DirsMove(i)
<1>1. \A w, s : (ObjFile(w, s) => ObjFile(w, s)') /\ (BlobFile(w, s) => BlobFile(w, s)')  BY FilesStay, Zenon
<1>2. FilesType /\ NamesOK  BY Zenon DEF FilesInv
<1>3. /\ dirent' \in [AllSlots -> Entry]
      /\ \A s \in AllSlots \ DOMAIN upd : dirent'[s] = dirent[s]
      /\ \A s \in DOMAIN upd : dirent'[s].ino = upd[s] /\ dirent'[s].at = dirent[s].at + 1
      /\ \A s \in AllSlots : dirent'[s] = dirent[s] \/ dirent'[s].at > dirent[s].at
      /\ onDisk'.obj = onDisk.obj \cup {Restricted(dirent', ObjSlots)}
      /\ onDisk'.blob = onDisk.blob \cup {Restricted(dirent', BlobSlots)}
      /\ onDisk' \in [obj : SUBSET [ObjSlots -> Entry], blob : SUBSET [BlobSlots -> Entry]]
  BY LinkEntries, Zenon
<1>4. /\ Restricted(dirent, ObjSlots) \in onDisk.obj /\ \A s \in ObjSlots : Restricted(dirent, ObjSlots)[s] = dirent[s]
      /\ Restricted(dirent, BlobSlots) \in onDisk.blob /\ \A s \in BlobSlots : Restricted(dirent, BlobSlots)[s] = dirent[s]
      /\ \A s \in ObjSlots : Restricted(dirent', ObjSlots)[s] = dirent'[s]
      /\ \A s \in BlobSlots : Restricted(dirent', BlobSlots)[s] = dirent'[s]
  BY <1>2, Zenon DEF NamesOK, Restricted
<1>5. ASSUME NEW d \in onDisk.obj, NEW s \in ObjSlots, d[s].ino # 0 PROVE ObjFile(d[s].ino, s)'
  <2>1. PICK w : w = d[s].ino  BY Zenon
  <2>2. ObjFile(w, s)  BY <1>2, <1>5, <2>1 DEF NamesOK
  <2> QED  BY <1>1, <2>1, <2>2, Zenon
<1>6. ASSUME NEW d \in onDisk.blob, NEW s \in Blobs, d[s].ino # 0 PROVE BlobFile(d[s].ino, s)'
  <2>1. PICK w : w = d[s].ino  BY Zenon
  <2>2. BlobFile(w, s)  BY <1>2, <1>6, <2>1 DEF NamesOK
  <2> QED  BY <1>1, <2>1, <2>2, Zenon
<1>7. ASSUME NEW s \in ObjSlots, dirent'[s].ino # 0, NEW w, w = dirent'[s].ino PROVE ObjFile(w, s)'
  <2>1. CASE s \in DOMAIN upd
    <3>1. w = upd[s] /\ w # 0  BY <1>3, <1>7, <2>1
    <3> QED  BY <2>1, <3>1, Zenon
  <2>2. CASE s \notin DOMAIN upd
    <3>1. dirent'[s] = dirent[s]  BY <1>3, <2>2, Names, Zenon
    <3>2. ObjFile(w, s)  BY <1>2, <1>4, <1>7, <3>1 DEF NamesOK
    <3> QED  BY <1>1, <3>2
  <2> QED  BY <2>1, <2>2, Zenon
<1>8. ASSUME NEW s \in Blobs, dirent'[s].ino # 0, NEW w, w = dirent'[s].ino PROVE BlobFile(w, s)'
  <2>1. CASE s \in DOMAIN upd
    <3>1. w = upd[s] /\ w # 0  BY <1>3, <1>8, <2>1
    <3> QED  BY <2>1, <3>1, Zenon
  <2>2. CASE s \notin DOMAIN upd
    <3>1. dirent'[s] = dirent[s]  BY <1>3, <2>2, Names, Zenon
    <3>2. BlobFile(w, s)  BY <1>2, <1>4, <1>8, <3>1, Names DEF NamesOK
    <3> QED  BY <1>1, <3>2
  <2> QED  BY <2>1, <2>2, Zenon
<1>9. NamesOK'
  <2>1. ASSUME NEW d \in onDisk'.obj, NEW s \in ObjSlots, d[s].ino # 0 PROVE ObjFile(d[s].ino, s)'
    <3>1. CASE d \in onDisk.obj  BY <1>5, <2>1, <3>1, Zenon
    <3>2. CASE d = Restricted(dirent', ObjSlots)
      <4>1. PICK w : w = d[s].ino  BY Zenon
      <4>2. w = dirent'[s].ino /\ dirent'[s].ino # 0  BY <1>4, <2>1, <3>2, <4>1, Zenon
      <4> QED  BY <1>7, <4>1, <4>2
    <3> QED  BY <1>3, <3>1, <3>2, Zenon
  <2>2. ASSUME NEW d \in onDisk'.blob, NEW s \in Blobs, d[s].ino # 0 PROVE BlobFile(d[s].ino, s)'
    <3>1. CASE d \in onDisk.blob  BY <1>6, <2>2, <3>1, Zenon
    <3>2. CASE d = Restricted(dirent', BlobSlots)
      <4>1. PICK w : w = d[s].ino  BY Zenon
      <4>2. w = dirent'[s].ino /\ dirent'[s].ino # 0  BY <1>4, <2>2, <3>2, <4>1, Names, Zenon
      <4> QED  BY <1>8, <4>1, <4>2
    <3> QED  BY <1>3, <3>1, <3>2, Zenon
  <2>3. (Restricted(dirent, ObjSlots) \in onDisk.obj)' /\ (Restricted(dirent, BlobSlots) \in onDisk.blob)'
    BY <1>3, Zenon DEF Restricted, ObjSlots, BlobSlots
  <2>4. ObjSlots' = ObjSlots /\ Blobs' = Blobs  BY DEF ObjSlots, Blobs
  <2> QED  BY <2>1, <2>2, <2>3, <2>4, Zenon DEF NamesOK
<1>10. \A s \in ObjSlots, d \in onDisk'.obj : \E e \in onDisk.obj : d[s] = e[s] \/ d[s].at > e[s].at
  <2> SUFFICES ASSUME NEW s \in ObjSlots, NEW d \in onDisk'.obj
               PROVE  \E e \in onDisk.obj : d[s] = e[s] \/ d[s].at > e[s].at
    BY Zenon
  <2>1. CASE d \in onDisk.obj  BY <2>1, Zenon
  <2>2. CASE d = Restricted(dirent', ObjSlots)  BY <1>3, <1>4, <2>2, Names
  <2> QED  BY <1>3, <2>1, <2>2, Zenon
<1>11. \A d \in Digests : dirent[Tmp(d)].ino \in {0, i} \/ dirent'[Tmp(d)] = dirent[Tmp(d)]
  BY <1>3, Names
<1> QED  BY <1>3, <1>9, <1>10, <1>11, Names, Zenon DEF DirsMove

\* The change of one name.
LEMMA LinkOne ==
    ASSUME FilesInv, NEW i \in Requests, OnlyOne(i), NEW s \in AllSlots, NEW w \in 0 .. MaxRequests, Link(One(s, w)),
           w # 0 /\ s \in ObjSlots => ObjFile(w, s)', w # 0 => s \notin Blobs,
           \A d \in Digests : s = Tmp(d) => dirent[s].ino \in {0, i}
    PROVE  DirsMove(i) /\ dirent'[s].ino = w /\ dirent'[s].at = dirent[s].at + 1
<1>1. PICK upd : upd = One(s, w)  BY Zenon
<1>2. DOMAIN upd = {s} /\ upd[s] = w  BY <1>1, Zenon DEF One
<1>3. Link(upd)  BY <1>1, Zenon
<1>4. /\ DOMAIN upd \subseteq AllSlots
      /\ \A x \in DOMAIN upd : upd[x] \in 0 .. MaxRequests
      /\ \A x \in DOMAIN upd \cap Blobs : upd[x] # 0 => BlobFile(upd[x], x)'
      /\ \A d \in Digests : Tmp(d) \in DOMAIN upd => dirent[Tmp(d)].ino \in {0, i}
  BY <1>2, Zenon
<1>5. \A x \in DOMAIN upd \cap ObjSlots : upd[x] # 0 => ObjFile(upd[x], x)'
  BY <1>2, Zenon
<1>6. DirsMove(i)  BY <1>3, <1>4, <1>5, LinkMoves
<1> QED  BY <1>2, <1>3, <1>4, <1>6, LinkEntries, Zenon

\* fsync of the collection directory drops the older versions of it.
LEMMA SyncMoves ==
    ASSUME FilesInv, NEW i \in Requests, OnlyOne(i), SyncDir, dirent' = dirent
    PROVE  DirsMove(i) /\ onDisk'.obj = {Restricted(dirent, ObjSlots)}
<1>1. \A w, s : (ObjFile(w, s) => ObjFile(w, s)') /\ (BlobFile(w, s) => BlobFile(w, s)')  BY FilesStay, Zenon
<1>2. FilesType /\ NamesOK  BY Zenon DEF FilesInv
<1>3. onDisk' = [obj |-> {Restricted(dirent, ObjSlots)}, blob |-> onDisk.blob]
  BY <1>2, Zenon DEF SyncDir, FilesType
<1>4. onDisk'.obj = {Restricted(dirent, ObjSlots)} /\ onDisk'.blob = onDisk.blob
      /\ Restricted(dirent, ObjSlots) \in onDisk.obj
  BY <1>2, <1>3, Zenon DEF NamesOK
<1>5. onDisk' \in [obj : SUBSET [ObjSlots -> Entry], blob : SUBSET [BlobSlots -> Entry]]
  <2>1. Restricted(dirent, ObjSlots) \in [ObjSlots -> Entry]  BY <1>2, Names, Zenon DEF FilesType, Restricted
  <2>2. onDisk.blob \in SUBSET [BlobSlots -> Entry]  BY <1>2 DEF FilesType
  <2> QED  BY <1>3, <2>1, <2>2, Zenon
<1>6. NamesOK'
  <2>1. ASSUME NEW d \in onDisk'.obj, NEW s \in ObjSlots, d[s].ino # 0 PROVE ObjFile(d[s].ino, s)'
    <3>1. PICK w : w = d[s].ino  BY Zenon
    <3>2. ObjFile(w, s)  BY <1>2, <1>4, <2>1, <3>1 DEF NamesOK
    <3> QED  BY <1>1, <3>1, <3>2, Zenon
  <2>2. ASSUME NEW d \in onDisk'.blob, NEW s \in Blobs, d[s].ino # 0 PROVE BlobFile(d[s].ino, s)'
    <3>1. PICK w : w = d[s].ino  BY Zenon
    <3>2. BlobFile(w, s)  BY <1>2, <1>4, <2>2, <3>1 DEF NamesOK
    <3> QED  BY <1>1, <3>1, <3>2, Zenon
  <2>3. (Restricted(dirent, ObjSlots) \in onDisk.obj)' /\ (Restricted(dirent, BlobSlots) \in onDisk.blob)'
    BY <1>2, <1>4, Zenon DEF NamesOK, Restricted, ObjSlots, BlobSlots
  <2>4. ObjSlots' = ObjSlots /\ Blobs' = Blobs  BY DEF ObjSlots, Blobs
  <2> QED  BY <2>1, <2>2, <2>3, <2>4, Zenon DEF NamesOK
<1>7. \A s \in ObjSlots, d \in onDisk'.obj : \E e \in onDisk.obj : d[s] = e[s] \/ d[s].at > e[s].at  BY <1>4
<1> QED  BY <1>2, <1>4, <1>5, <1>6, <1>7, Zenon DEF DirsMove, FilesType

-----------------------------------------------------------------------------
(* The steps of a request.                                                 *)

\* What the request's answer does to its record.
LEMMA Answered ==
    ASSUME FilesInv, NEW i \in Requests, NEW res \in {0, 200, 201, 204, 404, 409, 500}, Respond(i, res),
           req[i].pc # "new", load' = load, UNCHANGED inode
    PROVE  /\ OnlyOne(i) /\ SlotOK(i)'
           /\ req'[i].m = req[i].m /\ req'[i].slot = req[i].slot /\ req'[i].at = req[i].at
           /\ req'[i].pc = "done" /\ req'[i].res = res
           /\ (res \in {201, 204} => req[i].slot \notin ObjSlots) => StepOK(i)'
<1>1. FilesType /\ SlotOK(i)  BY DEF FilesInv
<1>2. req[i] \in RequestType  BY <1>1 DEF FilesType
<1> DEFINE mid == [req EXCEPT ![i].pc = "done"]
<1>3. /\ mid \in [Requests -> RequestType] /\ mid[i].pc = "done"
      /\ mid[i].m = req[i].m /\ mid[i].slot = req[i].slot /\ mid[i].at = req[i].at
      /\ \A j \in Requests \ {i} : mid[j] = req[j]
  BY <1>1, <1>2 DEF FilesType, RequestType
<1>4. req' = [mid EXCEPT ![i].res = res]  BY DEF Respond
<1> HIDE DEF mid
<1>5. mid[i] \in RequestType  BY <1>3
<1>6. /\ req'[i].m = req[i].m /\ req'[i].slot = req[i].slot /\ req'[i].at = req[i].at
      /\ req'[i].pc = "done" /\ req'[i].res = res
  BY <1>3, <1>4, <1>5 DEF RequestType
<1>7. req' \in [Requests -> RequestType] /\ \A j \in Requests \ {i} : req'[j] = req[j]
  BY <1>3, <1>4, <1>5 DEF RequestType
<1>8. OnlyOne(i)  BY <1>1, <1>6, <1>7 DEF OnlyOne, FilesType
<1>9. SlotOK(i)'  BY <1>1, <1>6 DEF SlotOK, ObjSlots, Blobs
<1>10. (res \in {201, 204} => req[i].slot \notin ObjSlots) => StepOK(i)'
  BY <1>6 DEF StepOK, ObjSlots
<1> QED  BY <1>6, <1>8, <1>9, <1>10, Zenon

\* A request that goes on to its next call.
LEMMA GoesOn ==
    ASSUME FilesInv, NEW i \in Requests, NEW pc \in {"open", "write", "fsync", "rename", "dirsync"}, Goto(i, pc),
           load' = load, inode' \in [Requests -> [len : 0 .. 2, synced : BOOLEAN]],
           \A j \in Requests \ {i} : inode'[j] = inode[j], inode[i] = Filled => inode'[i] = Filled
    PROVE  /\ OnlyOne(i) /\ SlotOK(i)'
           /\ req'[i].m = req[i].m /\ req'[i].slot = req[i].slot /\ req'[i].at = req[i].at
           /\ req'[i].pc = pc /\ req'[i].res = req[i].res
<1>1. FilesType /\ SlotOK(i)  BY Zenon DEF FilesInv
<1>2. req[i] \in RequestType  BY <1>1, Zenon DEF FilesType
<1>3. /\ req' \in [Requests -> RequestType] /\ \A j \in Requests \ {i} : req'[j] = req[j]
      /\ req'[i].m = req[i].m /\ req'[i].slot = req[i].slot /\ req'[i].at = req[i].at
      /\ req'[i].pc = pc /\ req'[i].res = req[i].res
  <2>1. req'[i] = [req[i] EXCEPT !.pc = pc] /\ \A j \in Requests \ {i} : req'[j] = req[j]  BY <1>1, Zenon DEF Goto, FilesType
  <2>2. [req[i] EXCEPT !.pc = pc] \in RequestType  BY <1>2 DEF RequestType
  <2>3. req' \in [Requests -> RequestType]  BY <1>1, <2>2, Zenon DEF Goto, FilesType
  <2> QED  BY <1>2, <2>1, <2>3 DEF RequestType
<1>4. OnlyOne(i)  BY <1>3, Zenon DEF OnlyOne
<1>5. SlotOK(i)'  BY <1>1, <1>3 DEF SlotOK, ObjSlots, Blobs
<1> QED  BY <1>3, <1>4, <1>5, Zenon

\* A request that changed the entry of its name and notes which change that was.
LEMMA Notes ==
    ASSUME FilesInv, NEW i \in Requests, NEW at \in Nat, UNCHANGED inode, load' = load,
           req' = [req EXCEPT ![i].pc = "dirsync", ![i].at = at]
    PROVE  /\ OnlyOne(i) /\ SlotOK(i)'
           /\ req'[i].m = req[i].m /\ req'[i].slot = req[i].slot /\ req'[i].at = at
           /\ req'[i].pc = "dirsync" /\ req'[i].res = req[i].res
<1>1. FilesType /\ SlotOK(i)  BY Zenon DEF FilesInv
<1> DEFINE mid == [req EXCEPT ![i].pc = "dirsync"]
<1>2. /\ mid \in [Requests -> RequestType] /\ mid[i].pc = "dirsync"
      /\ mid[i].m = req[i].m /\ mid[i].slot = req[i].slot /\ mid[i].res = req[i].res
      /\ \A j \in Requests \ {i} : mid[j] = req[j]
  <2>1. req \in [Requests -> RequestType] /\ req[i] \in RequestType  BY <1>1, Zenon DEF FilesType
  <2> QED  BY <2>1 DEF RequestType
<1>3. req' = [mid EXCEPT ![i].at = at]  BY Zenon
<1> HIDE DEF mid
<1>4. mid[i] \in RequestType  BY <1>2, Zenon
<1>5. /\ req' \in [Requests -> RequestType] /\ \A j \in Requests \ {i} : req'[j] = req[j]
      /\ req'[i].m = req[i].m /\ req'[i].slot = req[i].slot /\ req'[i].at = at
      /\ req'[i].pc = "dirsync" /\ req'[i].res = req[i].res
  <2>1. req'[i] = [mid[i] EXCEPT !.at = at] /\ \A j \in Requests \ {i} : req'[j] = req[j]  BY <1>2, <1>3, Zenon
  <2>2. [mid[i] EXCEPT !.at = at] \in RequestType  BY <1>4 DEF RequestType
  <2>3. req' \in [Requests -> RequestType]  BY <1>2, <1>3, <2>2, Zenon
  <2> QED  BY <1>2, <1>4, <2>1, <2>3 DEF RequestType
<1>6. OnlyOne(i)  BY <1>1, <1>5, Zenon DEF OnlyOne, FilesType
<1>7. SlotOK(i)'  BY <1>1, <1>5 DEF SlotOK, ObjSlots, Blobs
<1> QED  BY <1>5, <1>6, <1>7, Zenon

\* An answer that reports no change, with the directories as they were.
LEMMA Refused ==
    ASSUME FilesInv, NEW i \in Requests, NEW res \in {200, 404, 409, 500}, Respond(i, res),
           req[i].pc # "new", load' = load, UNCHANGED <<inode, dirent, onDisk>>
    PROVE  FilesInv'
<1>1. OnlyOne(i) /\ SlotOK(i)' /\ StepOK(i)'  BY Answered
<1>2. DirsMove(i)  BY <1>1, DirsSame
<1> QED  BY <1>1, <1>2, OneKeeps

\* A failed POST: the name is unlinked, whatever it is by then, and the answer
\* is 500; likewise the temporary name of a blob.
LEMMA Withdrawn ==
    ASSUME FilesInv, NEW i \in Requests, NEW s \in AllSlots, Link(One(s, 0)), NEW res \in {204, 500}, Respond(i, res),
           res = 204 => req[i].slot \notin ObjSlots, \A d \in Digests : s = Tmp(d) => dirent[s].ino \in {0, i},
           req[i].pc # "new", load' = load, UNCHANGED inode
    PROVE  FilesInv'
<1>1. OnlyOne(i) /\ SlotOK(i)' /\ StepOK(i)'  BY Answered
<1>2. 0 \in 0 .. MaxRequests  BY ApiFilesAssumption
<1>3. DirsMove(i)  BY <1>1, <1>2, LinkOne
<1> QED  BY <1>1, <1>3, OneKeeps

\* A request is parsed: it has its method and its name, and has done nothing.
LEMMA ArriveKeeps ==
    ASSUME FilesInv, NEW i \in Requests, Arrive(i), load' = load
    PROVE  FilesInv'
<1>1. FilesType  BY Zenon DEF FilesInv
<1> DEFINE SlotsFor(m) == CASE m \in {"GET", "PUT", "POST", "DELETE"} -> ObjSlots
                            [] m = "NEW" -> {<<"none", 0>>}
                            [] OTHER -> {Blob(d) : d \in Digests}
<1>a. PICK m \in load : \E s \in SlotsFor(m) :
           req' = [req EXCEPT ![i] = [NoRequest EXCEPT !.m = m, !.slot = s, !.pc = "start"]]
  BY Zenon DEF Arrive
<1>2. PICK s \in SlotsFor(m) : req' = [req EXCEPT ![i] = [NoRequest EXCEPT !.m = m, !.slot = s, !.pc = "start"]]
  BY <1>a, Zenon
<1>3. m \in Methods  BY <1>1, ApiFilesAssumption, Zenon DEF FilesType
<1>4. /\ s \in AllSlots \cup {<<"none", 0>>}
      /\ m \in {"GET", "PUT", "POST", "DELETE"} => s \in ObjSlots
      /\ m \in {"BLOBGET", "BLOBPOST", "BLOBDELETE"} => s \in Blobs
  <2>1. CASE m \in {"GET", "PUT", "POST", "DELETE"}  BY <2>1, <1>2, Names, Zenon
  <2>2. CASE m = "NEW"  BY <2>2, <1>2, Zenon
  <2>3. CASE m \in {"BLOBGET", "BLOBPOST", "BLOBDELETE"}
    <3>1. s \in Blobs  BY <2>3, <1>2, Zenon DEF Blobs
    <3> QED  BY <2>3, <3>1, Names
  <2> QED  BY <1>3, <2>1, <2>2, <2>3, Zenon DEF Methods
<1> DEFINE r == [m |-> m, slot |-> s, pc |-> "start", res |-> 0, at |-> 0, held |-> 0]
<1>5. [NoRequest EXCEPT !.m = m, !.slot = s, !.pc = "start"] = r
  <2> DEFINE a == [NoRequest EXCEPT !.m = m]  b == [a EXCEPT !.slot = s]
  <2>1. a = [m |-> m, slot |-> <<"none", 0>>, pc |-> "new", res |-> 0, at |-> 0, held |-> 0]  BY DEF NoRequest
  <2> HIDE DEF a
  <2>2. b = [m |-> m, slot |-> s, pc |-> "new", res |-> 0, at |-> 0, held |-> 0]  BY <2>1
  <2> HIDE DEF b
  <2>3. [b EXCEPT !.pc = "start"] = r  BY <2>2
  <2> QED  BY <2>3, Zenon DEF a, b
<1>6. r \in RequestType  BY <1>3, <1>4, ApiFilesAssumption DEF RequestType
<1> HIDE DEF r
<1>7. req' \in [Requests -> RequestType] /\ req'[i] = r /\ \A j \in Requests \ {i} : req'[j] = req[j]
  BY <1>1, <1>2, <1>5, <1>6, Zenon DEF FilesType
<1>8. OnlyOne(i)  BY <1>1, <1>7, Zenon DEF OnlyOne, FilesType, Arrive
<1>9. DirsMove(i)  BY <1>8, DirsSame, Zenon DEF Arrive
<1>10. r.m = m /\ r.slot = s /\ r.pc = "start" /\ r.res = 0  BY Zenon DEF r
<1>11. SlotOK(i)'  BY <1>4, <1>7, <1>10, Zenon DEF SlotOK, ObjSlots, Blobs
<1>12. StepOK(i)'  BY <1>7, <1>10 DEF StepOK
<1> QED  BY <1>8, <1>9, <1>11, <1>12, OneKeeps, Zenon

\* The temporary file of a PUT is written and fsynced before it gets a name.
LEMMA PutFillKeeps ==
    ASSUME FilesInv, NEW i \in Requests, PutFill(i), load' = load
    PROVE  FilesInv'
<1>1. FilesType /\ StepOK(i)  BY Zenon DEF FilesInv
<1>2. CASE inode' = [inode EXCEPT ![i] = Filled] /\ Goto(i, "rename")
  <2>1. /\ inode' \in [Requests -> [len : 0 .. 2, synced : BOOLEAN]] /\ inode'[i] = Filled
        /\ \A j \in Requests \ {i} : inode'[j] = inode[j]
    BY <1>1, <1>2 DEF FilesType, Filled
  <2>2. /\ OnlyOne(i) /\ SlotOK(i)'
        /\ req'[i].m = "PUT" /\ req'[i].pc = "rename" /\ req'[i].res = 0
    BY <1>1, <1>2, <2>1, GoesOn, Zenon DEF PutFill, StepOK
  <2>3. DirsMove(i)  BY <2>2, DirsSame, Zenon DEF PutFill
  <2>4. StepOK(i)'  BY <2>1, <2>2 DEF StepOK, Filled, Creates
  <2> QED  BY <2>2, <2>3, <2>4, OneKeeps, Zenon
<1>3. CASE Respond(i, 500) /\ UNCHANGED inode
  BY <1>3, Refused DEF PutFill
<1> QED  BY <1>2, <1>3, Zenon DEF PutFill

\* A name is given to a whole file, or taken away, and the request notes the
\* change it made (renameat of a PUT, unlinkat of a DELETE).
LEMMA Relinked ==
    ASSUME FilesInv, NEW i \in Requests, NEW w, req[i].pc \notin {"new", "done"}, req[i].m \in {"PUT", "DELETE"},
           w = IF req[i].m = "DELETE" THEN 0 ELSE i, req[i].m = "PUT" => inode[i] = Filled,
           Link(One(req[i].slot, w)), req' = [req EXCEPT ![i].pc = "dirsync", ![i].at = dirent[req[i].slot].at + 1],
           UNCHANGED inode, load' = load
    PROVE  FilesInv'
<1>1. FilesType /\ SlotOK(i) /\ StepOK(i)  BY Zenon DEF FilesInv
<1>2. PICK s : s = req[i].slot  BY Zenon
<1>3. s \in ObjSlots /\ s \in AllSlots /\ s \notin Blobs /\ \A d \in Digests : s # Tmp(d)
  BY <1>1, <1>2, Names, Zenon DEF SlotOK
<1>4. PICK at \in Nat : at = dirent[s].at + 1  BY <1>1, <1>3 DEF FilesType, Entry
<1>5. /\ OnlyOne(i) /\ SlotOK(i)'
      /\ req'[i].m = req[i].m /\ req'[i].slot = s /\ req'[i].at = at
      /\ req'[i].pc = "dirsync" /\ req'[i].res = 0
  <2>1. req' = [req EXCEPT ![i].pc = "dirsync", ![i].at = at]  BY <1>2, <1>4, Zenon
  <2>2. /\ OnlyOne(i) /\ SlotOK(i)'
        /\ req'[i].m = req[i].m /\ req'[i].slot = req[i].slot /\ req'[i].at = at
        /\ req'[i].pc = "dirsync" /\ req'[i].res = req[i].res
    BY <2>1, Notes, Zenon
  <2> QED  BY <1>1, <1>2, <2>2, Zenon DEF StepOK
<1>6. w # 0 => ObjFile(w, s)'
  <2>1. ASSUME w # 0 PROVE w = i /\ req'[i].m = "PUT" /\ inode'[i] = Filled  BY <1>5, <2>1
  <2> QED  BY <1>5, <2>1, Zenon DEF ObjFile, Named, Filled, Requests
<1>7. w \in 0 .. MaxRequests  BY ApiFilesAssumption DEF Requests
<1>8. Link(One(s, w))  BY <1>2, Zenon
<1>9. DirsMove(i) /\ dirent'[s].ino = w /\ dirent'[s].at = dirent[s].at + 1
  BY <1>3, <1>5, <1>6, <1>7, <1>8, LinkOne
<1>10. StepOK(i)'
  <2>1. Holds(dirent'[s], req'[i], i)  BY <1>4, <1>5, <1>9 DEF Holds
  <2> QED  BY <1>3, <1>5, <2>1, Zenon DEF StepOK, Mutators, Creates, ObjSlots, Filled
<1> QED  BY <1>5, <1>9, <1>10, OneKeeps, Zenon

\* renameat gives a whole file to the final name of a PUT.
LEMMA PutRenameKeeps ==
    ASSUME FilesInv, NEW i \in Requests, PutRename(i), load' = load
    PROVE  FilesInv'
<1>1. req[i].m = "PUT" /\ req[i].pc = "rename" /\ UNCHANGED inode  BY Zenon DEF PutRename
<1>2. inode[i] = Filled  BY <1>1, Zenon DEF FilesInv, StepOK
<1>3. CASE /\ Link(One(req[i].slot, i))
           /\ req' = [req EXCEPT ![i].pc = "dirsync", ![i].at = dirent[req[i].slot].at + 1]
  BY <1>1, <1>2, <1>3, Relinked, Zenon
<1>4. CASE Respond(i, 500) /\ UNCHANGED <<dirent, onDisk>>
  BY <1>1, <1>4, Refused
<1> QED  BY <1>3, <1>4, Zenon DEF PutRename

\* unlinkat of a DELETE.
LEMMA UnlinkKeeps ==
    ASSUME FilesInv, NEW i \in Requests, Unlink(i), load' = load
    PROVE  FilesInv'
<1>1. req[i].m = "DELETE" /\ req[i].pc = "start" /\ UNCHANGED inode  BY Zenon DEF Unlink
<1>2. CASE /\ Link(One(req[i].slot, 0))
           /\ req' = [req EXCEPT ![i].pc = "dirsync", ![i].at = dirent[req[i].slot].at + 1]
  BY <1>1, <1>2, Relinked, Zenon
<1>3. CASE (Respond(i, 404) \/ Respond(i, 500)) /\ UNCHANGED <<dirent, onDisk>>
  BY <1>1, <1>3, Refused
<1> QED  BY <1>2, <1>3 DEF Unlink

\* open with O_CREAT and O_EXCL: the name of a POST is there before its body.
LEMMA CreateKeeps ==
    ASSUME FilesInv, NEW i \in Requests, req[i].m \in Creates, req[i].pc = "start", NEW s \in ObjSlots, Create(i, s),
           UNCHANGED inode, load' = load
    PROVE  FilesInv'
<1>1. FilesType /\ SlotOK(i) /\ StepOK(i)  BY Zenon DEF FilesInv
<1>2. s \in AllSlots /\ s \notin Blobs /\ \A d \in Digests : s # Tmp(d)  BY Names, Zenon
<1>3. PICK at \in Nat : at = dirent[s].at + 1  BY <1>1, <1>2 DEF FilesType, Entry
<1> DEFINE a == [req EXCEPT ![i].pc = "write"]  b == [a EXCEPT ![i].slot = s]
<1>4. /\ a \in [Requests -> RequestType] /\ \A j \in Requests \ {i} : a[j] = req[j]
      /\ a[i].pc = "write" /\ a[i].m = req[i].m /\ a[i].res = req[i].res
  <2>1. req \in [Requests -> RequestType] /\ req[i] \in RequestType  BY <1>1, Zenon DEF FilesType
  <2> QED  BY <2>1 DEF RequestType
<1>5. req' = [b EXCEPT ![i].at = at]  BY <1>3, Zenon DEF Create
<1> HIDE DEF a
<1>6. /\ b \in [Requests -> RequestType] /\ \A j \in Requests \ {i} : b[j] = req[j]
      /\ b[i].pc = "write" /\ b[i].m = req[i].m /\ b[i].res = req[i].res /\ b[i].slot = s
  <2>1. a[i] \in RequestType  BY <1>4, Zenon
  <2>2. [a[i] EXCEPT !.slot = s] \in RequestType  BY <2>1, <1>2 DEF RequestType
  <2> QED  BY <1>4, <2>1, <2>2 DEF RequestType
<1> HIDE DEF b
<1>7. /\ req' \in [Requests -> RequestType] /\ \A j \in Requests \ {i} : req'[j] = req[j]
      /\ req'[i].pc = "write" /\ req'[i].m = req[i].m /\ req'[i].res = 0 /\ req'[i].slot = s /\ req'[i].at = at
  <2>1. b[i] \in RequestType  BY <1>6, Zenon
  <2>2. [b[i] EXCEPT !.at = at] \in RequestType  BY <2>1 DEF RequestType
  <2>3. req' \in [Requests -> RequestType] /\ req'[i] = [b[i] EXCEPT !.at = at]  BY <1>5, <1>6, <2>2, Zenon
  <2>4. req[i].res = 0  BY <1>1, Zenon DEF StepOK
  <2> QED  BY <1>5, <1>6, <2>1, <2>3, <2>4 DEF RequestType
<1>8. OnlyOne(i)  BY <1>1, <1>7, Zenon DEF OnlyOne, FilesType
<1>9. SlotOK(i)'  BY <1>7, Zenon DEF SlotOK, ObjSlots, Creates
<1>10. ObjFile(i, s)'  BY <1>7, Zenon DEF ObjFile, Named, Creates, Requests
<1>11. i \in 0 .. MaxRequests  BY DEF Requests
<1>12. DirsMove(i) /\ dirent'[s].ino = i /\ dirent'[s].at = dirent[s].at + 1
  BY <1>2, <1>8, <1>10, <1>11, LinkOne, Zenon DEF Create
<1>13. StepOK(i)'
  <2>1. Holds(dirent'[s], req'[i], i)  BY <1>3, <1>7, <1>12, Zenon DEF Holds, Creates
  <2> QED  BY <1>7, <2>1 DEF StepOK, Creates, ObjSlots
<1> QED  BY <1>8, <1>9, <1>12, <1>13, OneKeeps, Zenon

\* The name of a POST is created, or the answer is 409 or 500.
LEMMA PostOpenKeeps ==
    ASSUME FilesInv, NEW i \in Requests, PostOpen(i) \/ PostNew(i), load' = load
    PROVE  FilesInv'
<1>1. req[i].m \in Creates /\ req[i].pc = "start" /\ UNCHANGED inode  BY Zenon DEF PostOpen, PostNew, Creates
<1>2. CASE req[i].m = "POST" /\ Create(i, req[i].slot)
  <2>1. PICK s : s = req[i].slot  BY Zenon
  <2>2. s \in ObjSlots  BY <1>2, <2>1, Zenon DEF FilesInv, SlotOK
  <2>3. Create(i, s)  BY <1>2, <2>1
  <2> QED  BY <1>1, <2>1, <2>2, <2>3, CreateKeeps, Zenon
<1>3. CASE req[i].m = "NEW" /\ \E s \in ObjSlots : Create(i, s)
  BY <1>1, <1>3, CreateKeeps, Zenon
<1>4. CASE (Respond(i, 409) \/ Respond(i, 500)) /\ UNCHANGED <<dirent, onDisk>>
  BY <1>1, <1>4, Refused
<1> QED  BY <1>2, <1>3, <1>4, Zenon DEF PostOpen, PostNew

\* write_all_fd of a POST: more of the body is in the file its name shows.
LEMMA PostWriteKeeps ==
    ASSUME FilesInv, NEW i \in Requests, PostWrite(i), load' = load
    PROVE  FilesInv'
<1>1. FilesType /\ SlotOK(i) /\ StepOK(i)  BY Zenon DEF FilesInv
<1>2. /\ req[i].m \in Creates /\ req[i].pc = "write" /\ req[i].res = 0
      /\ req[i].slot \in ObjSlots /\ Holds(dirent[req[i].slot], req[i], i)
  BY <1>1, Zenon DEF PostWrite, StepOK
<1>3. CASE /\ \E n \in {1, 2} : n > inode[i].len /\ inode' = [inode EXCEPT ![i].len = n]
           /\ Goto(i, IF inode'[i].len = 2 THEN "fsync" ELSE "write")
           /\ UNCHANGED <<dirent, onDisk>>
  <2>1. PICK n \in {1, 2} : n > inode[i].len /\ inode' = [inode EXCEPT ![i].len = n]  BY <1>3, Zenon
  <2>2. inode[i] \in [len : 0 .. 2, synced : BOOLEAN]  BY <1>1, Zenon DEF FilesType
  <2>3. /\ inode' \in [Requests -> [len : 0 .. 2, synced : BOOLEAN]] /\ inode'[i].len = n
        /\ \A j \in Requests \ {i} : inode'[j] = inode[j]
    BY <1>1, <2>1, <2>2 DEF FilesType
  <2>4. inode[i] # Filled  BY <2>1, <2>2 DEF Filled
  <2>5. PICK pc \in {"write", "fsync"} : Goto(i, pc) /\ (pc = "fsync" => inode'[i].len = 2)
    <3>1. CASE inode'[i].len = 2  BY <1>3, <3>1, Zenon
    <3>2. CASE inode'[i].len # 2  BY <1>3, <3>2
    <3> QED  BY <3>1, <3>2, Zenon
  <2>6. /\ OnlyOne(i) /\ SlotOK(i)'
        /\ req'[i].m = req[i].m /\ req'[i].slot = req[i].slot /\ req'[i].at = req[i].at
        /\ req'[i].pc = pc /\ req'[i].res = req[i].res
    BY <2>3, <2>4, <2>5, GoesOn, Zenon
  <2>7. DirsMove(i)  BY <1>3, <2>6, DirsSame, Zenon
  <2>8. StepOK(i)'
    <3>1. Holds(dirent'[req'[i].slot], req'[i], i)  BY <1>2, <1>3, <2>6, Zenon DEF Holds
    <3> QED  BY <1>2, <2>5, <2>6, <3>1 DEF StepOK, Creates, ObjSlots
  <2> QED  BY <2>6, <2>7, <2>8, OneKeeps, Zenon
<1>4. CASE Link(One(req[i].slot, 0)) /\ Respond(i, 500) /\ UNCHANGED inode
  <2>1. PICK s : s = req[i].slot  BY Zenon
  <2>2. s \in AllSlots /\ (\A d \in Digests : s # Tmp(d)) /\ Link(One(s, 0))  BY <1>2, <1>4, <2>1, Names, Zenon
  <2> QED  BY <1>2, <1>4, <2>2, Withdrawn
<1> QED  BY <1>3, <1>4, Zenon DEF PostWrite

\* fsync of the whole file of a POST.
LEMMA PostSyncKeeps ==
    ASSUME FilesInv, NEW i \in Requests, PostSync(i), load' = load
    PROVE  FilesInv'
<1>1. FilesType /\ SlotOK(i) /\ StepOK(i)  BY Zenon DEF FilesInv
<1>2. /\ req[i].m \in Creates /\ req[i].pc = "fsync" /\ req[i].res = 0 /\ inode[i].len = 2
      /\ req[i].slot \in ObjSlots /\ Holds(dirent[req[i].slot], req[i], i)
  BY <1>1, Zenon DEF PostSync, StepOK
<1>3. CASE /\ inode' = [inode EXCEPT ![i].synced = TRUE] /\ Goto(i, "dirsync")
           /\ UNCHANGED <<dirent, onDisk>>
  <2>1. inode[i] \in [len : 0 .. 2, synced : BOOLEAN]  BY <1>1, Zenon DEF FilesType
  <2>2. /\ inode' \in [Requests -> [len : 0 .. 2, synced : BOOLEAN]] /\ inode'[i] = Filled
        /\ \A j \in Requests \ {i} : inode'[j] = inode[j]
    <3>1. [inode[i] EXCEPT !.synced = TRUE] = Filled
      <4> DEFINE f == [inode[i] EXCEPT !.synced = TRUE]
      <4>1. f \in [len : 0 .. 2, synced : BOOLEAN]  BY <2>1, Zenon
      <4>2. f.len = 2  BY <1>2, <2>1, Zenon
      <4>3. f.synced = TRUE  BY <2>1, Zenon
      <4> HIDE DEF f
      <4>4. f = [len |-> f.len, synced |-> f.synced]  BY <4>1
      <4>5. f = Filled  BY <4>2, <4>3, <4>4, Zenon DEF Filled
      <4> QED  BY <4>5, Zenon DEF f
    <3>2. Filled \in [len : 0 .. 2, synced : BOOLEAN]  BY DEF Filled
    <3> QED  BY <1>1, <1>3, <3>1, <3>2, Zenon DEF FilesType
  <2>3. /\ OnlyOne(i) /\ SlotOK(i)'
        /\ req'[i].m = req[i].m /\ req'[i].slot = req[i].slot /\ req'[i].at = req[i].at
        /\ req'[i].pc = "dirsync" /\ req'[i].res = req[i].res
    BY <1>3, <2>2, GoesOn, Zenon
  <2>4. DirsMove(i)  BY <1>3, <2>3, DirsSame, Zenon
  <2>5. StepOK(i)'
    <3>1. Holds(dirent'[req'[i].slot], req'[i], i)  BY <1>2, <1>3, <2>3, Zenon DEF Holds
    <3> QED  BY <1>2, <2>2, <2>3, <3>1 DEF StepOK, Creates, Mutators, ObjSlots, Filled
  <2> QED  BY <2>3, <2>4, <2>5, OneKeeps, Zenon
<1>4. CASE Link(One(req[i].slot, 0)) /\ Respond(i, 500) /\ UNCHANGED inode
  <2>1. PICK s : s = req[i].slot  BY Zenon
  <2>2. s \in AllSlots /\ (\A d \in Digests : s # Tmp(d)) /\ Link(One(s, 0))  BY <1>2, <1>4, <2>1, Names, Zenon
  <2> QED  BY <1>2, <1>4, <2>2, Withdrawn
<1> QED  BY <1>3, <1>4, Zenon DEF PostSync

\* fsync of the directory, and the answer 201 or 204: from here on every version
\* of the directory on disk holds the change.
LEMMA SyncAndRespondKeeps ==
    ASSUME FilesInv, NEW i \in Requests, SyncAndRespond(i), load' = load
    PROVE  FilesInv'
<1>1. FilesType /\ SlotOK(i) /\ StepOK(i)  BY Zenon DEF FilesInv
<1>2. /\ req[i].pc = "dirsync" /\ req[i].m \in Mutators
      /\ req[i].slot \in ObjSlots /\ Holds(dirent[req[i].slot], req[i], i)
      /\ req[i].m # "DELETE" => inode[i] = Filled
      /\ UNCHANGED <<inode, dirent>>
  BY <1>1, Zenon DEF SyncAndRespond, StepOK
<1>3. CASE SyncDir /\ Respond(i, IF req[i].m \in Creates THEN 201 ELSE 204)
  <2>1. PICK res \in {201, 204} : Respond(i, res)
    <3>1. CASE req[i].m \in Creates  BY <1>3, <3>1, Zenon
    <3>2. CASE req[i].m \notin Creates  BY <1>3, <3>2
    <3> QED  BY <3>1, <3>2, Zenon
  <2>2. /\ OnlyOne(i) /\ SlotOK(i)'
        /\ req'[i].m = req[i].m /\ req'[i].slot = req[i].slot /\ req'[i].at = req[i].at
        /\ req'[i].pc = "done" /\ req'[i].res = res
    BY <1>2, <2>1, Answered
  <2>3. DirsMove(i) /\ onDisk'.obj = {Restricted(dirent, ObjSlots)}  BY <1>2, <1>3, <2>2, SyncMoves, Zenon
  <2>4. StepOK(i)'
    <3>1. \A d \in onDisk'.obj : d[req[i].slot] = dirent[req[i].slot]  BY <1>2, <2>3 DEF Restricted
    <3>2. \A d \in onDisk'.obj : Holds(d[req'[i].slot], req'[i], i)  BY <1>2, <2>2, <3>1 DEF Holds
    <3> QED  BY <1>2, <2>2, <3>2, Zenon DEF StepOK, Mutators, ObjSlots, Filled
  <2> QED  BY <2>2, <2>3, <2>4, OneKeeps, Zenon
<1>4. CASE Respond(i, 500) /\ UNCHANGED onDisk
  BY <1>2, <1>4, Refused
<1> QED  BY <1>3, <1>4, Zenon DEF SyncAndRespond

\* fstatat of a blob, and its temporary name opened with O_EXCL: until the
\* rename the name is this request's.
LEMMA BlobStatKeeps ==
    ASSUME FilesInv, NEW i \in Requests, BlobStat(i), load' = load
    PROVE  FilesInv'
<1>1. FilesType /\ SlotOK(i) /\ StepOK(i)  BY Zenon DEF FilesInv
<1>2. req[i].m = "BLOBPOST" /\ req[i].pc = "start" /\ UNCHANGED <<inode, dirent, onDisk>> /\ req[i].slot \notin ObjSlots
  BY <1>1, Names, Zenon DEF BlobStat, SlotOK
<1>3. CASE Respond(i, 201)
  <2>1. OnlyOne(i) /\ SlotOK(i)' /\ StepOK(i)'  BY <1>2, <1>3, Answered
  <2>2. DirsMove(i)  BY <1>2, <2>1, DirsSame
  <2> QED  BY <2>1, <2>2, OneKeeps, Zenon
<1>4. CASE Goto(i, "open")
  <2>1. /\ OnlyOne(i) /\ SlotOK(i)'
        /\ req'[i].m = req[i].m /\ req'[i].pc = "open" /\ req'[i].res = req[i].res
    BY <1>1, <1>2, <1>4, GoesOn, Zenon DEF FilesType
  <2>2. DirsMove(i)  BY <1>2, <2>1, DirsSame
  <2>3. StepOK(i)'  BY <1>1, <1>2, <2>1, Zenon DEF StepOK
  <2> QED  BY <2>1, <2>2, <2>3, OneKeeps
<1> QED  BY <1>3, <1>4, Zenon DEF BlobStat

\* The temporary name of a blob.
LEMMA TmpSlot ==
    ASSUME FilesInv, NEW i \in Requests, req[i].m = "BLOBPOST"
    PROVE  /\ req[i].slot \in Blobs /\ req[i].slot \notin ObjSlots /\ req[i].slot \in AllSlots
           /\ req[i].slot[2] \in Digests /\ Tmp(req[i].slot[2]) \in AllSlots
           /\ Tmp(req[i].slot[2]) \notin Blobs /\ Tmp(req[i].slot[2]) \notin ObjSlots
  BY Names, Zenon DEF FilesInv, SlotOK

\* The temporary name is created, and is this request's from then on.
LEMMA BlobOpenKeeps ==
    ASSUME FilesInv, NEW i \in Requests, BlobOpen(i), load' = load
    PROVE  FilesInv'
<1>1. FilesType /\ StepOK(i)  BY DEF FilesInv
<1>2. req[i].m = "BLOBPOST" /\ req[i].pc = "open" /\ req[i].res = 0 /\ UNCHANGED inode  BY <1>1, Zenon DEF BlobOpen, StepOK
<1>3. PICK tmp : tmp = Tmp(req[i].slot[2])  BY Zenon
<1>4. tmp \in AllSlots /\ tmp \notin Blobs /\ tmp \notin ObjSlots  BY <1>2, <1>3, TmpSlot, Zenon
<1>5. CASE ~Exists(tmp) /\ Link(One(tmp, i)) /\ Goto(i, "write")
  <2>1. /\ OnlyOne(i) /\ SlotOK(i)'
        /\ req'[i].m = req[i].m /\ req'[i].slot = req[i].slot /\ req'[i].pc = "write" /\ req'[i].res = req[i].res
    BY <1>1, <1>2, <1>5, GoesOn, Zenon DEF FilesType
  <2>2. i \in 0 .. MaxRequests  BY DEF Requests
  <2>3. dirent[tmp].ino \in {0, i}  BY <1>5 DEF Exists
  <2>4. DirsMove(i) /\ dirent'[tmp].ino = i  BY <1>4, <1>5, <2>1, <2>2, <2>3, LinkOne, Zenon
  <2>5. StepOK(i)'  BY <1>2, <1>3, <2>1, <2>4, Zenon DEF StepOK, Creates, Tmp
  <2> QED  BY <2>1, <2>4, <2>5, OneKeeps, Zenon
<1>6. CASE Respond(i, 500) /\ UNCHANGED <<dirent, onDisk>>
  BY <1>2, <1>6, Refused
<1> QED  BY <1>3, <1>5, <1>6, Zenon DEF BlobOpen

\* The body of a blob is written and fsynced under its temporary name.
LEMMA BlobFillKeeps ==
    ASSUME FilesInv, NEW i \in Requests, BlobFill(i), load' = load
    PROVE  FilesInv'
<1>1. FilesType /\ StepOK(i)  BY Zenon DEF FilesInv
<1>2. PICK tmp : tmp = Tmp(req[i].slot[2])  BY Zenon
<1>3. /\ req[i].m = "BLOBPOST" /\ req[i].pc = "write" /\ req[i].res = 0
      /\ dirent[tmp].ino = i /\ tmp \in AllSlots /\ tmp \notin Blobs
  BY <1>1, <1>2, TmpSlot, Zenon DEF BlobFill, StepOK
<1>4. CASE inode' = [inode EXCEPT ![i] = Filled] /\ Goto(i, "rename") /\ UNCHANGED <<dirent, onDisk>>
  <2>1. /\ inode' \in [Requests -> [len : 0 .. 2, synced : BOOLEAN]] /\ inode'[i] = Filled
        /\ \A j \in Requests \ {i} : inode'[j] = inode[j]
    BY <1>1, <1>4 DEF FilesType, Filled
  <2>2. /\ OnlyOne(i) /\ SlotOK(i)'
        /\ req'[i].m = req[i].m /\ req'[i].slot = req[i].slot /\ req'[i].pc = "rename" /\ req'[i].res = req[i].res
    BY <1>4, <2>1, GoesOn, Zenon
  <2>3. DirsMove(i)  BY <1>4, <2>2, DirsSame
  <2>4. StepOK(i)'  BY <1>2, <1>3, <1>4, <2>1, <2>2, Zenon DEF StepOK, Creates, Tmp, Filled
  <2> QED  BY <2>2, <2>3, <2>4, OneKeeps, Zenon
<1>5. CASE Link(One(tmp, 0)) /\ Respond(i, 500) /\ UNCHANGED inode
  BY <1>3, <1>5, Withdrawn
<1> QED  BY <1>2, <1>4, <1>5, Zenon DEF BlobFill

\* renameat of the temporary name, which is still this request's, to the digest.
LEMMA BlobRenameKeeps ==
    ASSUME FilesInv, NEW i \in Requests, BlobRename(i), load' = load
    PROVE  FilesInv'
<1>1. FilesType /\ StepOK(i)  BY Zenon DEF FilesInv
<1>2. PICK tmp, s : tmp = Tmp(req[i].slot[2]) /\ s = req[i].slot  BY Zenon
<1>3. /\ req[i].m = "BLOBPOST" /\ req[i].pc = "rename" /\ inode[i] = Filled /\ UNCHANGED inode
      /\ dirent[tmp].ino = i /\ tmp \in AllSlots /\ tmp \notin Blobs /\ tmp \notin ObjSlots
      /\ s \in Blobs /\ s \in AllSlots /\ s \notin ObjSlots
  BY <1>1, <1>2, TmpSlot, Zenon DEF BlobRename, StepOK
<1>4. CASE Link([x \in {tmp, s} |-> IF x = tmp THEN 0 ELSE dirent[tmp].ino]) /\ Respond(i, 201)
  <2>1. /\ OnlyOne(i) /\ SlotOK(i)' /\ StepOK(i)'
        /\ req'[i].m = req[i].m /\ req'[i].slot = req[i].slot /\ req'[i].pc = "done"
    BY <1>2, <1>3, <1>4, Answered
  <2>2. PICK upd : upd = [x \in {tmp, s} |-> IF x = tmp THEN 0 ELSE i]  BY Zenon
  <2>3. tmp # s /\ DOMAIN upd = {tmp, s} /\ upd[tmp] = 0 /\ upd[s] = i  BY <1>3, <2>2, Zenon
  <2>4. Link(upd)  BY <1>3, <1>4, <2>2, Zenon
  <2>5. BlobFile(i, s)'  BY <1>2, <1>3, <2>1, Zenon DEF BlobFile, Named, Filled, Requests
  <2>6. /\ DOMAIN upd \subseteq AllSlots
        /\ \A x \in DOMAIN upd : upd[x] \in 0 .. MaxRequests
    BY <1>3, <2>3, ApiFilesAssumption DEF Requests
  <2>7. \A x \in DOMAIN upd \cap ObjSlots : upd[x] # 0 => ObjFile(upd[x], x)'  BY <1>3, <2>3, Zenon
  <2>8. \A x \in DOMAIN upd \cap Blobs : upd[x] # 0 => BlobFile(upd[x], x)'  BY <1>3, <2>3, <2>5, Zenon
  <2>9. \A d \in Digests : Tmp(d) \in DOMAIN upd => dirent[Tmp(d)].ino \in {0, i}  BY <1>3, <2>3, Names, Zenon
  <2>10. DirsMove(i)  BY <2>1, <2>4, <2>6, <2>7, <2>8, <2>9, LinkMoves
  <2> QED  BY <2>1, <2>10, OneKeeps, Zenon
<1>5. CASE Link(One(tmp, 0)) /\ Respond(i, 500)
  BY <1>3, <1>5, Withdrawn
<1> QED  BY <1>2, <1>4, <1>5, Zenon DEF BlobRename

\* unlinkat of a blob.
LEMMA BlobDeleteKeeps ==
    ASSUME FilesInv, NEW i \in Requests, BlobDelete(i), load' = load
    PROVE  FilesInv'
<1>1. PICK s : s = req[i].slot  BY Zenon
<1>2. /\ req[i].pc = "start" /\ UNCHANGED inode
      /\ s \in AllSlots /\ s \notin ObjSlots /\ \A d \in Digests : s # Tmp(d)
  BY <1>1, Names, Zenon DEF BlobDelete, FilesInv, SlotOK
<1>3. CASE Link(One(s, 0)) /\ Respond(i, 204)
  BY <1>1, <1>2, <1>3, Withdrawn
<1>4. CASE Respond(i, 404) /\ UNCHANGED <<dirent, onDisk>>
  BY <1>2, <1>4, Refused
<1> QED  BY <1>1, <1>3, <1>4, Zenon DEF BlobDelete

\* A read holds the file its name had when it was opened.
LEMMA ReadOpenKeeps ==
    ASSUME FilesInv, NEW i \in Requests, ReadOpen(i), load' = load
    PROVE  FilesInv'
<1>1. FilesType /\ NamesOK /\ SlotOK(i) /\ StepOK(i)  BY Zenon DEF FilesInv
<1>2. req[i].m \in Reads /\ req[i].pc = "start" /\ req[i].res = 0 /\ UNCHANGED <<inode, dirent, onDisk>>
  BY <1>1, Zenon DEF ReadOpen, StepOK
<1>3. PICK s, w : s = req[i].slot /\ w = dirent[s].ino  BY Zenon
<1>4. CASE Exists(s) /\ req' = [req EXCEPT ![i].pc = "read", ![i].held = w]
  <2>1. w \in 0 .. MaxRequests /\ w # 0
    <3>1. s \in AllSlots  BY <1>1, <1>2, <1>3, Names DEF SlotOK, Reads
    <3> QED  BY <1>1, <1>3, <1>4, <3>1, Zenon DEF FilesType, Entry, Exists
  <2> DEFINE mid == [req EXCEPT ![i].pc = "read"]
  <2>2. /\ mid \in [Requests -> RequestType] /\ mid[i].pc = "read"
        /\ mid[i].m = req[i].m /\ mid[i].slot = s /\ mid[i].res = 0
        /\ \A j \in Requests \ {i} : mid[j] = req[j]
    <3>1. req \in [Requests -> RequestType] /\ req[i] \in RequestType  BY <1>1, Zenon DEF FilesType
    <3> QED  BY <1>2, <1>3, <3>1 DEF RequestType
  <2>3. req' = [mid EXCEPT ![i].held = w]  BY <1>4, Zenon
  <2> HIDE DEF mid
  <2>4. /\ req' \in [Requests -> RequestType] /\ \A j \in Requests \ {i} : req'[j] = req[j]
        /\ req'[i].m = req[i].m /\ req'[i].slot = s /\ req'[i].pc = "read" /\ req'[i].res = 0 /\ req'[i].held = w
    <3>1. mid[i] \in RequestType  BY <2>2, Zenon
    <3>2. [mid[i] EXCEPT !.held = w] \in RequestType  BY <2>1, <3>1 DEF RequestType
    <3>3. req' \in [Requests -> RequestType] /\ req'[i] = [mid[i] EXCEPT !.held = w]  BY <2>2, <2>3, <3>2, Zenon
    <3> QED  BY <2>2, <2>3, <3>1, <3>3 DEF RequestType
  <2>5. OnlyOne(i)  BY <1>1, <1>2, <2>4, Zenon DEF OnlyOne, FilesType
  <2>6. SlotOK(i)'  BY <1>1, <1>3, <2>4, Zenon DEF SlotOK, ObjSlots, Blobs
  <2>7. DirsMove(i)  BY <1>2, <2>5, DirsSame, Zenon
  <2>8. \/ req[i].m = "GET" /\ ObjFile(w, s)
        \/ req[i].m = "BLOBGET" /\ BlobFile(w, s)
    <3>1. CASE req[i].m = "GET"
      <4>1. s \in ObjSlots  BY <1>1, <1>3, <3>1, Zenon DEF SlotOK
      <4>2. Restricted(dirent, ObjSlots)[s].ino = w  BY <1>3, <4>1 DEF Restricted
      <4> QED  BY <1>1, <2>1, <3>1, <4>1, <4>2, Zenon DEF NamesOK
    <3>2. CASE req[i].m = "BLOBGET"
      <4>1. s \in Blobs /\ s \in BlobSlots  BY <1>1, <1>3, <3>2, Names, Zenon DEF SlotOK
      <4>2. Restricted(dirent, BlobSlots)[s].ino = w  BY <1>3, <4>1, Zenon DEF Restricted
      <4> QED  BY <1>1, <2>1, <3>2, <4>1, <4>2 DEF NamesOK
    <3> QED  BY <1>2, <3>1, <3>2, Zenon DEF Reads
  <2>9. StepOK(i)'
    <3>1. (ObjFile(w, s) => ObjFile(w, s)') /\ (BlobFile(w, s) => BlobFile(w, s)')  BY <2>5, FilesStay, Zenon
    <3>2. req[i].m \notin Creates  BY <1>2 DEF Reads, Creates
    <3> QED  BY <2>4, <2>8, <3>1, <3>2, Zenon DEF StepOK
  <2> QED  BY <2>5, <2>6, <2>7, <2>9, OneKeeps, Zenon
<1>5. CASE Respond(i, 404) \/ Respond(i, 500)
  BY <1>2, <1>5, Refused
<1> QED  BY <1>3, <1>4, <1>5 DEF ReadOpen

-----------------------------------------------------------------------------
(* Crashes and power cuts.                                                 *)

\* A restart finds the directories of some version the disk may hold, without the
\* temporary names if the process id is another.
LEMMA RebootDirs ==
    ASSUME FilesType, NEW objects \in [ObjSlots -> Entry], NEW blobs \in [BlobSlots -> Entry], Rebooted(objects, blobs)
    PROVE  /\ dirent' \in [AllSlots -> Entry]
           /\ Restricted(dirent', ObjSlots) = objects
           /\ Restricted(dirent', BlobSlots) \in [BlobSlots -> Entry]
           /\ \A s \in Blobs : dirent'[s] = blobs[s]
<1>1. PICK found : /\ found \in {blobs, NewPid(blobs)}
                   /\ dirent' = [s \in DOMAIN dirent |-> IF s \in ObjSlots THEN objects[s] ELSE found[s]]
  <2>1. PICK samePid \in BOOLEAN :
           dirent' = [s \in DOMAIN dirent |-> IF s \in ObjSlots THEN objects[s]
                                              ELSE (IF samePid THEN blobs ELSE NewPid(blobs))[s]]
    BY Zenon DEF Rebooted
  <2>2. CASE samePid = TRUE  BY <2>1, <2>2, Zenon
  <2>3. CASE samePid = FALSE  BY <2>1, <2>3
  <2> QED  BY <2>2, <2>3, Zenon
<1>2. found \in [BlobSlots -> Entry] /\ \A s \in Blobs : found[s] = blobs[s]
  <2>1. CASE found = blobs  BY <2>1, Zenon
  <2>2. CASE found = NewPid(blobs)
    <3>1. found = [s \in BlobSlots |-> IF s[1] = "tmp" THEN NoName ELSE blobs[s]]  BY <2>2, Zenon DEF NewPid
    <3>2. NoName \in Entry  BY ApiFilesAssumption DEF NoName, Entry
    <3>3. \A s \in Blobs : s[1] # "tmp" /\ s \in BlobSlots  BY Names DEF Blobs, Blob
    <3> QED  BY <3>1, <3>2, <3>3
  <2> QED  BY <1>1, <2>1, <2>2, Zenon
<1>3. dirent' = [s \in AllSlots |-> IF s \in ObjSlots THEN objects[s] ELSE found[s]]  BY <1>1, Zenon DEF FilesType
<1>4. Restricted(dirent', BlobSlots) \in [BlobSlots -> Entry]  BY <1>2, <1>3, Names, Zenon DEF Restricted
<1>5. dirent' \in [AllSlots -> Entry]  BY <1>2, <1>3, Zenon DEF AllSlots
<1>6. Restricted(dirent', ObjSlots) = objects
  <2>1. Restricted(dirent', ObjSlots) = [s \in ObjSlots |-> objects[s]]  BY <1>3, Names DEF Restricted
  <2> QED  BY <2>1, Zenon
<1>7. \A s \in Blobs : dirent'[s] = blobs[s]  BY <1>2, <1>3, Names
<1> QED  BY <1>4, <1>5, <1>6, <1>7, Zenon

\* A restart on some version of the directories: requests in flight are lost,
\* and a file somebody could name is found as it was.
LEMMA RebootKeeps ==
    ASSUME FilesInv, NEW objects \in onDisk.obj, NEW blobs \in onDisk.blob, Rebooted(objects, blobs), load' = load,
           inode' \in [Requests -> [len : 0 .. 2, synced : BOOLEAN]],
           \A w \in Requests : req[w].pc # "new" /\ inode[w] = Filled => inode'[w] = Filled,
           onDisk' \in [obj : SUBSET [ObjSlots -> Entry], blob : SUBSET [BlobSlots -> Entry]],
           onDisk'.obj \subseteq onDisk.obj \cup {Restricted(dirent', ObjSlots)}, Restricted(dirent', ObjSlots) \in onDisk'.obj,
           onDisk'.blob \subseteq onDisk.blob \cup {Restricted(dirent', BlobSlots)}, Restricted(dirent', BlobSlots) \in onDisk'.blob
    PROVE  FilesInv'
<1>1. FilesType /\ NamesOK  BY Zenon DEF FilesInv
<1>2. /\ req' \in [Requests -> RequestType]
      /\ \A j \in Requests : /\ req'[j].m = req[j].m /\ req'[j].slot = req[j].slot /\ req'[j].res = req[j].res /\ req'[j].at = req[j].at
                             /\ req[j].pc \in {"new", "done", "lost"} => req'[j].pc = req[j].pc
                             /\ req[j].pc \notin {"new", "done", "lost"} => req'[j].pc = "lost"
  <2>1. req' = [j \in Requests |-> IF j \in Busy THEN [req[j] EXCEPT !.pc = "lost", !.held = 0] ELSE req[j]]
    BY Zenon DEF Rebooted
  <2>2. ASSUME NEW j \in Requests
        PROVE  /\ req'[j] \in RequestType
               /\ req'[j].m = req[j].m /\ req'[j].slot = req[j].slot /\ req'[j].res = req[j].res /\ req'[j].at = req[j].at
               /\ req[j].pc \in {"new", "done", "lost"} => req'[j].pc = req[j].pc
               /\ req[j].pc \notin {"new", "done", "lost"} => req'[j].pc = "lost"
    <3>1. req[j] \in RequestType  BY <1>1, Zenon DEF FilesType
    <3>2. CASE j \in Busy
      <4> DEFINE a == [req[j] EXCEPT !.pc = "lost"]
      <4>1. /\ a \in RequestType /\ a.pc = "lost" /\ a.m = req[j].m /\ a.slot = req[j].slot
            /\ a.res = req[j].res /\ a.at = req[j].at
        BY <3>1 DEF RequestType
      <4>2. req'[j] = [a EXCEPT !.held = 0]  BY <2>1, <3>2, Zenon
      <4> HIDE DEF a
      <4>3. 0 \in 0 .. MaxRequests  BY ApiFilesAssumption
      <4>4. req'[j] \in RequestType  BY <4>1, <4>2, <4>3 DEF RequestType
      <4> QED  BY <3>2, <4>1, <4>2, <4>4 DEF RequestType, Busy
    <3>3. CASE j \notin Busy  BY <2>1, <3>1, <3>3, Zenon DEF Busy
    <3> QED  BY <3>2, <3>3
  <2> QED  BY <2>1, <2>2, Zenon
<1>3. ASSUME NEW w, NEW s
      PROVE  (ObjFile(w, s) => ObjFile(w, s)') /\ (BlobFile(w, s) => BlobFile(w, s)')
  <2>1. ASSUME Named(w, s) PROVE Named(w, s)' /\ req'[w].m = req[w].m /\ (inode[w] = Filled => (inode[w] = Filled)')
    BY <1>2, <2>1 DEF Named, Requests, Filled
  <2> QED  BY <2>1, Zenon DEF ObjFile, BlobFile, Creates
<1>4. /\ dirent' \in [AllSlots -> Entry]
      /\ Restricted(dirent', ObjSlots) = objects
      /\ \A s \in Blobs : dirent'[s] = blobs[s]
  BY <1>1, RebootDirs, Zenon DEF FilesType
<1>5. onDisk'.obj \subseteq onDisk.obj  BY <1>4, Zenon
<1>6. NamesOK'
  <2>1. ASSUME NEW d \in onDisk'.obj, NEW s \in ObjSlots, d[s].ino # 0 PROVE ObjFile(d[s].ino, s)'
    <3>1. PICK w : w = d[s].ino  BY Zenon
    <3>2. ObjFile(w, s)  BY <1>1, <1>5, <2>1, <3>1 DEF NamesOK
    <3> QED  BY <1>3, <3>1, <3>2, Zenon
  <2>2. ASSUME NEW d \in onDisk'.blob, NEW s \in Blobs, d[s].ino # 0 PROVE BlobFile(d[s].ino, s)'
    <3>1. PICK w : w = d[s].ino  BY Zenon
    <3>2. \E e \in onDisk.blob : e[s] = d[s]
      <4>1. CASE d \in onDisk.blob  BY <4>1, Zenon
      <4>2. CASE d = Restricted(dirent', BlobSlots)  BY <1>4, <4>2, Names DEF Restricted
      <4> QED  BY <4>1, <4>2, Zenon
    <3>3. BlobFile(w, s)  BY <1>1, <2>2, <3>1, <3>2 DEF NamesOK
    <3> QED  BY <1>3, <3>1, <3>3, Zenon
  <2>3. ObjSlots' = ObjSlots /\ Blobs' = Blobs /\ BlobSlots' = BlobSlots  BY Zenon DEF ObjSlots, Blobs, BlobSlots
  <2>4. (Restricted(dirent, ObjSlots) \in onDisk.obj)' /\ (Restricted(dirent, BlobSlots) \in onDisk.blob)'
    BY DEF Restricted, ObjSlots, BlobSlots
  <2> QED  BY <2>1, <2>2, <2>3, <2>4, Zenon DEF NamesOK
<1>7. FilesType'  BY <1>1, <1>2, <1>4, Zenon DEF FilesType
<1>8. ASSUME NEW j \in Requests PROVE SlotOK(j)' /\ StepOK(j)'
  <2>1. SlotOK(j) /\ StepOK(j)  BY DEF FilesInv
  <2>2. SlotOK(j)'  BY <1>2, <2>1, Zenon DEF SlotOK, ObjSlots, Blobs
  <2>3. CASE req[j].pc \in {"new", "lost"} \/ req[j].pc \notin {"new", "done", "lost"}
    <3>1. req'[j].pc \in {"new", "lost"} /\ req'[j].res = 0
      <4>1. req[j].res = 0  BY <2>1, <2>3, Zenon DEF StepOK
      <4> QED  BY <1>2, <2>3, <4>1, Zenon
    <3> QED  BY <2>2, <3>1, Zenon DEF StepOK
  <2>4. CASE req[j].pc = "done"
    <3>1. inode[j] = Filled => (inode[j] = Filled)'  BY <2>4, Zenon DEF Filled
    <3>2. (req[j].pc = "done" /\ req[j].res \in {201, 204} /\ req[j].slot \in ObjSlots =>
             /\ req[j].m \in Mutators
             /\ \A d \in onDisk.obj : Holds(d[req[j].slot], req[j], j)
             /\ req[j].m # "DELETE" => inode[j] = Filled)'
      <4> SUFFICES ASSUME req'[j].res \in {201, 204}, req'[j].slot \in ObjSlots
                   PROVE  /\ req'[j].m \in Mutators
                          /\ \A d \in onDisk'.obj : Holds(d[req'[j].slot], req'[j], j)
                          /\ req'[j].m # "DELETE" => inode'[j] = Filled
        BY Zenon DEF ObjSlots, Holds, Mutators, Filled
      <4>1. req'[j].m = req[j].m /\ req'[j].slot = req[j].slot /\ req'[j].res = req[j].res /\ req'[j].at = req[j].at
        BY <1>2, Zenon
      <4>2. /\ req[j].m \in Mutators
            /\ \A d \in onDisk.obj : Holds(d[req[j].slot], req[j], j)
            /\ req[j].m # "DELETE" => inode[j] = Filled
        BY <2>1, <2>4, <4>1, Zenon DEF StepOK
      <4>3. ASSUME NEW d \in onDisk'.obj PROVE Holds(d[req'[j].slot], req'[j], j)
        <5>1. Holds(d[req[j].slot], req[j], j)  BY <1>5, <4>2
        <5> QED  BY <4>1, <5>1, Zenon DEF Holds
      <4>4. inode[j] = Filled => inode'[j] = Filled  BY <2>4
      <4> QED  BY <4>1, <4>2, <4>3, <4>4, Zenon
    <3>3. req'[j].pc = "done"  BY <1>2, <2>4, Zenon
    <3> QED  BY <2>2, <3>2, <3>3, Zenon DEF StepOK
  <2> QED  BY <2>3, <2>4, <1>1 DEF FilesType, RequestType
<1>9. Requests' = Requests  BY DEF Requests
<1> QED  BY <1>6, <1>7, <1>8, <1>9, Zenon DEF FilesInv

\* The process is killed: the page cache keeps every file and directory.
LEMMA KillKeeps ==
    ASSUME FilesInv, KillServer, load' = load
    PROVE  FilesInv'
<1>1. FilesType /\ NamesOK  BY Zenon DEF FilesInv
<1>2. PICK objects, blobs : objects = Restricted(dirent, ObjSlots) /\ blobs = Restricted(dirent, BlobSlots)  BY Zenon
<1>3. objects \in onDisk.obj /\ blobs \in onDisk.blob /\ Rebooted(objects, blobs)  BY <1>1, <1>2, Zenon DEF NamesOK, KillServer
<1>4. onDisk' = [obj |-> onDisk.obj, blob |-> onDisk.blob \cup {Restricted(dirent', BlobSlots)}]
  BY <1>1, Zenon DEF KillServer, FilesType
<1>5. objects \in [ObjSlots -> Entry] /\ blobs \in [BlobSlots -> Entry]  BY <1>1, <1>3, Zenon DEF FilesType
<1>6. Restricted(dirent', ObjSlots) = objects /\ Restricted(dirent', BlobSlots) \in [BlobSlots -> Entry]
  BY <1>1, <1>3, <1>5, RebootDirs, Zenon
<1>7. onDisk' \in [obj : SUBSET [ObjSlots -> Entry], blob : SUBSET [BlobSlots -> Entry]]
  <2>1. onDisk.obj \in SUBSET [ObjSlots -> Entry] /\ onDisk.blob \in SUBSET [BlobSlots -> Entry]  BY <1>1 DEF FilesType
  <2> QED  BY <1>4, <1>6, <2>1, Zenon
<1>8. /\ inode' \in [Requests -> [len : 0 .. 2, synced : BOOLEAN]]
      /\ \A w \in Requests : req[w].pc # "new" /\ inode[w] = Filled => inode'[w] = Filled
  BY <1>1, Zenon DEF KillServer, FilesType
<1>9. /\ onDisk'.obj \subseteq onDisk.obj \cup {Restricted(dirent', ObjSlots)} /\ Restricted(dirent', ObjSlots) \in onDisk'.obj
      /\ onDisk'.blob \subseteq onDisk.blob \cup {Restricted(dirent', BlobSlots)}
      /\ Restricted(dirent', BlobSlots) \in onDisk'.blob
  BY <1>3, <1>4, <1>6, Zenon
<1> QED  BY <1>3, <1>7, <1>8, <1>9, RebootKeeps, Zenon

\* The power fails: some version of each directory is found, and of a file that
\* was not fsynced any part.
LEMMA PowerCutKeeps ==
    ASSUME FilesInv, PowerCut, load' = load
    PROVE  FilesInv'
<1>1. FilesType /\ NamesOK  BY DEF FilesInv
<1>2. PICK objects \in onDisk.obj, blobs \in onDisk.blob : Rebooted(objects, blobs)  BY Zenon DEF PowerCut
<1>3. PICK kept \in [Requests -> 0 .. 2] :
         /\ \A i \in Requests :
              IF inode[i].synced THEN kept[i] = inode[i].len ELSE kept[i] <= inode[i].len
         /\ inode' = [i \in Requests |-> [inode[i] EXCEPT !.len = kept[i], !.synced = req[i].pc # "new"]]
  BY Zenon DEF PowerCut
<1>4. ASSUME NEW w \in Requests
      PROVE  /\ inode'[w] \in [len : 0 .. 2, synced : BOOLEAN]
             /\ req[w].pc # "new" /\ inode[w] = Filled => inode'[w] = Filled
  <2> DEFINE a == [inode[w] EXCEPT !.len = kept[w]]
  <2>1. a \in [len : 0 .. 2, synced : BOOLEAN] /\ a.len = kept[w]  BY <1>1 DEF FilesType
  <2>2. inode'[w] = [a EXCEPT !.synced = req[w].pc # "new"]  BY <1>3, Zenon
  <2>3. PICK b \in BOOLEAN : b = (req[w].pc # "new")  BY Zenon
  <2> HIDE DEF a
  <2>4. inode'[w] \in [len : 0 .. 2, synced : BOOLEAN] /\ inode'[w].len = kept[w] /\ inode'[w].synced = b
    BY <2>1, <2>2, <2>3, Zenon
  <2>5. ASSUME req[w].pc # "new", inode[w] = Filled PROVE inode'[w] = Filled
    <3>1. inode[w].synced = TRUE /\ inode[w].len = 2  BY <2>5 DEF Filled
    <3>2. kept[w] = 2  BY <1>3, <3>1, Zenon
    <3>3. b = TRUE  BY <2>3, <2>5, Zenon
    <3>4. inode'[w] = [len |-> inode'[w].len, synced |-> inode'[w].synced]  BY <2>4, Zenon
    <3> QED  BY <2>4, <3>2, <3>3, <3>4, Zenon DEF Filled
  <2> QED  BY <2>4, <2>5
<1>5. inode' \in [Requests -> [len : 0 .. 2, synced : BOOLEAN]]  BY <1>3, <1>4, Zenon
<1>6. objects \in [ObjSlots -> Entry] /\ blobs \in [BlobSlots -> Entry]  BY <1>1, <1>2, Zenon DEF FilesType
<1>7. Restricted(dirent', ObjSlots) = objects /\ Restricted(dirent', BlobSlots) \in [BlobSlots -> Entry]
  BY <1>1, <1>2, <1>6, RebootDirs
<1>8. onDisk' = [obj |-> {Restricted(dirent', ObjSlots)}, blob |-> {Restricted(dirent', BlobSlots)}]  BY Zenon DEF PowerCut
<1>9. onDisk' \in [obj : SUBSET [ObjSlots -> Entry], blob : SUBSET [BlobSlots -> Entry]]  BY <1>6, <1>7, <1>8, Zenon
<1>10. /\ onDisk'.obj \subseteq onDisk.obj \cup {Restricted(dirent', ObjSlots)} /\ Restricted(dirent', ObjSlots) \in onDisk'.obj
       /\ onDisk'.blob \subseteq onDisk.blob \cup {Restricted(dirent', BlobSlots)}
       /\ Restricted(dirent', BlobSlots) \in onDisk'.blob
  BY <1>8, Zenon
<1> QED  BY <1>2, <1>4, <1>5, <1>9, <1>10, RebootKeeps, Zenon

-----------------------------------------------------------------------------
(* The invariant, and what it gives.                                       *)

\* No request, no file, no name yet.
LEMMA FilesStart == FilesInit => FilesInv
<1> SUFFICES ASSUME FilesInit PROVE FilesInv  BY Zenon
<1>1. NoRequest \in RequestType /\ NoRequest.pc = "new" /\ NoRequest.res = 0 /\ NoRequest.m = "none"
  BY ApiFilesAssumption DEF NoRequest, RequestType
<1>2. NoFile \in [len : 0 .. 2, synced : BOOLEAN]  BY DEF NoFile
<1>3. NoName \in Entry /\ NoName.ino = 0  BY ApiFilesAssumption DEF NoName, Entry
<1>4. /\ onDisk.obj = {[s \in ObjSlots |-> NoName]} /\ onDisk.blob = {[s \in BlobSlots |-> NoName]}
      /\ dirent = [s \in AllSlots |-> NoName]
  BY Zenon DEF FilesInit, AllSlots
<1>5. FilesType
  <2>1. req \in [Requests -> RequestType] /\ inode \in [Requests -> [len : 0 .. 2, synced : BOOLEAN]] /\ load \in Loads
    BY <1>1, <1>2, Zenon DEF FilesInit
  <2>2. dirent \in [AllSlots -> Entry]  BY <1>3, <1>4, Zenon
  <2>3. onDisk \in [obj : SUBSET [ObjSlots -> Entry], blob : SUBSET [BlobSlots -> Entry]]  BY <1>3 DEF FilesInit
  <2> QED  BY <2>1, <2>2, <2>3, Zenon DEF FilesType
<1>6. NamesOK
  <2>1. Restricted(dirent, ObjSlots) = [s \in ObjSlots |-> NoName] /\ Restricted(dirent, BlobSlots) = [s \in BlobSlots |-> NoName]
    BY <1>4, Names, Zenon DEF Restricted
  <2>2. \A s \in Blobs : s \in BlobSlots  BY Names
  <2> QED  BY <1>3, <1>4, <2>1, <2>2, Zenon DEF NamesOK
<1>7. ASSUME NEW i \in Requests PROVE SlotOK(i) /\ StepOK(i)
  <2>1. req[i] = NoRequest  BY DEF FilesInit
  <2> QED  BY <1>1, <2>1, Zenon DEF SlotOK, StepOK
<1> QED  BY <1>5, <1>6, <1>7, Zenon DEF FilesInv

\* Every system call of every request, every crash and every power cut keeps the
\* invariant.
LEMMA FilesStep == FilesInv /\ [FilesNext]_filesVars => FilesInv'
<1> SUFFICES ASSUME FilesInv, [FilesNext]_filesVars PROVE FilesInv'  BY Zenon
<1>1. CASE FilesNext
  <2>1. load' = load  BY <1>1, Zenon DEF FilesNext
  <2>2. CASE KillServer  BY <2>1, <2>2, KillKeeps, Zenon
  <2>3. CASE PowerCut  BY <2>1, <2>3, PowerCutKeeps, Zenon
  <2>4. ASSUME NEW i \in Requests, Arrive(i) PROVE FilesInv'  BY <2>1, <2>4, ArriveKeeps, Zenon
  <2>5. ASSUME NEW i \in Requests, PutFill(i) PROVE FilesInv'  BY <2>1, <2>5, PutFillKeeps, Zenon
  <2>6. ASSUME NEW i \in Requests, PutRename(i) PROVE FilesInv'  BY <2>1, <2>6, PutRenameKeeps, Zenon
  <2>7. ASSUME NEW i \in Requests, PostOpen(i) \/ PostNew(i) PROVE FilesInv'  BY <2>1, <2>7, PostOpenKeeps, Zenon
  <2>8. ASSUME NEW i \in Requests, PostWrite(i) PROVE FilesInv'  BY <2>1, <2>8, PostWriteKeeps, Zenon
  <2>9. ASSUME NEW i \in Requests, PostSync(i) PROVE FilesInv'  BY <2>1, <2>9, PostSyncKeeps, Zenon
  <2>10. ASSUME NEW i \in Requests, Unlink(i) PROVE FilesInv'  BY <2>1, <2>10, UnlinkKeeps, Zenon
  <2>11. ASSUME NEW i \in Requests, SyncAndRespond(i) PROVE FilesInv'  BY <2>1, <2>11, SyncAndRespondKeeps, Zenon
  <2>12. ASSUME NEW i \in Requests, BlobStat(i) PROVE FilesInv'  BY <2>1, <2>12, BlobStatKeeps, Zenon
  <2>13. ASSUME NEW i \in Requests, BlobOpen(i) PROVE FilesInv'  BY <2>1, <2>13, BlobOpenKeeps, Zenon
  <2>14. ASSUME NEW i \in Requests, BlobFill(i) PROVE FilesInv'  BY <2>1, <2>14, BlobFillKeeps, Zenon
  <2>15. ASSUME NEW i \in Requests, BlobRename(i) PROVE FilesInv'  BY <2>1, <2>15, BlobRenameKeeps, Zenon
  <2>16. ASSUME NEW i \in Requests, BlobDelete(i) PROVE FilesInv'  BY <2>1, <2>16, BlobDeleteKeeps, Zenon
  <2>17. ASSUME NEW i \in Requests, ReadOpen(i) PROVE FilesInv'  BY <2>1, <2>17, ReadOpenKeeps, Zenon
  <2>18. ASSUME NEW i \in Requests, ReadAll(i) PROVE FilesInv'  BY <2>1, <2>18, Refused DEF ReadAll
  <2> QED  BY <1>1, <2>2, <2>3, <2>4, <2>5, <2>6, <2>7, <2>8, <2>9, <2>10, <2>11, <2>12, <2>13, <2>14, <2>15, <2>16, <2>17, <2>18, Zenon
           DEF FilesNext
<1>2. CASE UNCHANGED filesVars
  <2>1. UNCHANGED <<req, inode, dirent, onDisk, load>>  BY <1>2, Zenon DEF filesVars
  <2>2. FilesType'  BY <2>1, Zenon DEF FilesInv, FilesType
  <2>3. NamesOK'
    <3>1. NamesOK  BY Zenon DEF FilesInv
    <3>2. ASSUME NEW w, NEW s PROVE ObjFile(w, s)' = ObjFile(w, s) /\ BlobFile(w, s)' = BlobFile(w, s)
      BY <2>1, Zenon DEF ObjFile, BlobFile, Named, Requests, Creates, Filled
    <3>3. ObjSlots' = ObjSlots /\ Blobs' = Blobs /\ BlobSlots' = BlobSlots  BY Zenon DEF ObjSlots, Blobs, BlobSlots
    <3>4. Restricted(dirent, ObjSlots)' = Restricted(dirent, ObjSlots) /\ Restricted(dirent, BlobSlots)' = Restricted(dirent, BlobSlots)
      BY <2>1, <3>3, Zenon DEF Restricted
    <3>5. (\A d \in onDisk.obj, s \in ObjSlots : d[s].ino # 0 => ObjFile(d[s].ino, s))'
      <4> SUFFICES ASSUME NEW d \in onDisk.obj, NEW s \in ObjSlots, d[s].ino # 0 PROVE ObjFile(d[s].ino, s)'
        BY <2>1, <3>3
      <4> QED  BY <3>1, <3>2, Zenon DEF NamesOK
    <3>6. (\A d \in onDisk.blob, s \in Blobs : d[s].ino # 0 => BlobFile(d[s].ino, s))'
      <4> SUFFICES ASSUME NEW d \in onDisk.blob, NEW s \in Blobs, d[s].ino # 0 PROVE BlobFile(d[s].ino, s)'
        BY <2>1, <3>3
      <4> QED  BY <3>1, <3>2, Zenon DEF NamesOK
    <3> QED  BY <2>1, <3>1, <3>4, <3>5, <3>6, Zenon DEF NamesOK
  <2>4. ASSUME NEW i \in Requests PROVE SlotOK(i)' /\ StepOK(i)'
    <3>1. SlotOK(i) /\ StepOK(i)  BY Zenon DEF FilesInv
    <3>2. SlotOK(i)'  BY <2>1, <3>1, Zenon DEF SlotOK
    <3>3. ASSUME NEW w, NEW s PROVE ObjFile(w, s)' = ObjFile(w, s) /\ BlobFile(w, s)' = BlobFile(w, s)
      BY <2>1, Zenon DEF ObjFile, BlobFile, Named, Requests, Creates, Filled
    <3>4. req'[i] = req[i] /\ inode'[i] = inode[i] /\ dirent' = dirent /\ onDisk' = onDisk  BY <2>1, Zenon
    <3>5. StepOK(i)'
      <4>1. (/\ req[i].pc # "done" => req[i].res = 0
             /\ req[i].pc = "rename" => inode[i] = Filled
             /\ req[i].pc = "fsync" => inode[i].len = 2)'
        BY <3>1, <3>4, Zenon DEF StepOK, Filled
      <4>2. (/\ req[i].pc = "dirsync" =>
                  /\ req[i].m \in Mutators /\ req[i].slot \in ObjSlots /\ Holds(dirent[req[i].slot], req[i], i)
                  /\ req[i].m # "DELETE" => inode[i] = Filled
             /\ req[i].m \in Creates /\ req[i].pc \in {"write", "fsync"} =>
                  req[i].slot \in ObjSlots /\ Holds(dirent[req[i].slot], req[i], i)
             /\ req[i].m = "BLOBPOST" /\ req[i].pc \in {"write", "rename"} =>
                  dirent[Tmp(req[i].slot[2])].ino = i)'
        BY <3>1, <3>4, Zenon DEF StepOK, Holds, Mutators, Creates, ObjSlots, Tmp, Filled
      <4>3. (req[i].pc = "read" =>
               \/ req[i].m = "GET" /\ ObjFile(req[i].held, req[i].slot)
               \/ req[i].m = "BLOBGET" /\ BlobFile(req[i].held, req[i].slot))'
        BY <3>1, <3>3, <3>4, Zenon DEF StepOK
      <4>4. (req[i].pc = "done" /\ req[i].res \in {201, 204} /\ req[i].slot \in ObjSlots =>
               /\ req[i].m \in Mutators
               /\ \A d \in onDisk.obj : Holds(d[req[i].slot], req[i], i)
               /\ req[i].m # "DELETE" => inode[i] = Filled)'
        BY <3>1, <3>4 DEF StepOK, Holds, Mutators, ObjSlots, Filled
      <4> QED  BY <4>1, <4>2, <4>3, <4>4, Zenon DEF StepOK
    <3> QED  BY <3>2, <3>5, Zenon
  <2> QED  BY <2>2, <2>3, <2>4, Zenon DEF FilesInv, Requests
<1> QED  BY <1>1, <1>2, Zenon

\* The invariant holds of every behaviour.
LEMMA FilesInvariant == FilesSpec => []FilesInv
  BY FilesStart, FilesStep, PTL DEF FilesSpec

\* An object change that was answered 201 or 204 is never undone, however many
\* requests interleave and whenever the machine stops: every version of the
\* directory a power cut may leave holds it, with the file whole, or a later
\* change of the same name (write_file and delete_file of src/api.c).
THEOREM AcknowledgedSurvives == FilesSpec => []AckedSurvives
<1>1. FilesInv => AckedSurvives
  <2> SUFFICES ASSUME FilesInv, NEW i \in Requests, req[i].res \in {201, 204}, req[i].slot \in ObjSlots,
                      NEW d \in onDisk.obj \cup {Restricted(dirent, ObjSlots)}
               PROVE  LET e == d[req[i].slot] IN
                      \/ e.at > req[i].at
                      \/ /\ e.at = req[i].at
                         /\ e.ino = IF req[i].m = "DELETE" THEN 0 ELSE i
                         /\ req[i].m = "DELETE" \/ inode[i] = Filled
    BY Zenon DEF AckedSurvives
  <2>1. Restricted(dirent, ObjSlots) \in onDisk.obj  BY Zenon DEF FilesInv, NamesOK
  <2>2. d \in onDisk.obj  BY <2>1
  <2>3. StepOK(i)  BY Zenon DEF FilesInv
  <2>4. req[i].res # 0  OBVIOUS
  <2>5. req[i].pc = "done"  BY <2>3, <2>4, Zenon DEF StepOK
  <2>6. Holds(d[req[i].slot], req[i], i) /\ (req[i].m # "DELETE" => inode[i] = Filled)
    BY <2>2, <2>3, <2>5, Zenon DEF StepOK
  <2> QED  BY <2>6, Zenon DEF Holds
<1> QED  BY <1>1, FilesInvariant, PTL

\* Only the last step of a read answers 200.
LEMMA OnlyReadsAnswer200 ==
    ASSUME FilesType, FilesNext, NEW i \in Requests, req[i].res = 0, req'[i].res = 200
    PROVE  req[i].pc = "read"
<1>1. req \in [Requests -> RequestType]  BY Zenon DEF FilesType
<1>2. ASSUME NEW j \in Requests, NEW res, res # 200, Respond(j, res) PROVE FALSE
  <2>1. req[i] \in RequestType  BY <1>1
  <2>2. CASE i = j
    <3> DEFINE mid == [req EXCEPT ![i].pc = "done"]
    <3>1. mid \in [Requests -> RequestType] /\ mid[i] \in RequestType  BY <1>1, <2>1 DEF RequestType
    <3>2. req' = [mid EXCEPT ![i].res = res]  BY <1>2, <2>2, Zenon DEF Respond
    <3> HIDE DEF mid
    <3>3. req'[i].res = res  BY <3>1, <3>2 DEF RequestType
    <3> QED  BY <1>2, <3>3, Zenon
  <2>3. CASE i # j
    <3>1. req'[i] = req[i]  BY <1>1, <1>2, <2>3, Zenon DEF Respond
    <3> QED  BY <3>1
  <2> QED  BY <2>2, <2>3, Zenon
<1>3. ASSUME NEW j \in Requests, NEW pc, Goto(j, pc) PROVE FALSE
  <2>1. req[i] \in RequestType  BY <1>1
  <2> QED  BY <1>1, <1>3, <2>1 DEF Goto, RequestType
<1>4. ASSUME NEW r, NEW j \in Requests, req' = [req EXCEPT ![j] = r], i = j => r.res = 0 PROVE FALSE
  BY <1>1, <1>4
<1>5. ASSUME NEW j \in Requests, NEW s, Create(j, s) PROVE FALSE
  <2> DEFINE r == [req[j] EXCEPT !.pc = "write", !.slot = s, !.at = dirent[s].at + 1]
  <2>1. req[j] \in RequestType  BY <1>1
  <2>2. req' = [req EXCEPT ![j] = r]  BY <1>1, <1>5 DEF Create
  <2>3. r.res = req[j].res  BY <2>1 DEF RequestType
  <2> QED  BY <1>4, <2>2, <2>3, Zenon
<1>6. ASSUME NEW j \in Requests, NEW at, req' = [req EXCEPT ![j].pc = "dirsync", ![j].at = at] PROVE FALSE
  <2> DEFINE r == [req[j] EXCEPT !.pc = "dirsync", !.at = at]
  <2>1. req[j] \in RequestType  BY <1>1
  <2>2. req' = [req EXCEPT ![j] = r]  BY <1>1, <1>6
  <2>3. r.res = req[j].res  BY <2>1 DEF RequestType
  <2> QED  BY <1>4, <2>2, <2>3, Zenon
<1>7. CASE KillServer \/ PowerCut
  <2>1. req'[i] = IF i \in Busy THEN [req[i] EXCEPT !.pc = "lost", !.held = 0] ELSE req[i]
    BY <1>7, Zenon DEF KillServer, PowerCut, Rebooted
  <2>2. req[i] \in RequestType  BY <1>1
  <2> QED  BY <2>1, <2>2 DEF RequestType
<1>8. ASSUME NEW j \in Requests, Arrive(j) PROVE FALSE
  <2>a. PICK m \in load :
         \E s \in CASE m \in {"GET", "PUT", "POST", "DELETE"} -> ObjSlots
                    [] m = "NEW" -> {<<"none", 0>>}
                    [] OTHER -> {Blob(d) : d \in Digests} :
           req' = [req EXCEPT ![j] = [NoRequest EXCEPT !.m = m, !.slot = s, !.pc = "start"]]
    BY <1>8, Zenon DEF Arrive
  <2>1. PICK s : req' = [req EXCEPT ![j] = [NoRequest EXCEPT !.m = m, !.slot = s, !.pc = "start"]]  BY <2>a, Zenon
  <2>2. [NoRequest EXCEPT !.m = m, !.slot = s, !.pc = "start"].res = 0  BY DEF NoRequest
  <2> QED  BY <1>4, <2>1, <2>2, Zenon
<1>9. ASSUME NEW j \in Requests, ReadOpen(j) PROVE FALSE
  <2>1. CASE Respond(j, 404) \/ Respond(j, 500)  BY <1>2, <2>1
  <2>2. CASE req' = [req EXCEPT ![j].pc = "read", ![j].held = dirent[req[j].slot].ino]
    <3> DEFINE r == [req[j] EXCEPT !.pc = "read", !.held = dirent[req[j].slot].ino]
    <3>1. req[j] \in RequestType  BY <1>1
    <3>2. req' = [req EXCEPT ![j] = r]  BY <1>1, <2>2
    <3>3. r.res = req[j].res  BY <3>1 DEF RequestType
    <3> QED  BY <1>4, <3>2, <3>3, Zenon
  <2> QED  BY <1>9, <2>1, <2>2 DEF ReadOpen
<1>10. ASSUME NEW j \in Requests, ReadAll(j) PROVE req[i].pc = "read"
  <2>1. CASE i = j  BY <1>10, <2>1 DEF ReadAll
  <2>2. CASE i # j
    <3>1. req'[i] = req[i]  BY <1>1, <1>10, <2>2 DEF ReadAll, Respond
    <3> QED  BY <3>1
  <2> QED  BY <2>1, <2>2, Zenon
<1>11. ASSUME NEW j \in Requests, PutFill(j) \/ PostWrite(j) \/ PostSync(j) \/ BlobStat(j) \/ BlobOpen(j) \/ BlobFill(j) PROVE FALSE
  BY <1>2, <1>3, <1>11 DEF PutFill, PostWrite, PostSync, BlobStat, BlobOpen, BlobFill
<1>12. ASSUME NEW j \in Requests, PutRename(j) \/ Unlink(j) PROVE FALSE
  BY <1>2, <1>6, <1>12 DEF PutRename, Unlink
<1>13. ASSUME NEW j \in Requests, PostOpen(j) \/ PostNew(j) PROVE FALSE
  <2>1. Respond(j, 409) \/ Respond(j, 500) \/ \E s : Create(j, s)  BY <1>13, ZenonT(30) DEF PostOpen, PostNew
  <2>2. ~Respond(j, 409) /\ ~Respond(j, 500)  BY <1>2
  <2> QED  BY <1>5, <2>1, <2>2, Zenon
<1>14. ASSUME NEW j \in Requests, SyncAndRespond(j) \/ BlobRename(j) \/ BlobDelete(j) PROVE FALSE
  <2>1. CASE SyncAndRespond(j)
    <3>1. CASE req[j].m \in Creates  BY <1>2, <2>1, <3>1 DEF SyncAndRespond
    <3>2. CASE req[j].m \notin Creates  BY <1>2, <2>1, <3>2 DEF SyncAndRespond
    <3> QED  BY <3>1, <3>2, Zenon
  <2>2. CASE BlobRename(j)
    <3>1. Respond(j, 201) \/ Respond(j, 500)  BY <2>2, Zenon DEF BlobRename
    <3> QED  BY <1>2, <3>1
  <2>3. CASE BlobDelete(j)
    <3>1. Respond(j, 204) \/ Respond(j, 404)  BY <2>3, Zenon DEF BlobDelete
    <3> QED  BY <1>2, <3>1
  <2> QED  BY <1>14, <2>1, <2>2, <2>3, Zenon
<1>15. CASE \E j \in Requests :
               \/ Arrive(j) \/ PutFill(j) \/ PutRename(j) \/ PostOpen(j) \/ PostNew(j) \/ PostWrite(j)
               \/ PostSync(j) \/ Unlink(j) \/ SyncAndRespond(j) \/ BlobStat(j) \/ BlobOpen(j) \/ BlobFill(j)
               \/ BlobRename(j) \/ BlobDelete(j) \/ ReadOpen(j) \/ ReadAll(j)
  <2>1. PICK j \in Requests :
               \/ Arrive(j) \/ PutFill(j) \/ PutRename(j) \/ PostOpen(j) \/ PostNew(j) \/ PostWrite(j)
               \/ PostSync(j) \/ Unlink(j) \/ SyncAndRespond(j) \/ BlobStat(j) \/ BlobOpen(j) \/ BlobFill(j)
               \/ BlobRename(j) \/ BlobDelete(j) \/ ReadOpen(j) \/ ReadAll(j)
    BY <1>15, Zenon
  <2>2. ~Arrive(j) /\ ~ReadOpen(j)  BY <1>8, <1>9, Zenon
  <2>3. ~(PutFill(j) \/ PostWrite(j) \/ PostSync(j) \/ BlobStat(j) \/ BlobOpen(j) \/ BlobFill(j))  BY <1>11, Zenon
  <2>4. ~(PutRename(j) \/ Unlink(j)) /\ ~(PostOpen(j) \/ PostNew(j))  BY <1>12, <1>13, Zenon
  <2>5. ~(SyncAndRespond(j) \/ BlobRename(j) \/ BlobDelete(j))  BY <1>14, Zenon
  <2>6. ReadAll(j)  BY <2>1, <2>2, <2>3, <2>4, <2>5, Zenon
  <2> QED  BY <1>10, <2>6, Zenon
<1> QED  BY <1>7, <1>15, Zenon DEF FilesNext

\* A read answered 200 returns a whole body, for a blob the one of its digest,
\* unless the object's POST was never answered 201 (read_file_full and write_file
\* of src/api.c, blob_read and blob_write of src/api_blob.c).
THEOREM ReadsReturnWholeFiles == FilesSpec => ReadsAreWhole
<1> DEFINE Whole == \A i \in Requests :
         (req[i].m \in Reads /\ req[i].res = 0 /\ req'[i].res = 200) =>
           LET w == req[i].held IN
           \/ inode[w].len = 2 /\ req[w].slot = req[i].slot
           \/ req[w].m \in Creates /\ req[w].res # 201 /\ req[i].m = "GET"
<1>1. FilesInv /\ [FilesNext]_filesVars => [Whole]_filesVars
  <2> SUFFICES ASSUME FilesInv, FilesNext, NEW i \in Requests, req[i].m \in Reads, req[i].res = 0, req'[i].res = 200
               PROVE  LET w == req[i].held IN
                      \/ inode[w].len = 2 /\ req[w].slot = req[i].slot
                      \/ req[w].m \in Creates /\ req[w].res # 201 /\ req[i].m = "GET"
    BY Zenon
  <2>1. req[i].pc = "read"  BY OnlyReadsAnswer200, Zenon DEF FilesInv
  <2>2. PICK w : w = req[i].held  BY Zenon
  <2>3. \/ req[i].m = "GET" /\ ObjFile(w, req[i].slot)
        \/ req[i].m = "BLOBGET" /\ BlobFile(w, req[i].slot)
    BY <2>1, <2>2, Zenon DEF FilesInv, StepOK
  <2>4. w \in Requests /\ req[w].slot = req[i].slot  BY <2>3, Zenon DEF ObjFile, BlobFile, Named
  <2>5. CASE inode[w] = Filled
    <3>1. inode[w].len = 2  BY <2>5 DEF Filled
    <3> QED  BY <2>2, <2>4, <3>1, Zenon
  <2>6. CASE inode[w] # Filled
    <3>1. req[i].m = "GET" /\ req[w].m \in Creates  BY <2>3, <2>6, Zenon DEF ObjFile, BlobFile
    <3>2. req[w].res # 201
      <4>1. req[w].slot \in ObjSlots  BY <2>4, <3>1, Zenon DEF FilesInv, SlotOK
      <4>2. ASSUME req[w].res = 201 PROVE FALSE
        <5>1. StepOK(w)  BY <2>4, Zenon DEF FilesInv
        <5>2. req[w].res # 0  BY <4>2
        <5>3. req[w].pc = "done"  BY <5>1, <5>2, Zenon DEF StepOK
        <5> QED  BY <2>6, <3>1, <4>1, <4>2, <5>1, <5>3, Zenon DEF StepOK, Creates
      <4> QED  BY <4>2, Zenon
    <3> QED  BY <2>2, <3>1, <3>2
  <2> QED  BY <2>5, <2>6, Zenon
<1> QED  BY <1>1, FilesInvariant, PTL DEF FilesSpec, ReadsAreWhole
=============================================================================
