------------------------------ MODULE SiteTable ------------------------------
(***************************************************************************)
(* How the static site gets its URLs: jumptable_build reads wwwroot once,  *)
(* before the workers start, and fills one open-addressing hash table from *)
(* (host, path) to the response; afterwards http.c only looks up.          *)
(*                                                                         *)
(* The directories are read in whatever order readdir returns the entries, *)
(* and the lists of hosts, of directories and of files grow at the head.   *)
(* The table keeps the first of two equal keys, so the order of insertion  *)
(* decides which file a URL means.  An entry that cannot be opened or      *)
(* examined is skipped with a warning.                                     *)
(*                                                                         *)
(* A file is the sequence of names below its host's directory, a URL the   *)
(* sequence of its segments: "/" is <<"">>, "/blog" is <<"blog">> and      *)
(* "/blog/" is <<"blog", "">>.  What the response of a file says (MIME     *)
(* type, chrome, ETag, compressed variants) is left out, and so are the    *)
(* names that start with '.', which the scan passes over.                  *)
(***************************************************************************)
EXTENDS Naturals, Sequences, FiniteSets
LOCAL INSTANCE SequencesExt
LOCAL INSTANCE FiniteSetsExt

CONSTANTS
    Sites,        \* contents of wwwroot: [dirs |-> [host directory -> files], lines |-> lines of _aliases]
    Lower,        \* metal_lower_inplace on the names of hosts
    Reserved,     \* names of directories that start with '_'
    Hashes,       \* what key_hash may compute: a sequence of functions of <<host, URL>>
    MinCap,       \* fewest slots of the table (16)
    MaxKnown,     \* room in known_hosts (128)
    MaxFailures   \* bound: entries that cannot be read

VARIABLES
    site,      \* the wwwroot this process was started with
    hash,      \* which of Hashes key_hash is
    phase,     \* "scan", "build", "aliases" (complete once no line is left), "refused"
    unread,    \* host directories build_scan has not come to
    walk,      \* the pass over the current host: "none", "content", "pages"
    stack,     \* open directories of walk_host_dir, innermost last
    hosts,     \* build_host_t list, head first
    failed,    \* what could not be read, as <<host directory, names>>
    work,      \* hosts and files the build loop has still to insert
    table,     \* [cap, slots, size, dead]: the flat table, and why the process died
    known,     \* known_hosts
    lines      \* lines of _aliases still to be read
siteVars == <<site, hash, phase, unread, walk, stack, hosts, failed, work, table, known, lines>>

Index == "index.html"
Health == <<"health">>
Stats == <<"stats">>

-----------------------------------------------------------------------------
(* The flat table. *)

NoRes == [dir |-> "", file |-> <<>>]
Nil == [key |-> <<"", <<>> >>, res |-> NoRes]

Cap(expected) == CHOOSE c \in {2^n : n \in 0..10} :
    /\ c >= MinCap /\ c >= 2 * expected + 1
    /\ c \div 2 < MinCap \/ c \div 2 < 2 * expected + 1

FlatInit(expected) ==
    [cap |-> Cap(expected), slots |-> [i \in 0..(Cap(expected) - 1) |-> Nil], size |-> 0, dead |-> "no"]

Slot(t, key, probe) == (Hashes[hash][key] + probe) % t.cap
\* The probes at which a search for the key may end.
Ends(t, key) == {p \in 0..(t.cap - 1) : t.slots[Slot(t, key, p)].key \in {key, Nil.key}}

\* The first of two equal keys stays; the slot that would leave one free is fatal.
FlatInsert_bug(t, e) ==
    LET i == Slot(t, e.key, Min(Ends(t, e.key))) IN
    CASE t.dead # "no" -> t
      [] t.slots[i] # Nil -> [t EXCEPT !.slots[i] = e]
      [] OTHER -> [t EXCEPT !.slots[i] = e, !.size = @ + 1, !.dead = IF t.size + 2 >= t.cap THEN "table" ELSE "no"]
FlatInsert(t, e) ==
    LET i == Slot(t, e.key, Min(Ends(t, e.key))) IN
    CASE t.dead # "no" -> t
      [] t.slots[i] # Nil -> t
      [] OTHER -> [t EXCEPT !.slots[i] = e, !.size = @ + 1, !.dead = IF t.size + 2 >= t.cap THEN "table" ELSE "no"]
InsertAll(t, entries) == FoldLeft(FlatInsert, t, entries)

\* jumptable_lookup: the response, or NoRes.
Lookup(host, url) == table.slots[Slot(table, <<host, url>>, Min(Ends(table, <<host, url>>)))].res

\* http.c: a miss is 404 on a known host and 409 on an unknown one.
Answer(host, url) ==
    CASE Lookup(host, url) # NoRes -> Lookup(host, url)
      [] host \in {known[i] : i \in DOMAIN known} -> [dir |-> "", file |-> <<"404">>]
      [] OTHER -> [dir |-> "", file |-> <<"409">>]

-----------------------------------------------------------------------------
(* The scan. *)

Beneath(d, fs) == {f \in site.dirs[d] : IsStrictPrefix(fs, f)}
OpenDir(d, fs, url) == [dir |-> d, fs |-> fs, url |-> url, left |-> {f[Len(fs) + 1] : f \in Beneath(d, fs)}]
\* Directories are closed once they are read to the end.
Opened(s) == SelectSeq(s, LAMBDA frame : frame.left # {})

\* The table entries build_add_file counts for a file.
Counted(url, name) == IF name # Index THEN 1 ELSE IF url = <<>> THEN 2 ELSE 3

\* build_add_file: new directories and files go to the head of their lists.
AddFile_bug(h, url, file) ==
    LET i == SelectInSeq(h.dirs, LAMBDA d : d.url = url) IN
    [h EXCEPT !.dirs = IF i = 0 THEN <<[url |-> url, files |-> <<file>>]>> \o @
                       ELSE [@ EXCEPT ![i].files = Append(@, file)],
              !.entries = @ + Counted(url, Last(file))]
AddFile(h, url, file) ==
    LET i == SelectInSeq(h.dirs, LAMBDA d : d.url = url) IN
    [h EXCEPT !.dirs = IF i = 0 THEN <<[url |-> url, files |-> <<file>>]>> \o @
                       ELSE [@ EXCEPT ![i].files = <<file>> \o @],
              !.entries = @ + Counted(url, Last(file))]

Scanning == phase = "scan" /\ UNCHANGED <<site, hash, phase, work, table, known, lines>>
MayFail(d, fs) == Cardinality(failed) < MaxFailures /\ failed' = failed \cup {<<d, fs>>}

\* build_scan comes to a host directory; it may be unable to examine it, or to
\* open it, in which case the host is there without content.
ScanHost(d) ==
    LET root == OpenDir(d, <<>>, <<>>)
        found == <<[dir |-> d, name |-> Lower[d], dirs |-> <<>>, entries |-> 0]>> \o hosts
    IN
    /\ Scanning
    /\ stack = <<>> /\ walk # "content" /\ d \in unread
    /\ unread' = unread \ {d}
    /\ \/ hosts' = found /\ stack' = Opened(<<root>>) /\ walk' = "content" /\ UNCHANGED failed
       \/ /\ Cardinality(failed) < MaxFailures
          /\ failed' = failed \cup {<<d, <<name>> >> : name \in root.left \ Reserved}
          /\ hosts' = found /\ walk' = "content" /\ UNCHANGED stack
       \/ MayFail(d, <<>>) /\ walk' = "none" /\ UNCHANGED <<hosts, stack>>

\* walk_host_dir reads an entry of the innermost open directory.
WalkEntry(name) ==
    LET top == Last(stack)
        fs == Append(top.fs, name)
        rest == Append(Front(stack), [top EXCEPT !.left = @ \ {name}])
        isFile == fs \in site.dirs[top.dir]
    IN
    /\ Scanning
    /\ stack # <<>> /\ name \in top.left
    /\ \/ /\ isFile
          /\ hosts' = [hosts EXCEPT ![1] = AddFile(@, top.url, fs)]
          /\ stack' = Opened(rest) /\ UNCHANGED failed
       \/ /\ ~isFile /\ name \in Reserved
          /\ stack' = Opened(rest) /\ UNCHANGED <<hosts, failed>>
       \/ /\ ~isFile /\ name \notin Reserved
          /\ stack' = Opened(Append(rest, OpenDir(top.dir, fs, Append(top.url, name))))
          /\ UNCHANGED <<hosts, failed>>
       \/ /\ isFile \/ name \notin Reserved
          /\ MayFail(top.dir, fs)
          /\ stack' = Opened(rest) /\ UNCHANGED hosts
    /\ UNCHANGED <<unread, walk>>

\* The second pass over a host: its _pages directory, as if it were the root.
WalkPages ==
    LET d == Head(hosts).dir IN
    /\ Scanning
    /\ stack = <<>> /\ walk = "content"
    /\ walk' = "pages"
    /\ \/ stack' = Opened(<<OpenDir(d, <<"_pages">>, <<>>)>>) /\ UNCHANGED failed
       \/ Beneath(d, <<"_pages">>) # {} /\ MayFail(d, <<"_pages">>) /\ UNCHANGED stack
    /\ UNCHANGED <<unread, hosts>>

-----------------------------------------------------------------------------
(* The build. *)

FilesOf(n) == FlattenSeq([i \in DOMAIN hosts[n].dirs |->
    [j \in DOMAIN hosts[n].dirs[i].files |-> [host |-> n, url |-> hosts[n].dirs[i].url, file |-> hosts[n].dirs[i].files[j]]]])

\* jumptable_build sizes the table for the files, their index aliases and the
\* two metrics pages of every host, and starts on the first host.
Size ==
    LET entries == FoldLeft(LAMBDA n, h : n + h.entries, 0, hosts) + 2 * Len(hosts) IN
    /\ phase = "scan" /\ stack = <<>> /\ walk # "content" /\ unread = {}
    /\ \/ hosts = <<>> /\ phase' = "refused" /\ UNCHANGED <<work, table>>
       \/ /\ hosts # <<>> /\ phase' = "build"
          /\ work' = FlattenSeq([i \in DOMAIN hosts |->
                        <<[host |-> i, url |-> <<>>, file |-> <<>>]>> \o FilesOf(i)])
          /\ table' = FlatInit(entries)
    /\ UNCHANGED <<site, hash, unread, walk, stack, hosts, failed, known, lines>>

\* A host name goes into known_hosts, if there is room.
Register(t, name) ==
    /\ table' = IF t.dead = "no" /\ Len(known) >= MaxKnown THEN [t EXCEPT !.dead = "hosts"] ELSE t
    /\ known' = Append(known, name)

Building == phase = "build" /\ table.dead = "no" /\ UNCHANGED <<site, hash, unread, walk, stack, hosts, lines>>

BuildHost ==
    /\ Building
    /\ work # <<>> /\ Head(work).file = <<>>
    /\ Register(table, hosts[Head(work).host].name)
    /\ work' = Tail(work)
    /\ UNCHANGED <<phase, failed>>

\* The keys of a file: its own URL, then what an index.html also answers.
UrlsFor(url, name) ==
    <<Append(url, name)>> \o
    IF name # Index THEN <<>> ELSE IF url = <<>> THEN <<<<"">>>> ELSE <<Append(url, ""), url>>

BuildFile ==
    LET w == Head(work)
        h == hosts[w.host]
        urls == UrlsFor(w.url, Last(w.file))
    IN
    /\ Building
    /\ work # <<>> /\ w.file # <<>>
    /\ \/ /\ table' = InsertAll(table, [i \in DOMAIN urls |->
                        [key |-> <<h.name, urls[i]>>, res |-> [dir |-> h.dir, file |-> w.file]]])
          /\ UNCHANGED failed
       \/ MayFail(h.dir, w.file) /\ UNCHANGED table
    /\ work' = Tail(work)
    /\ UNCHANGED <<phase, known>>

Metric(host, url) == [key |-> <<host, url>>, res |-> [dir |-> "", file |-> url]]

\* /health and /stats of every host, after all files.
BuildMetrics ==
    /\ Building
    /\ work = <<>>
    /\ table' = InsertAll(table, FlattenSeq([i \in DOMAIN hosts |->
                    <<Metric(hosts[i].name, Health), Metric(hosts[i].name, Stats)>>]))
    /\ phase' = "aliases"
    /\ UNCHANGED <<work, known, failed>>

Names == {hosts[i].name : i \in DOMAIN hosts}

\* What a line of _aliases says, if it is accepted.
Alias(l) == Lower[l.alias]
Target(l) == Lower[l.target]
Accepted(l) ==
    /\ l.alias # "" /\ l.target # "" /\ Alias(l) # Target(l)
    /\ Target(l) \in Names /\ Alias(l) \notin Names

\* Every entry of the target is inserted again under the alias, in slot order.
\* (That disturbs no slot of the target.)
CopyEntries(t, alias, target) ==
    LET theirs == SelectSeq([i \in 1..t.cap |-> t.slots[i - 1]], LAMBDA e : e.key[1] = target)
    IN  InsertAll(t, [i \in DOMAIN theirs |-> [theirs[i] EXCEPT !.key[1] = alias]])

ReadAlias ==
    LET l == Head(lines) IN
    /\ phase = "aliases" /\ table.dead = "no"
    /\ lines # <<>>
    /\ lines' = Tail(lines)
    /\ \/ ~Accepted(l) /\ UNCHANGED <<table, known>>
       \/ Accepted(l) /\ Register(CopyEntries(table, Alias(l), Target(l)), Alias(l))
    /\ UNCHANGED <<site, hash, phase, unread, walk, stack, hosts, failed, work>>

-----------------------------------------------------------------------------
SiteInit ==
    /\ site \in Sites /\ hash \in DOMAIN Hashes
    /\ phase = "scan" /\ unread = DOMAIN site.dirs /\ walk = "none" /\ stack = <<>>
    /\ hosts = <<>> /\ failed = {} /\ work = <<>> /\ table = [cap |-> 0, slots |-> <<>>, size |-> 0, dead |-> "no"] /\ known = <<>>
    /\ lines = site.lines

SiteNext ==
    \/ \E d \in DOMAIN site.dirs : ScanHost(d)
    \/ stack # <<>> /\ \E name \in Last(stack).left : WalkEntry(name)
    \/ WalkPages \/ Size \/ BuildHost \/ BuildFile \/ BuildMetrics \/ ReadAlias
SiteSpec == SiteInit /\ [][SiteNext]_siteVars

-----------------------------------------------------------------------------
(* What the site promises. *)

\* The URL directory of a file: that of _pages is the root.
Under(f) == IF f[1] = "_pages" THEN Tail(Front(f)) ELSE Front(f)
Means(f, url) ==
    \/ url = Append(Under(f), Last(f))
    \/ Last(f) = Index /\ url \in {Append(Under(f), ""), Under(f)} \ {<<>>}
\* The files of a host directory that have a URL, and could be read.
Public(d) ==
    {f \in site.dirs[d] :
        /\ \A i \in 1..Len(Under(f)) : Under(f)[i] \notin Reserved
        /\ \A n \in 0..Len(f) : <<d, SubSeq(f, 1, n)>> \notin failed}
Meant(host, url) ==
    {r \in [dir : {d \in DOMAIN site.dirs : Lower[d] = host}, file : UNION {site.dirs[d] : d \in DOMAIN site.dirs}] :
        r.file \in Public(r.dir) /\ Means(r.file, url)}

Urls ==
    LET files == UNION {UNION {s.dirs[d] : d \in DOMAIN s.dirs} : s \in Sites} IN
    ({<<"">>, Health, Stats} \cup UNION {{Append(Under(f), Last(f)), Append(Under(f), ""), Under(f)} : f \in files})
        \ {<<>>}
HostNames == {Lower[d] : d \in DOMAIN Lower}

Serving == phase = "aliases" /\ table.dead = "no" /\ lines = <<>>

\* Whatever the order of readdir, the tree of wwwroot comes up and is what the
\* URLs mean.  jumptable_build never runs out of slots before it reads
\* _aliases, and leaves flat_lookup an empty slot to stop at.  Then a URL of a
\* host answers with a readable file that has this URL, and with 404, or the
\* metrics, only if there is none; a file under _pages is preferred to
\* content at the same URL, except that content's blog/index.html may keep
\* "/blog" from a file _pages/blog.
SiteIsServed ==
    /\ table.dead = "table" => phase = "aliases"
    /\ table.cap > 0 => \E i \in DOMAIN table.slots : table.slots[i] = Nil
    /\ Serving => \A host \in Names, url \in Urls :
         LET r == Answer(host, url)
             meant == Meant(host, url)
         IN
         /\ meant # {} => r \in meant
         /\ meant = {} => r.dir = "" /\ r.file = IF url \in {Health, Stats} THEN url ELSE <<"404">>
         /\ \A p \in meant :
              p.file[1] = "_pages" /\ p.dir = r.dir /\ r.file[1] # "_pages" =>
                  url = Under(r.file) /\ url # Under(p.file)

\* An alias of _aliases answers as its target does, response for response; if
\* lines name it again, the first target that has the URL answers.  A host
\* that is neither a directory nor an alias gets 409 for everything.
AliasesMirror ==
    Serving => \A host \in HostNames \ Names, url \in Urls :
        LET mine == SelectSeq(site.lines, LAMBDA l : Accepted(l) /\ Alias(l) = host)
            hits == SelectSeq(mine, LAMBDA l : Lookup(Target(l), url) # NoRes)
        IN  Answer(host, url) =
                CASE mine = <<>> -> [dir |-> "", file |-> <<"409">>]
                  [] mine # <<>> /\ hits = <<>> -> [dir |-> "", file |-> <<"404">>]
                  [] OTHER -> Lookup(Target(Head(hits)), url)
=============================================================================
