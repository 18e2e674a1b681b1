-------------------------------- MODULE Mounts --------------------------------
(***************************************************************************)
(* How create finds and makes the destination of a mount in the rootfs of  *)
(* the container, which lies in a directory of the host and may hold       *)
(* symbolic links.  A path is a sequence of names, a file system a         *)
(* function from the paths that exist to what is there.  An operator that  *)
(* may fail returns a set: of its result, or the empty set.                *)
(***************************************************************************)
EXTENDS Naturals, Sequences, SequencesExt

CONSTANTS Names,     \* the names in a path, ".." among them
          Longer,    \* pairs of names: the first begins with the second, and goes on
          Rootfs,    \* spec.Root.Path
          MaxLinks   \* links that the kernel follows before it gives up

Path == Seq(Names)

\* A path on which no name leads back.
Proper(p) == p \in Path /\ \A n \in DOMAIN p : p[n] # ".."

ASSUME MountsAssumption == ".." \in Names /\ Proper(Rootfs) /\ MaxLinks \in Nat

\* filepath.HasPrefix compares the text of two paths: the last name of the prefix need only
\* be the beginning of a name of the path, so that /rootfs2 has the prefix /rootfs.
HasPrefix(path, prefix) ==
  /\ Len(prefix) <= Len(path)
  /\ \A n \in DOMAIN prefix :
       path[n] = prefix[n] \/ (n = Len(prefix) /\ <<path[n], prefix[n]>> \in Longer)

Dir  == [kind |-> "dir"]
File == [kind |-> "file"]
Link(isAbs, to) == [kind |-> "link", abs |-> isAbs, to |-> to]

IsA(fs, p, kind) == p \in DOMAIN fs /\ fs[p].kind = kind
With(fs, p, node) == [q \in DOMAIN fs \cup {p} |-> IF q = p THEN node ELSE fs[q]]

\* Everything but the root, <<>>, is in a directory.
Node == [kind : {"dir", "file"}] \cup [kind : {"link"}, abs : BOOLEAN, to : Path]
IsFileSystem(fs) ==
  /\ fs \in [DOMAIN fs -> Node]
  /\ \A p \in DOMAIN fs : Proper(p) /\ (p # <<>> => IsA(fs, Front(p), "dir"))
  /\ IsA(fs, <<>>, "dir") /\ IsA(fs, Rootfs, "dir")

\* filepath.Clean: the parent of the root is the root.
Clean(path) ==
  LET clean[n \in 0 .. Len(path)] ==
        IF n = 0 THEN <<>>
        ELSE IF path[n] # ".." THEN Append(clean[n - 1], path[n]) ELSE Front(clean[n - 1])
  IN clean[Len(path)]

\* filepath.Join.
Join(p, q) == Clean(p \o q)

\* On the way from a directory along a path, with a number of links left to follow.
Way == [at : Path, path : Path, links : 0 .. MaxLinks]
Going(at, path, links) == [at |-> at, path |-> path, links |-> links]

-----------------------------------------------------------------------------
(***************************************************************************)
(* The kernel: system calls follow links on the host, all of them or all   *)
(* but the last.                                                           *)
(***************************************************************************)
Walk(fs) ==
  LET walk[w \in Way] ==
        IF w.path = <<>> THEN {w.at}
        ELSE LET p    == Append(w.at, Head(w.path))
                 rest == Tail(w.path)
             IN IF Head(w.path) = ".." THEN walk[Going(Front(w.at), rest, w.links)]
                ELSE IF IsA(fs, p, "dir") \/ (IsA(fs, p, "file") /\ rest = <<>>)
                THEN walk[Going(p, rest, w.links)]
                ELSE IF IsA(fs, p, "link") /\ w.links > 0
                THEN walk[Going(IF fs[p].abs THEN <<>> ELSE w.at, fs[p].to \o rest, w.links - 1)]
                ELSE {}
  IN walk

Stat(fs, p) == Walk(fs)[Going(<<>>, p, MaxLinks)]
IsDir(fs, p) == \E q \in Stat(fs, p) : IsA(fs, q, "dir")

\* Where p is when its last name is not followed, whether or not there is something.
\* Nothing can be made with the name "..".
Place(fs, p) ==
  IF p = <<>> THEN {p}
  ELSE {Append(q, Last(p)) : q \in {d \in Stat(fs, Front(p)) : IsA(fs, d, "dir") /\ Last(p) # ".."}}
Lstat(fs, p) == Place(fs, p) \cap DOMAIN fs

Mkdir(fs, p) == {With(fs, q, Dir) : q \in Place(fs, p) \ DOMAIN fs}

\* open with O_CREAT makes also what a link points to, but fails for a directory.
Touch(fs, path) ==
  LET touch[links \in 0 .. MaxLinks] ==
        [p \in Path |->
           IF Stat(fs, p) # {} THEN IF IsDir(fs, p) THEN {} ELSE {fs}
           ELSE UNION {IF q \notin DOMAIN fs THEN {With(fs, q, File)}
                       ELSE IF ~IsA(fs, q, "link") \/ links = 0 THEN {}
                       ELSE touch[links - 1][IF fs[q].abs THEN fs[q].to ELSE Front(q) \o fs[q].to]
                        : q \in Place(fs, p)}]
  IN touch[MaxLinks][path]

-----------------------------------------------------------------------------
(***************************************************************************)
(* resolveMountDestination                                                 *)
(***************************************************************************)

\* MUTANT of resolvePathRelative: the target of a link is taken relative to the link.
resolvePathRelativeToLink(fs, currentPath, subPath) ==
  LET p == Join(currentPath, <<subPath>>) IN
  IF Lstat(fs, p) = {} THEN [path |-> p, err |-> TRUE]
  ELSE LET node == fs[CHOOSE q \in Lstat(fs, p) : TRUE] IN
       [path |-> IF node.kind # "link" \/ (node.abs /\ HasPrefix(node.to, Rootfs)) THEN p
                 ELSE IF node.abs THEN Join(Rootfs, node.to)
                 ELSE Join(p, node.to),
        err |-> FALSE]

\* One name further: it does not exist, it is no link, or the link is followed once.
resolvePathRelative(fs, currentPath, subPath) ==
  LET p == Join(currentPath, <<subPath>>) IN
  IF Lstat(fs, p) = {} THEN [path |-> p, err |-> TRUE]
  ELSE LET node == fs[CHOOSE q \in Lstat(fs, p) : TRUE] IN
       [path |-> IF node.kind # "link" \/ (node.abs /\ HasPrefix(node.to, Rootfs)) THEN p
                 ELSE IF node.abs THEN Join(Rootfs, node.to)
                 ELSE Join(currentPath, node.to),
        err |-> FALSE]

\* After the first name that does not exist the others are only appended.
resolveMountDestination(fs, dst) ==
  LET resolved[n \in 0 .. Len(dst)] ==
        IF n = 0 THEN [path |-> Rootfs, err |-> FALSE]
        ELSE LET r == resolved[n - 1] IN
             IF r.err THEN [path |-> Join(r.path, <<dst[n]>>), err |-> TRUE]
             ELSE resolvePathRelative(fs, r.path, dst[n])
  IN resolved[Len(dst)].path

-----------------------------------------------------------------------------
(***************************************************************************)
(* createMountDestination                                                  *)
(***************************************************************************)

\* mkdirAll: the file system with the directory p and those above it.
mkdirAll(fs, path) ==
  LET make[p \in Path] ==
        IF IsDir(fs, p) THEN {fs}
        ELSE IF Stat(fs, p) # {} THEN {}
        ELSE UNION {IF \E q \in Lstat(f, p) : IsA(f, q, "dir") THEN {f} ELSE Mkdir(f, p)
                     : f \in make[Front(p)]}
  IN make[path]

\* What a mkdirAll that fails half-way leaves behind: the directories down to one of them.
mkdirSome(fs, path) == UNION {mkdirAll(fs, SubSeq(path, 1, n)) : n \in 0 .. Len(path)}

\* A file is made for a source that is one, a directory in any other case.
createMountDestination(fs, mount, dest) ==
  IF mount.source = "none" /\ mount.type = "bind" THEN {}
  ELSE IF mount.source = "file" THEN UNION {Touch(f, dest) : f \in mkdirAll(fs, Front(dest))}
  ELSE mkdirAll(fs, dest)

\* The same when one of its calls fails.
createSomeOfMountDestination(fs, mount, dest) ==
  IF mount.source = "none" /\ mount.type = "bind" THEN {fs}
  ELSE mkdirSome(fs, IF mount.source = "file" THEN Front(dest) ELSE dest)

-----------------------------------------------------------------------------
(***************************************************************************)
(* The reference: what a process of the container finds under the path.    *)
(***************************************************************************)
Resolve(fs) ==
  LET resolve[w \in Way] ==
        IF w.path = <<>> THEN w.at
        ELSE LET p    == Append(w.at, Head(w.path))
                 rest == Tail(w.path)
             IN IF Head(w.path) = ".."
                THEN resolve[Going(IF w.at = Rootfs THEN w.at ELSE Front(w.at), rest, w.links)]
                ELSE IF IsA(fs, p, "link") /\ w.links > 0
                THEN resolve[Going(IF fs[p].abs THEN Rootfs ELSE w.at, fs[p].to \o rest, w.links - 1)]
                ELSE resolve[Going(p, rest, w.links)]
  IN resolve

InContainer(fs, dst) == Resolve(fs)[Going(Rootfs, dst, MaxLinks)]

\* The links that one step resolves: the target is in the rootfs, no other link is on
\* the way to it, and its text does not begin with that of the rootfs, as a path of the
\* host (or that of a directory beside the rootfs with a longer name) would.
Plain(fs) ==
  \A p \in DOMAIN fs : IsA(fs, p, "link") =>
    LET base == IF fs[p].abs THEN Rootfs ELSE Front(p)
        way(n) == Join(base, SubSeq(fs[p].to, 1, n))
    IN /\ \A n \in 1 .. Len(fs[p].to) : IsPrefix(Rootfs, way(n)) /\ ~IsA(fs, way(n), "link")
       /\ ~(fs[p].abs /\ HasPrefix(fs[p].to, Rootfs))

=============================================================================
