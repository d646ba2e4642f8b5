----------------------------- MODULE PathMapping -----------------------------
(***************************************************************************)
(* The preloaded library path-mapping.so in a running program: the         *)
(* constructor, the mapping of every path a wrapped call is given, and the *)
(* way back for the calls that give a path to the program. The files are   *)
(* those of module FileTree; the library changes which path the kernel     *)
(* gets. Wrappers that treat their path alike and reach the same kind of   *)
(* kernel call are one family.                                             *)
(***************************************************************************)
EXTENDS PathReference

CONSTANTS MappingEnv, ExcludeEnv,  \* PATH_MAPPING and PATH_MAPPING_EXCLUDE
          ReverseOn,               \* PATHMAP_REVERSE, on by default
          Home,                    \* HOME or the passwd entry, << >> for none
          SearchDir,               \* where libc searches names without "/"
          Disks, StartDirs,        \* the files and directories at the start
          Names, PairNames,        \* the names the program uses, alone and in pairs
          Targets, Temps, MarkNames

ASSUME ReverseAssumption == ReverseOn \in BOOLEAN

VARIABLES disk,      \* the files, by real path
          cwd,       \* the working directory the kernel keeps
          dirfd,     \* the directory a descriptor is open on
          loaded,    \* the constructor has run
          asked,     \* the call a wrapper is in
          answer     \* what it gives back

vars == <<disk, cwd, dirfd, loaded, asked, answer>>

-----------------------------------------------------------------------------
(* g_config: read once by the constructor, never changed.                  *)
Rules    == LoadMappings(MappingEnv)
Excluded == LoadExcludes(ExcludeEnv)

(* What the library's own readlink of /proc/self/cwd and /proc/self/fd/N   *)
(* answers, since it is the wrapped one.                                   *)
(* A working directory whose two names are equally long counts as not yet  *)
(* renamed and is renamed again.                                           *)
RenamedLink(name) == ReverseResult(name, Rules, Excluded).path
ProcCwdLink(at) == ReverseMapping(NameOf(at), Rules).path
CwdLink(at) == CASE ~ReverseOn -> NameOf(at)
                 [] Len(ProcCwdLink(at)) # Len(NameOf(at)) -> ProcCwdLink(at)
                 [] OTHER -> RenamedLink(ProcCwdLink(at))
FdLink(at) == IF ReverseOn THEN RenamedLink(NameOf(at)) ELSE NameOf(at)

Join(base, name) == base \o (IF Last(base) = "/" THEN << >> ELSE <<"/">>) \o name

(* pm_fix_path_common; search marks the functions that search PATH.        *)
OrElse(hit, name) == IF hit.new THEN hit ELSE Same(name)
FixName(name, match) ==
    IF IsExcluded(match, Excluded) THEN Same(name) ELSE OrElse(ApplyMapping(match, Rules), name)
FixPath(name, search) ==
    IF name = <<".">> \/ (search /\ ~Has("/", name)) THEN Same(name)
    ELSE FixName(name, Normalize(IF name # << >> /\ Head(name) = "/" THEN name
                                 ELSE Join(CwdLink(cwd), name)))

(* A directory argument is the descriptor or AT_FDCWD.                     *)
OpenFds == {fd \in Fds : fd = "fd" => dirfd # None}
At(fd) == IF fd = "fd" THEN dirfd ELSE cwd
JoinFitting(base, name) == IF Len(base) + Len(name) + 2 > MaxPath THEN name ELSE Join(base, name)
AbsoluteFromDirfd(fd, name) ==
    IF Head(name) = "/" THEN name
    ELSE JoinFitting(IF fd = "fd" THEN FdLink(dirfd) ELSE CwdLink(cwd), name)

(* Where the kernel looks.                                                 *)
PathAt(name) == Walk(cwd, FixPath(name, FALSE).path)
Bug_PathAtFd(fd, name) == Walk(At(fd), FixPath(name, FALSE).path)
PathAtFd(fd, name) == Walk(At(fd), FixPath(AbsoluteFromDirfd(fd, name), FALSE).path)

-----------------------------------------------------------------------------
(* The constructor.                                                        *)

StartupCwdNeedsFix(real) ==
    LET fwd == ApplyMapping(real, Rules)
    IN  ~IsExcluded(real, Excluded) /\ fwd.new /\ ~IsDir(disk, Segs(fwd.path))

Plan(target, pwdValue) == [target |-> target, pwd |-> pwdValue]
HomePlan ==
    LET mapped == ApplyMapping(Normalize(Home), Rules).path
    IN  IF Home # << >> /\ IsDir(disk, Segs(mapped))
        THEN Plan(mapped, VirtualizeCwd(mapped, Rules).path)
        ELSE Plan(<<"/">>, <<"/">>)

Candidate(real, virt, fwd) ==
    IF virt.new THEN Plan(OrElse(ApplyMapping(virt.path, Rules), real).path, virt.path)
    ELSE IF fwd.new THEN Plan(fwd.path, VirtualizeCwd(fwd.path, Rules).path)
    ELSE Plan(<<"/">>, <<"/">>)
Validated(plan) == IF IsDir(disk, Segs(plan.target)) THEN plan ELSE HomePlan
StartupCwdPlan(real) ==
    Validated(Candidate(real, VirtualizeCwd(real, Rules), ApplyMapping(real, Rules)))

(* The PWD that the constructor sets is its answer.                        *)
Stay == cwd' = cwd /\ answer' = Done
MoveTo(at, plan) ==
    IF IsDir(disk, at) THEN cwd' = at /\ answer' = Answer("path", {plan.pwd}) ELSE Stay
Follows(plan) == MoveTo(PathAt(plan.target), plan)
Load ==
    LET real == Normalize(NameOf(cwd))
    IN  /\ ~loaded
        /\ loaded' = TRUE
        /\ asked' = Request("load", << >>, << >>)
        /\ IF StartupCwdNeedsFix(real) THEN Follows(StartupCwdPlan(real)) ELSE Stay
        /\ UNCHANGED <<disk, dirfd>>

-----------------------------------------------------------------------------
(* The families of wrappers: how the path argument is rewritten and what   *)
(* the kernel call does with it.                                           *)

Family(takes, does, functions) == [takes |-> takes, does |-> does, functions |-> functions]

OpenCalls    == Family("path", {"look", "write"}, {"open", "open64"})
OpenatCalls  == Family("at", {"look", "write"}, {"openat", "openat64", "__openat_2", "__openat64_2"})
Openat2Call  == Family("at", {"look", "write"}, {"openat2"})
FopenCalls   == Family("path", {"look", "write"},
                       {"fopen", "fopen64", "freopen", "__fopen_chk", "__fopen64_chk"})
Creat64Call  == Family("path", {"write"}, {"creat64"})
CreatCall    == Family("path", {"write"}, {"creat"})
ChrootCall   == Family("path", {"look"}, {"chroot"})
StatCalls    == Family("path", {"look", "lookl"}, {"stat", "lstat"})
XstatCalls   == Family("path", {"look", "lookl"}, {"__xstat", "__lxstat", "__xstat64", "__lxstat64"})
Stat64Calls  == Family("path", {"look", "lookl"}, {"stat64", "lstat64"})
FstatatCalls == Family("at", {"look", "lookl"},
                       {"fstatat", "fstatat64", "__fxstatat", "__fxstatat64",
                        "__fxstatat_2", "__fxstatat64_2"})
StatfsCalls  == Family("path", {"look"}, {"statfs", "statvfs", "statfs64", "statvfs64"})
AccessCall   == Family("path", {"look"}, {"access"})
FaccessatCall == Family("at", {"look"}, {"faccessat"})
XattrCalls   == Family("path", {"look", "lookl"},
                       {"getxattr", "lgetxattr", "setxattr", "lsetxattr", "removexattr",
                        "lremovexattr", "listxattr", "llistxattr"})
MkdirCall    == Family("path", {"mkdir"}, {"mkdir"})
MkdiratCall  == Family("at", {"mkdir"}, {"mkdirat"})
FtwCalls     == Family("path", {"look", "lookl"}, {"ftw", "nftw", "ftw64", "nftw64"})
FtsCall      == Family("path", {"look", "lookl"}, {"fts_open"})
PathconfCall == Family("path", {"look"}, {"pathconf"})
MkfifoCall   == Family("path", {"create"}, {"mkfifo"})
MknodCall    == Family("path", {"create"}, {"mknod"})
MkfifoatCall == Family("at", {"create"}, {"mkfifoat"})
MknodatCall  == Family("at", {"create"}, {"mknodat"})
TruncateCalls == Family("path", {"change"}, {"truncate", "truncate64"})
UtimeCalls   == Family("path", {"look", "lookl"}, {"utime", "utimes", "lutime"})
UtimensatCalls == Family("at", {"look", "lookl"}, {"utimensat", "futimesat"})
ChmodCall    == Family("path", {"look"}, {"chmod"})
FchmodatCall == Family("at", {"look"}, {"fchmodat"})
ChownCalls   == Family("path", {"look", "lookl"}, {"chown", "lchown"})
FchownatCall == Family("at", {"look", "lookl"}, {"fchownat"})
UnlinkCall   == Family("path", {"unlink"}, {"unlink"})
UnlinkatCall == Family("at", {"unlink", "rmdir"}, {"unlinkat"})
RemoveCalls  == Family("path", {"unlink", "rmdir"}, {"rmdir", "remove"})
ExecvCall    == Family("path", {"look"}, {"execv"})
ExeclCall    == Family("path", {"look"}, {"execl"})
ExecleCall   == Family("path", {"look"}, {"execle"})
ExecveCall   == Family("path", {"look"}, {"execve"})
ExecvpCall   == Family("search", {"look"}, {"execvp"})
ExecvpeCall  == Family("search", {"look"}, {"execvpe"})
ExeclpCall   == Family("search", {"look"}, {"execlp"})
ExecveatCall == Family("at", {"look"}, {"execveat"})
SpawnCall    == Family("path", {"look"}, {"posix_spawn"})
SpawnpCall   == Family("search", {"look"}, {"posix_spawnp"})
DlopenCalls  == Family("search", {"look"}, {"dlopen", "dlmopen"})
RenameCall   == Family("two", {"rename"}, {"rename"})
RenameatCalls == Family("twoat", {"rename"}, {"renameat", "renameat2"})
LinkCall     == Family("two", {"link"}, {"link"})
LinkatCall   == Family("twoat", {"link"}, {"linkat"})
PivotRootCall == Family("two", {"look2"}, {"pivot_root"})
MoveMountCall == Family("twoat", {"look2"}, {"move_mount"})
HandleCall   == Family("at", {"look", "lookl"}, {"name_to_handle_at"})
OpenTreeCall == Family("at", {"look", "lookl"}, {"open_tree"})
MountSetattrCall == Family("at", {"look"}, {"mount_setattr"})
InotifyCall  == Family("path", {"look", "lookl"}, {"inotify_add_watch"})
FanotifyCall == Family("mark", {"look"}, {"fanotify_mark"})
StatxCall    == Family("at", {"look", "lookl"}, {"statx"})
MountCalls   == Family("path", {"look"}, {"setmntent", "umount2"})
GlobCalls    == Family("path", {"look"}, {"glob", "glob64"})
AcctCall     == Family("path", {"look"}, {"acct"})

Families ==
    { OpenCalls, OpenatCalls, Openat2Call, FopenCalls, Creat64Call, CreatCall, ChrootCall,
      StatCalls, XstatCalls, Stat64Calls, FstatatCalls, StatfsCalls, AccessCall, FaccessatCall,
      XattrCalls, MkdirCall, MkdiratCall, FtwCalls, FtsCall, PathconfCall, MkfifoCall, MknodCall,
      MkfifoatCall, MknodatCall, TruncateCalls, UtimeCalls, UtimensatCalls, ChmodCall,
      FchmodatCall, ChownCalls, FchownatCall, UnlinkCall, UnlinkatCall, RemoveCalls, ExecvCall,
      ExeclCall, ExecleCall, ExecveCall, ExecvpCall, ExecvpeCall, ExeclpCall, ExecveatCall,
      SpawnCall, SpawnpCall, DlopenCalls, RenameCall, RenameatCalls, LinkCall, LinkatCall,
      PivotRootCall, MoveMountCall, HandleCall, OpenTreeCall, MountSetattrCall, InotifyCall,
      FanotifyCall, StatxCall, MountCalls, GlobCalls, AcctCall }

(* What the functions of one form do.                                      *)
Ops(takes) == UNION {f.does : f \in {g \in Families : g.takes = takes}}
PathOps == Ops("path")
AtOps == Ops("at")
SearchOps == Ops("search")
MarkOps == Ops("mark")
TwoOps == Ops("two")
TwoAtOps == Ops("twoat")

-----------------------------------------------------------------------------
(* The calls. Each is one request of the program, named by what it does,   *)
(* and answered at once; the wrapper then returns.                         *)
Asks(op, fds, names) == asked' = Request(op, fds, names)
Cwd == "AT_FDCWD"

Effect(r) == disk' = r.tree /\ answer' = r.answer /\ UNCHANGED <<cwd, dirfd>>
Reply(a) == answer' = a /\ UNCHANGED <<disk, cwd, dirfd>>

(* The program does not remove a directory it is in or has open.           *)
OnPath(op, at) == /\ op = "rmdir" => at \notin {cwd, dirfd}
                  /\ Effect(Do(op, disk, at))

PathCall(op, n) == Asks(op, <<Cwd>>, <<n>>) /\ OnPath(op, PathAt(n))
AtCall(op, fd, n) == Asks(op, <<fd>>, <<n>>) /\ OnPath(op, PathAtFd(fd, n))

(* AT_EMPTY_PATH: statx passes the descriptor on. execveat maps the empty  *)
(* name like any other, and when the working directory is mapped the       *)
(* kernel gets that directory's path in place of the descriptor. The       *)
(* program opened the descriptor as n just before.                         *)
StatxEmptyPath(fd) == Asks("self", <<fd>>, << >>) /\ Effect(Do("look", disk, At(fd)))
ExecveatEmptyPath(n) ==
    LET fixed == FixPath(<< >>, FALSE)
        file  == Follow(disk, PathAt(n))
    IN  /\ Node(disk, file).kind = "file"
        /\ Asks("fexec", <<Cwd>>, <<n>>)
        /\ Effect(Do("look", disk, IF fixed.new THEN Walk(cwd, fixed.path) ELSE file))

(* fanotify_mark maps its path from the working directory, whatever the    *)
(* descriptor is; a path it leaves alone is the kernel's to look up.       *)
MarkCall(op, fd, n) ==
    /\ Asks(op, <<fd>>, <<n>>)
    /\ OnPath(op, Walk(At(fd), FixPath(n, FALSE).path))

(* A name without "/" is left to the search of libc or of the loader.      *)
SearchCall(op, n) ==
    IF Has("/", n) THEN Asks(op, <<Cwd>>, <<n>>) /\ OnPath(op, PathAt(n))
    ELSE /\ Asks("search", <<Cwd>>, <<n>>)
         /\ OnPath(op, Walk(Walk(<< >>, SearchDir), FixPath(n, TRUE).path))

TwoPathCall(op, n, m) ==
    Asks(op, <<Cwd, Cwd>>, <<n, m>>) /\ Effect(DoTwo(op, disk, PathAt(n), PathAt(m)))
TwoAtCall(op, fd, n, fe, m) ==
    /\ Asks(op, <<fd, fe>>, <<n, m>>)
    /\ Effect(DoTwo(op, disk, PathAtFd(fd, n), PathAtFd(fe, m)))

(* The target of a new link is mapped as it stands.                        *)
Bug_LinkTarget(t) == t
LinkTarget(t) == ApplyMapping(t, Rules).path
SymlinkCall(t, n) ==
    Asks("symlink", <<Cwd>>, <<n, t>>) /\ Effect(DoSymlink(disk, LinkTarget(t), PathAt(n)))
SymlinkatCall(t, fd, n) ==
    Asks("symlink", <<fd>>, <<n, t>>) /\ Effect(DoSymlink(disk, LinkTarget(t), PathAtFd(fd, n)))

(* A path the program is given.                                            *)
Shown(name) == IF ReverseOn THEN ReverseResult(name, Rules, Excluded).path ELSE name

LinkAnswer(node) == IF node.kind = "link" THEN Answer("path", {Shown(node.val)}) ELSE Error
ReadlinkCall(n) == Asks("readlink", <<Cwd>>, <<n>>) /\ Reply(LinkAnswer(Node(disk, PathAt(n))))
ReadlinkatCall(fd, n) ==
    Asks("readlink", <<fd>>, <<n>>) /\ Reply(LinkAnswer(Node(disk, PathAtFd(fd, n))))

(* realpath with its result allocated by libc.                             *)
RealpathCall(n) ==
    LET end == Follow(disk, PathAt(n))
    IN  /\ Asks("realpath", <<Cwd>>, <<n>>)
        /\ Reply(IF Node(disk, end).kind \in {"none", "link"} THEN Error
                 ELSE Answer("path", {Shown(NameOf(end))}))

ChdirCall(n) ==
    LET at == PathAt(n)
    IN  /\ Asks("chdir", <<Cwd>>, <<n>>)
        /\ cwd' = IF IsDir(disk, at) THEN at ELSE cwd
        /\ answer' = IF IsDir(disk, at) THEN Done ELSE Error
        /\ UNCHANGED <<disk, dirfd>>

GetcwdCall ==
    /\ Asks("getcwd", <<Cwd>>, << >>)
    /\ Reply(Answer("path", {ReverseMapping(NameOf(cwd), Rules).path}))

OpendirCall(n) ==
    LET at == PathAt(n)
    IN  /\ Asks("opendir", <<Cwd>>, <<n>>)
        /\ dirfd' = IF IsDir(disk, at) THEN at ELSE dirfd
        /\ answer' = IF IsDir(disk, at) THEN Done ELSE Error
        /\ UNCHANGED <<disk, cwd>>

(* The entries of a directory, renamed from the path it was opened with.   *)
Listing(at, dir) ==
    Answer("names", {IF ReverseOn THEN ListedName(dir, Last(c), Rules, Excluded) ELSE Last(c) :
                        c \in Children(disk, at)})
ReaddirCall ==
    Asks("readdir", <<"fd">>, << >>) /\ dirfd # None /\ Reply(Listing(dirfd, NameOf(dirfd)))
Scan(at, dir) == Reply(IF IsDir(disk, at) THEN Listing(at, dir) ELSE Error)
ScandirCall(n) ==
    Asks("scandir", <<Cwd>>, <<n>>) /\ Scan(PathAt(n), FixPath(n, FALSE).path)
ScandiratCall(fd, n) ==
    /\ Asks("scandir", <<fd>>, <<n>>)
    /\ Scan(PathAtFd(fd, n), FixPath(AbsoluteFromDirfd(fd, n), FALSE).path)

(* mkstemp and the like fill in the copy they are given: the caller's own  *)
(* template, when the path was not mapped. t is the filled-in template.    *)
MkstempCall(t) ==
    /\ Asks("mkstemp", <<Cwd>>, <<t>>)
    /\ Free(disk, PathAt(t))
    /\ disk' = [disk EXCEPT ![PathAt(t)] = File("new")]
    /\ answer' = Answer("path", {IF FixPath(t, FALSE).new THEN Append(Front(t), "XXXXXX") ELSE t})
    /\ UNCHANGED <<cwd, dirfd>>

(* argv[0] of execve, execvp, execveat and posix_spawn when the path was   *)
(* mapped.                                                                 *)
UpdateArgv0(original, fixed) ==
    IF ~fixed.new THEN Same(original) ELSE ApplyMapping(original, Rules)

-----------------------------------------------------------------------------
Init == /\ disk \in Disks /\ cwd \in StartDirs /\ IsDir(disk, cwd)
        /\ dirfd = None /\ loaded = FALSE
        /\ asked = NoRequest /\ answer = Done

Calls ==
    \/ \E op \in PathOps, n \in Names : PathCall(op, n)
    \/ \E op \in AtOps, fd \in OpenFds, n \in Names : AtCall(op, fd, n)
    \/ \E fd \in OpenFds : StatxEmptyPath(fd)
    \/ \E n \in Names : ExecveatEmptyPath(n)
    \/ \E op \in MarkOps, fd \in OpenFds, n \in MarkNames : MarkCall(op, fd, n)
    \/ \E op \in SearchOps, n \in Names : SearchCall(op, n)
    \/ \E op \in TwoOps, n, m \in PairNames : TwoPathCall(op, n, m)
    \/ \E op \in TwoAtOps, fd, fe \in OpenFds, n, m \in PairNames : TwoAtCall(op, fd, n, fe, m)
    \/ \E t \in Targets, n \in PairNames : SymlinkCall(t, n)
    \/ \E t \in Targets, fd \in OpenFds, n \in PairNames : SymlinkatCall(t, fd, n)
    \/ \E n \in Names : ReadlinkCall(n)
    \/ \E fd \in OpenFds, n \in Names : ReadlinkatCall(fd, n)
    \/ \E n \in Names : RealpathCall(n)
    \/ \E n \in Names : ChdirCall(n)
    \/ GetcwdCall
    \/ \E n \in Names : OpendirCall(n)
    \/ ReaddirCall
    \/ \E n \in Names : ScandirCall(n)
    \/ \E fd \in OpenFds, n \in Names : ScandiratCall(fd, n)
    \/ \E t \in Temps : MkstempCall(t)

Return == /\ asked # NoRequest
          /\ asked' = NoRequest /\ answer' = Done
          /\ UNCHANGED <<disk, cwd, dirfd, loaded>>

Next == \/ Load
        \/ loaded /\ asked = NoRequest /\ Calls /\ UNCHANGED loaded
        \/ Return

Spec == Init /\ [][Next]_vars

-----------------------------------------------------------------------------
(* The file system the program sees: its paths, what they are called, and  *)
(* what the links the program makes point to.                              *)
Universe == UNION {DOMAIN d : d \in Disks}
Virtual  == [u \in Universe |-> RefVirtual(u, Rules)]
RealOf   == [p \in {q \in Universe \cup {Virtual[u] : u \in Universe} :
                        /\ ~UnderAnyTo(q, Rules)
                        /\ RefReal(q, Rules, Excluded) \in Universe}
                |-> RefReal(p, Rules, Excluded)]
Pointed  == [t \in {LinkTarget(u) : u \in Targets} |->
                IF Head(t) = "/" THEN NameOf(RefVirtual(Segs(t), Rules)) ELSE t]

VirtualNode(node) == IF node.kind = "link" THEN Link(Pointed[node.val]) ELSE node

Seen == INSTANCE VirtualFS WITH
            tree  <- [p \in DOMAIN RealOf |-> VirtualNode(disk[RealOf[p]])],
            cwd   <- IF loaded THEN Virtual[cwd] ELSE None,
            dirfd <- IF dirfd = None THEN None ELSE Virtual[dirfd]

(* The program with the library behaves as a program without it on the     *)
(* tree it believes in: every lookup, change, link, listing and working    *)
(* directory, in any order.                                                *)
SeenAsVirtual == Seen!Spec

(* Every name reaches its real counterpart, from the working directory     *)
(* and from a descriptor, and an argv[0] that was replaced names the file  *)
(* that is executed.                                                       *)
Counterpart(base, n) == RefReal(Walk(Virtual[base], n), Rules, Excluded)
NamesReach ==
    loaded /\ asked = NoRequest => \A n \in Names :
        /\ PathAt(n) = Counterpart(cwd, n)
        /\ \A fd \in OpenFds : PathAtFd(fd, n) = Counterpart(At(fd), n)
        /\ LET argv0 == UpdateArgv0(n, FixPath(n, FALSE))
           IN  argv0.new => Walk(cwd, argv0.path) = PathAt(n)

(* The directories the library keeps are directories, and the files are of *)
(* the kinds the kernel knows.                                             *)
TypeOK == /\ IsDir(disk, cwd) /\ (dirfd = None \/ IsDir(disk, dirfd))
          /\ loaded \in BOOLEAN
          /\ \A p \in DOMAIN disk : disk[p].kind \in {"none", "dir", "file", "link"}
          /\ answer.is \in {"done", "error", "node", "path", "names"}
=============================================================================
