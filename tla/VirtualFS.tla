------------------------------ MODULE VirtualFS ------------------------------
(***************************************************************************)
(* What path-mapping.so promises: a program that runs with a path mapping  *)
(* sees one file system, in which its own names mean what they say. This   *)
(* is the same program without any mapping, on the tree it believes in.    *)
(***************************************************************************)
EXTENDS FileTree

CONSTANTS Names,      \* names the program uses
          Targets,    \* targets of the symbolic links it makes
          Temps,      \* templates it gives to mkstemp, already filled in
          SearchDir   \* where programs and libraries are searched

VARIABLES tree,       \* the files, by path
          cwd,        \* the working directory
          dirfd,      \* the directory held open by a descriptor
          asked,      \* the call in progress
          answer      \* its answer

vars == <<tree, cwd, dirfd, asked, answer>>

IsFile(at) == Node(tree, at).kind \notin {"none", "link"}

Init == cwd = None /\ dirfd = None /\ asked = NoRequest /\ answer = Done

(* The program starts in some directory; PWD, when it is set, names it.    *)
Start == /\ cwd = None /\ IsDir(tree, cwd')
         /\ asked' = Request("load", << >>, << >>)
         /\ answer' \in {Done, Answer("path", {NameOf(cwd')})}
         /\ UNCHANGED <<tree, dirfd>>

(* Names are looked up from the working directory or from the descriptor.  *)
Base(fd) == IF fd = "fd" THEN dirfd ELSE cwd
Arg(i) == Walk(Base(asked'.fds[i]), asked'.names[i])

Effect(r) == tree' = r.tree /\ answer' = r.answer /\ UNCHANGED <<cwd, dirfd>>
Reply(a) == answer' = a /\ UNCHANGED <<tree, cwd, dirfd>>

OnePath  == asked'.op \in OnePathOps /\ Effect(Do(asked'.op, tree, Arg(1)))
TwoPaths == asked'.op \in TwoPathOps /\ Effect(DoTwo(asked'.op, tree, Arg(1), Arg(2)))

Search == /\ asked'.op = "search"
          /\ Effect(Do("look", tree, Walk(Walk(<< >>, SearchDir), asked'.names[1])))

Descriptor == asked'.op = "self" /\ Effect(Do("look", tree, Base(asked'.fds[1])))

(* Limit: a program that executes a file it has open may be given the      *)
(* working directory, whose execution fails, instead of the file.          *)
Execute == /\ asked'.op = "fexec"
           /\ \E at \in {Arg(1), cwd} : Effect(Do("look", tree, at))

MakeLink == asked'.op = "symlink" /\ Effect(DoSymlink(tree, asked'.names[2], Arg(1)))

ReadLink == /\ asked'.op = "readlink"
            /\ Reply(IF Node(tree, Arg(1)).kind = "link"
                     THEN Answer("path", {Node(tree, Arg(1)).val}) ELSE Error)

RealPath == /\ asked'.op = "realpath"
            /\ LET end == Follow(tree, Arg(1))
               IN  Reply(IF IsFile(end) THEN Answer("path", {NameOf(end)}) ELSE Error)

ChangeDir == /\ asked'.op = "chdir"
             /\ cwd' = IF IsDir(tree, Arg(1)) THEN Arg(1) ELSE cwd
             /\ answer' = IF IsDir(tree, Arg(1)) THEN Done ELSE Error
             /\ UNCHANGED <<tree, dirfd>>

CurrentDir == asked'.op = "getcwd" /\ Reply(Answer("path", {NameOf(cwd)}))

OpenDir == /\ asked'.op = "opendir"
           /\ dirfd' = IF IsDir(tree, Arg(1)) THEN Arg(1) ELSE dirfd
           /\ answer' = IF IsDir(tree, Arg(1)) THEN Done ELSE Error
           /\ UNCHANGED <<tree, cwd>>

Entries(at) == Answer("names", {Last(c) : c \in Children(tree, at)})

ReadDir == asked'.op = "readdir" /\ Reply(Entries(dirfd))
ScanDir == asked'.op = "scandir" /\ Reply(IF IsDir(tree, Arg(1)) THEN Entries(Arg(1)) ELSE Error)

TempFile == /\ asked'.op = "mkstemp"
            /\ tree' = [tree EXCEPT ![Arg(1)] = File("new")]
            /\ answer' = Answer("path", {asked'.names[1]})
            /\ UNCHANGED <<cwd, dirfd>>

Call == /\ asked = NoRequest /\ cwd # None
        /\ asked' \in Requests(Names \cup Targets \cup Temps)
        /\ \/ OnePath \/ TwoPaths \/ Search \/ Descriptor \/ Execute \/ MakeLink \/ ReadLink
           \/ RealPath \/ ChangeDir \/ CurrentDir \/ OpenDir \/ ReadDir \/ ScanDir \/ TempFile

Return == /\ asked # NoRequest
          /\ asked' = NoRequest /\ answer' = Done
          /\ UNCHANGED <<tree, cwd, dirfd>>

Next == Start \/ Call \/ Return

Spec == Init /\ [][Next]_vars
=============================================================================
