------------------------------ MODULE FileTree ------------------------------
(***************************************************************************)
(* A small file system: what the kernel does with the path it is given. It *)
(* is not code of the repository. Paths of the tree are sequences of       *)
(* segments, the root is << >>; names and link targets are strings, that   *)
(* is sequences of tokens (module PathRules). No component of a path but   *)
(* the last one is a symbolic link.                                        *)
(***************************************************************************)
EXTENDS Naturals, Sequences, SequencesExt

Absent    == [kind |-> "none", val |-> << >>]
Directory == [kind |-> "dir",  val |-> << >>]
File(c)   == [kind |-> "file", val |-> <<c>>]
Link(t)   == [kind |-> "link", val |-> t]

(* No directory: what is not a path of any tree.                           *)
None == << <<"none">> >>

(* The non-empty segments of a name, and the name of a path.               *)
Segs(name) ==
    LET Add(acc, t) == IF t = "/" THEN Append(acc, << >>)
                       ELSE [acc EXCEPT ![Len(acc)] = Append(@, t)]
    IN  SelectSeq(FoldLeft(Add, << << >> >>, name), LAMBDA s : s # << >>)

NameOf(path) ==
    IF path = << >> THEN <<"/">>
    ELSE FoldLeft(LAMBDA acc, s : acc \o <<"/">> \o s, << >>, path)

(* Where a name leads from a directory.                                    *)
Walk(base, name) ==
    LET Enter(at, s) == CASE s = <<".">>      -> at
                          [] s = <<".", ".">> -> IF at = << >> THEN at ELSE Front(at)
                          [] OTHER            -> Append(at, s)
        start == IF name # << >> /\ Head(name) = "/" THEN << >> ELSE base
    IN  FoldLeft(Enter, start, Segs(name))

Node(tree, at) == IF at \in DOMAIN tree THEN tree[at] ELSE Absent
IsDir(tree, at) == Node(tree, at).kind = "dir"

(* At most three links are followed.                                       *)
Follow(tree, at) ==
    LET Hop(a) == IF Node(tree, a).kind = "link"
                  THEN Walk(Front(a), Node(tree, a).val) ELSE a
    IN  Hop(Hop(Hop(at)))

Children(tree, at) == {p \in DOMAIN tree : /\ p # << >> /\ Front(p) = at
                                           /\ tree[p].kind # "none"}

(* There is room for a new entry.                                          *)
Free(tree, at) == /\ at \in DOMAIN tree /\ at # << >>
                  /\ tree[at].kind = "none" /\ IsDir(tree, Front(at))

(* What a call gives back.                                                 *)
Answer(is, data) == [is |-> is, data |-> data]
Done  == Answer("done", {})
Error == Answer("error", {})
NodeAnswer(node) == IF node.kind = "none" THEN Error
                    ELSE Answer("node", {<<node.kind>> \o node.val})

(* What a program asks for: the call, and for each name the descriptor it  *)
(* is looked up from.                                                      *)
Fds == {"AT_FDCWD", "fd"}
Request(op, fds, names) == [op |-> op, fds |-> fds, names |-> names]
NoRequest == Request("none", << >>, << >>)

OnePathOps == {"look", "lookl", "write", "change", "create", "mkdir", "unlink", "rmdir"}
TwoPathOps == {"rename", "link", "look2"}
NameOps    == {"search", "realpath", "chdir", "opendir", "scandir", "readlink",
               "fexec"}

PlainOps   == {"self", "getcwd", "readdir", "symlink", "mkstemp"}
Requests(names) == [op : OnePathOps \cup TwoPathOps \cup NameOps \cup PlainOps,
                    fds : Seq(Fds), names : Seq(names)]

(* The calls on one path: the tree and the answer after the call. "write"  *)
(* makes a file that is not there, "change" does not, "create" makes only  *)
(* new ones. Owners, modes and times are not kept: a call that sets them   *)
(* looks its path up.                                                      *)
Result(tree, answer) == [tree |-> tree, answer |-> answer]

Do(op, tree, at) ==
    LET end  == Follow(tree, at)
        node == Node(tree, at)
    IN  CASE op = "look" ->
                Result(tree, IF Node(tree, end).kind = "link" THEN Error
                             ELSE NodeAnswer(Node(tree, end)))
          [] op = "lookl" ->
                Result(tree, IF node.kind = "link" THEN Answer("node", {<<"link">>})
                             ELSE NodeAnswer(node))
          [] op = "write" ->
                IF Free(tree, end) \/ Node(tree, end).kind = "file"
                THEN Result([tree EXCEPT ![end] = File("new")], Done)
                ELSE Result(tree, Error)
          [] op = "change" ->
                IF Node(tree, end).kind = "file"
                THEN Result([tree EXCEPT ![end] = File("new")], Done)
                ELSE Result(tree, Error)
          [] op \in {"create", "mkdir"} ->
                IF Free(tree, at)
                THEN Result([tree EXCEPT ![at] = IF op = "mkdir" THEN Directory ELSE File("new")],
                            Done)
                ELSE Result(tree, Error)
          [] op \in {"unlink", "rmdir"} ->
                IF /\ IF op = "rmdir" THEN node.kind = "dir" ELSE node.kind \in {"file", "link"}
                   /\ Children(tree, at) = {} /\ at # << >>
                THEN Result([tree EXCEPT ![at] = Absent], Done)
                ELSE Result(tree, Error)

(* The calls on two paths; directories are not moved.                      *)
DoTwo(op, tree, at, to) ==
    LET node == Node(tree, at)
        both == /\ node.kind \in {"file", "link"} /\ at # to
    IN  CASE op = "rename" ->
                IF both /\ (Free(tree, to) \/ Node(tree, to).kind \in {"file", "link"})
                THEN Result([tree EXCEPT ![to] = node, ![at] = Absent], Done)
                ELSE Result(tree, Error)
          [] op = "link" ->
                IF both /\ Free(tree, to) THEN Result([tree EXCEPT ![to] = node], Done)
                ELSE Result(tree, Error)
          [] op = "look2" ->
                Result(tree, IF Error \in {Do("look", tree, p).answer : p \in {at, to}}
                             THEN Error ELSE Done)

DoSymlink(tree, target, at) ==
    IF Free(tree, at) THEN Result([tree EXCEPT ![at] = Link(target)], Done)
    ELSE Result(tree, Error)
=============================================================================
