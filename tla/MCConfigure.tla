----------------------------- MODULE MCConfigure ------------------------------
(***************************************************************************)
(* Module Configure for TLC: specs that differ in one part, and a plain    *)
(* one for the others.                                                     *)
(***************************************************************************)
EXTENDS Configure

CONSTANTS path   \* of a namespace that is joined

TheRootfs == <<"rootfs">>
Beside    == <<"rootfs2">>
AllNames  == STRING
TheLonger == {<<"rootfs2", "rootfs">>}

\* A host with the rootfs and a directory beside it.
Tree(nodes) ==
  LET dirs == {<<>>, Rootfs, Beside}
  IN [p \in dirs \cup {Rootfs \o q : q \in DOMAIN nodes} |->
        IF p \in dirs THEN Dir ELSE nodes[SubSeq(p, 2, Len(p))]]

PlainSpec == [namespaces |-> <<>>, devices |-> <<>>, rules |-> <<>>, mounts |-> <<>>,
              rootfs |-> Tree([q \in {} |-> Dir]), native |-> "x86_64", archs |-> <<>>,
              action |-> "errno", syscalls |-> <<>>]

PlainCall == [args |-> [f \in Flags |-> Nil], env |-> [f \in Flags |-> Nil], file |-> <<>>]

\* Every rootfs of these directories, files and links, and some mounts.
Nodes == {Dir, File, Link(TRUE, <<"run">>), Link(FALSE, <<"run">>), Link(FALSE, <<"..", "run">>),
          Link(FALSE, <<"..", "..", "etc">>), Link(TRUE, <<"rootfs", "run">>),
          Link(TRUE, Beside)}
Places == {<<"var">>, <<"run">>, <<"var", "run">>, <<"run", "run">>}
Trees == UNION {[D -> Nodes] : D \in {E \in SUBSET Places : \A q \in E : Len(q) = 2 => <<q[1]>> \in E}}
Mounts2 == {[dst |-> d, source |-> s, type |-> "bind"] :
              d \in {<<"run">>, <<"var", "run", "x">>, <<"run", "run">>, <<"var", "..", "run">>,
                    <<"..", "run">>, <<"..", "rootfs", "var", "x">>, <<"..", "rootfs2">>},
              s \in {"dir", "file", "none"}}
           \cup {[dst |-> <<"var", "run">>, source |-> "none", type |-> "cgroup"]}
MountSpecs ==
  {[PlainSpec EXCEPT !.rootfs = Tree(t), !.mounts = <<m>>] :
     t \in {u \in Trees : \A q \in DOMAIN u : Len(q) = 2 => u[<<q[1]>>].kind = "dir"}, m \in Mounts2}

\* Up to three namespaces, known or not, new or joined.
NamespaceSpecs ==
  {[PlainSpec EXCEPT !.namespaces = ns] :
     ns \in BoundedSeq([type : Namespaces \cup {"time"}, path : {Nil, path}], 3)}

\* Rules of every type and devices with and without a group.
DeviceSpecs ==
  {[PlainSpec EXCEPT !.devices = ds, !.rules = rs] :
     ds \in {<<>>, <<Device("/dev/null", 1, 3)>>, <<[Device("/dev/fuse", 10, 229) EXCEPT !.gid = Nil]>>},
     rs \in {<<>>, <<Rule(FALSE, anyDevice, Nil, Nil)>>, <<Rule(TRUE, anyDevice, Nil, Nil)>>,
             <<Rule(FALSE, anyDevice, Nil, Nil), Rule(TRUE, "c", 1, Nil)>>,
             <<Rule(FALSE, anyDevice, Nil, Nil), Rule(TRUE, anyDevice, 1, 3)>>,
             <<Rule(TRUE, "b", Nil, Nil), Rule(FALSE, "c", 1, 4)>>, <<Rule(TRUE, "a", Nil, Nil)>>,
             <<Rule(TRUE, "c", 1, 3), Rule(FALSE, anyDevice, Nil, Nil)>>}}

\* TrimLeft cuts all leading letters of "SCMP_ARCH_".
TrimmedArchs == [x86_64 |-> "x86_64", x86 |-> "x86", aarch64 |-> "64"]

Syscall(names, action, args) == [names |-> names, action |-> action, args |-> args]
SeccompSpecs ==
  {[PlainSpec EXCEPT !.native = a, !.archs = as, !.action = d, !.syscalls = scs] :
     a \in {"x86_64", "aarch64"},
     as \in {<<>>, <<"x86", "x86_64">>, <<"x86">>, <<"aarch64">>},
     d \in {"errno", "allow", "log"},
     scs \in {<<Syscall(<<"read", "write">>, "allow", <<>>)>>,
              <<Syscall(<<"clone">>, "allow", <<0>>), Syscall(<<"read">>, "kill", <<>>)>>,
              <<Syscall(<<"clone", "read">>, "errno", <<0>>), Syscall(<<"clone">>, "trap", <<1>>)>>,
              <<Syscall(<<"clone">>, "allow", <<0, 1>>)>>,
              <<Syscall(<<"read">>, "trace", <<>>)>>}}

\* One feature set everywhere, the other nowhere.
Line(f, v) == [flag |-> f, value |-> v]
Calls ==
  {[PlainCall EXCEPT !.args["seccomp"] = a, !.env["seccomp"] = e, !.file = l] :
     a \in {Nil, TRUE, FALSE}, e \in ValueType,
     l \in {<<>>, <<Line("comment", Nil), Line("seccomp", FALSE)>>, <<Line("seccomp", Invalid)>>,
            <<Line("seccomp", FALSE), Line("seccomp", Blank)>>,
            <<Line("seccomp", FALSE), Line("seccomp", TRUE)>>,
            <<Line("cgroup-devices", FALSE), Line("seccomp", FALSE)>>,
            <<Line("seccomp", TRUE), Line("malformed", Nil)>>}}

AllInputs ==
  (MountSpecs \cup NamespaceSpecs \cup DeviceSpecs \cup SeccompSpecs) \X {PlainCall}
    \cup {CHOOSE s \in SeccompSpecs : s.action = "errno" /\ s.native = "x86_64"} \X Calls

=============================================================================
