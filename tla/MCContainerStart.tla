-------------------------- MODULE MCContainerStart --------------------------
(* Instances of ContainerStart for TLC. *)
EXTENDS ContainerStart

Place == <<"srv", "r">>

\* /lib is here one of the directories below it that mkdir_p makes on the way.
Dirs == << <<"bin">>, <<"proc">> >>

Bin(name) == <<"bin", name>>
Lib(name) == <<"lib", name>>

ToolPaths == <<Bin("sh"), Bin("sleep")>>

WorkloadPaths == << << <<"srv", "w">>, Bin("w") >> >>

\* "broken" asks for a library the host does not have.
Libraries == [p \in {"sh", "sleep", "w", "box", "libc", "broken"} |->
                CASE p = "broken" -> <<Lib("c"), NotFound>>
                  [] p = "libc" -> << >>
                  [] OTHER -> <<Lib("c")>>]

Tree(S) == [p \in {e[1] : e \in S} |-> (CHOOSE e \in S : e[1] = p)[2]]

Prog(p) == File(p, TRUE)

Common == {<<<<"srv">>, Dir>>}
Split == Common \cup {<<<<"bin">>, Dir>>, <<<<"lib">>, Dir>>}
Merged == Common \cup
    {<<<<"usr">>, Dir>>, <<<<"usr", "bin">>, Dir>>, <<<<"usr", "lib">>, Dir>>, <<<<"etc">>, Dir>>,
     <<<<"bin">>, Link(FALSE, <<"usr", "bin">>)>>, <<<<"lib">>, Link(FALSE, <<"usr", "lib">>)>>}

\* Files only, and a workload that was built.
Plain == Split \cup
    {<<Bin("sh"), Prog("sh")>>, <<Bin("sleep"), Prog("sleep")>>, <<Lib("c"), Prog("libc")>>,
     <<<<"srv", "w">>, Prog("w")>>}

\* One program behind relative and absolute links, a library behind two.
Linked == Split \cup
    {<<Bin("sh"), Link(FALSE, <<"box">>)>>, <<Bin("sleep"), Link(TRUE, Bin("box"))>>,
     <<Bin("box"), Prog("box")>>, <<Lib("c"), Link(FALSE, <<"c.so">>)>>,
     <<Lib("c.so"), Link(TRUE, Lib("c6"))>>, <<Lib("c6"), Prog("libc")>>}

\* /bin and /lib are links themselves, and a link goes up from there.
MergedUsr == Merged \cup
    {<<<<"usr", "bin", "sh">>, Link(FALSE, <<"box">>)>>, <<<<"usr", "bin", "box">>, Prog("sh")>>,
     <<<<"usr", "bin", "sleep">>, Prog("sleep")>>,
     <<<<"usr", "lib", "c">>, Link(FALSE, <<"..", "lib", "c6">>)>>,
     <<<<"usr", "lib", "c6">>, Prog("libc")>>}

\* ... further up than the text of the path allows.
Climbing == Merged \cup
    {<<<<"usr", "bin", "sh">>, Link(FALSE, <<"..", "..", "etc", "sh">>)>>,
     <<<<"etc", "sh">>, Prog("sh")>>, <<<<"usr", "bin", "sleep">>, Prog("sleep")>>,
     <<<<"usr", "lib", "c">>, Prog("libc")>>}

\* A tool is missing; a library is missing.
NoSleep == {e \in Plain : e[1] # Bin("sleep")}
Broken == {e \in Plain : e[1] # Bin("sleep")} \cup {<<Bin("sleep"), Prog("broken")>>}

\* Left in the rootfs by an earlier call: a torn file, a link the host had then.
Left == {<<Place, Dir>>, <<Place \o <<"bin">>, Dir>>}
Torn == Linked \cup Left \cup
    {<<Place \o Bin("sh"), Link(FALSE, <<"sleep">>)>>, <<Place \o Bin("box"), File("sh", FALSE)>>}
StaleNear == Plain \cup Left \cup {<<Place \o Bin("sh"), Link(FALSE, <<"sleep">>)>>}
StaleFar == Plain \cup Left \cup
    {<<Bin("box"), Prog("box")>>, <<Place \o Bin("sh"), Link(TRUE, Bin("box"))>>}

\* Links that lead nowhere, and files, where a directory is wanted.
Dangles == Plain \cup {<<Place, Link(TRUE, <<"gone">>)>>}

LibDangles == Plain \cup Left \cup {<<Place \o <<"lib">>, Link(TRUE, <<"gone">>)>>}
LibIsFile == Plain \cup Left \cup {<<Place \o <<"lib">>, Prog("w")>>}
BinIsFile == Plain \cup {<<Place, Dir>>, <<Place \o <<"bin">>, Prog("w")>>}

HostTrees == {Tree(S) : S \in {Plain, Linked, MergedUsr, Climbing, NoSleep, Broken,
                               Torn, StaleNear, StaleFar, Dangles,
                               LibDangles, LibIsFile, BinIsFile}}

Sleep == Bin("sleep")
=============================================================================
