------------------------------ MODULE MCObjects ------------------------------
(***************************************************************************)
(* Tables of the kernel, the network, and the dynamic linker.  They share  *)
(* no state: focus, chosen at the start, is the one that moves, so a run   *)
(* explores the sum of their state spaces.                                 *)
(***************************************************************************)
EXTENDS Heap, Descriptors, Areas, Inotify, Tcp, Tls, Ldso, Elf, TLC

VARIABLE focus

MCNodePaths == {<<>>, <<"d">>, <<"e">>, <<"d", "x">>, <<"e", "x">>}
MCFirstTree == << <<>>, <<"d">>, <<"d", "x">> >>
MCDirPaths == {<<>>, <<"d">>, <<"e">>}
MCMaskForms == {Listed \cup {"DELETE_SELF", "MOVE_SELF", "MODIFY"},
                {"DELETE_SELF", "MOVED_TO", "ONESHOT", "MOVE_SELF"}}

MCLibs == {"a", "b", "c", "d"}
MCNone == [l \in MCLibs |-> <<>>]
MCWorld(n, o, i, x) ==
  [needs |-> n @@ MCNone, opens |-> o @@ MCNone,
   imports |-> i @@ [l \in MCLibs |-> {}],
   exports |-> [l \in MCLibs |-> {l}], absent |-> x]
MCDiamond == "a" :> <<"b", "c">> @@ "b" :> <<"d">> @@ "c" :> <<"d">>
\* A diamond that binds and one that cannot, a constructor that opens, a cycle,
\* and a library whose last dependency is missing.
MCWorlds ==
  {MCWorld(MCDiamond, MCNone, "a" :> {"b", "d"} @@ "c" :> {"d"}, {}),
   MCWorld(MCDiamond, MCNone, "a" :> {"b", "z"} @@ "c" :> {"d"}, {}),
   MCWorld("a" :> <<"b">> @@ "b" :> <<"c">>, "b" :> <<"d">>, "b" :> {"c"}, {}),
   MCWorld("a" :> <<"b">> @@ "b" :> <<"c">> @@ "c" :> <<"a">>,
           "d" :> <<"b">>, "b" :> {"c"}, {}),
   MCWorld("a" :> <<"b", "c">> @@ "b" :> <<"d">>, "b" :> <<"c">>, "b" :> {"d"}, {"c"})}

MCSeg(o, f, v, m, fl) ==
  [offset |-> o, filesz |-> f, vaddr |-> v, memsz |-> m, flags |-> fl]
MCRela(k, a, d) == [kind |-> k, at |-> a, addend |-> d]
\* A position-independent image that needs no interpreter, one that does, one at
\* fixed addresses, a text file, and the interpreter.
MCPlain ==
  [name |-> "plain", type |-> "dyn", size |-> 6, phdrs |-> 3, phoff |-> 1, phdr |-> -1,
   entry |-> 3, start |-> 1, interps |-> <<>>,
   relas |-> <<MCRela("relative", 5, 3), MCRela("none", 0, 0), MCRela("relative", 6, 5)>>,
   segments |-> <<MCSeg(0, 3, 2, 3, {"X"}), MCSeg(4, 2, 5, 4, {"W"})>>]
MCLinked ==
  [MCPlain EXCEPT !.name = "linked", !.interps = <<"ld">>, !.phdr = 3, !.relas = <<>>,
     !.segments = <<MCSeg(0, 3, 2, 3, {"X"}), MCSeg(3, 0, 0, 0, {}), MCSeg(4, 1, 7, 1, {"W"})>>]
MCFixed ==
  [MCPlain EXCEPT !.name = "fixed", !.type = "exec", !.relas = <<MCRela("copy", 0, 0)>>,
     !.entry = 9, !.segments = <<MCSeg(1, 2, 9, 2, {"X"})>>]
MCText == [MCPlain EXCEPT !.name = "text", !.type = "none"]
MCLd ==
  [MCPlain EXCEPT !.name = "ld", !.entry = 0, !.start = 2,
     !.segments = <<MCSeg(2, 2, 0, 3, {"X"}), MCSeg(4, 1, 4, 2, {"W"})>>]
MCLost(p) == [MCPlain EXCEPT !.interps = p]
MCInterps == "ld" :> MCLd @@ "no" :> MCText @@ "static" :> MCFixed @@ "deep" :> MCLinked
\* The images above, and one for each reason the loader has to refuse an image.
MCImages ==
  {MCPlain, MCLinked, MCFixed, MCText, MCLost(<<"ld", "ld">>), MCLost(<<"gone">>),
   MCLost(<<"no">>), MCLost(<<"static">>), MCLost(<<"deep">>),
   [MCPlain EXCEPT !.segments = <<>>], [MCPlain EXCEPT !.relas = <<MCRela("copy", 0, 0)>>],
   [MCFixed EXCEPT !.segments[1].vaddr = 4], [MCPlain EXCEPT !.segments[2].offset = 5],
   [MCPlain EXCEPT !.segments[2].memsz = 1]}
MCArg(n, l) == [name |-> n, len |-> l]
\* No argument, arguments that fit, too long ones, and too many.
MCArgs ==
  {[argv |-> <<>>, envp |-> <<>>],
   [argv |-> <<MCArg("a", 3), MCArg("b", 8)>>, envp |-> <<MCArg("c", 2)>>],
   [argv |-> <<MCArg("a", 1)>>, envp |-> <<MCArg("c", 5), MCArg("d", 16)>>],
   [argv |-> <<MCArg("a", 1), MCArg("a", 1), MCArg("a", 1)>>, envp |-> <<>>]}

\* What a program builds on: a new image holds what its file and its arguments
\* say, libraries are loaded, constructed, bound and undone in the right order,
\* a reader of inotify events ends up believing what is there, and TLS returns
\* what the server sent.
ProgramsSafe ==
  /\ focus = "tls" => TlsSafe
  /\ focus = "inotify" => InotifySafe
  /\ focus = "elf" => ElfSafe
  /\ focus = "ldso" => LdsoSafe

ObjectsInit ==
  /\ focus \in {"heap", "descriptors", "areas", "inotify", "tcp", "tls", "ldso", "elf"}
  /\ HeapInit /\ FdInit /\ AreasInit /\ InotifyInit /\ TcpInit
  /\ TlsInit /\ LdsoInit /\ ElfInit
  /\ focus # "ldso" => world = CHOOSE w \in Worlds : TRUE

ObjectsNext ==
  /\ UNCHANGED focus
  /\ \/ /\ focus = "heap" /\ HeapNext
        /\ UNCHANGED <<fdVars, areaVars, inotifyVars, tcpVars, tlsVars, ldsoVars,
                       elfVars>>
     \/ /\ focus = "descriptors" /\ FdNext
        /\ UNCHANGED <<heapVars, areaVars, inotifyVars, tcpVars, tlsVars, ldsoVars,
                       elfVars>>
     \/ /\ focus = "areas" /\ AreasNext
        /\ UNCHANGED <<heapVars, fdVars, inotifyVars, tcpVars, tlsVars, ldsoVars,
                       elfVars>>
     \/ /\ focus = "inotify" /\ InotifyNext
        /\ UNCHANGED <<heapVars, fdVars, areaVars, tcpVars, tlsVars, ldsoVars, elfVars>>
     \/ /\ focus = "tcp" /\ TcpNext
        /\ UNCHANGED <<heapVars, fdVars, areaVars, inotifyVars, tlsVars, ldsoVars,
                       elfVars>>
     \/ /\ focus = "tls" /\ TlsNext
        /\ UNCHANGED <<heapVars, fdVars, areaVars, inotifyVars, tcpVars, ldsoVars,
                       elfVars>>
     \/ /\ focus = "ldso" /\ LdsoNext
        /\ UNCHANGED <<heapVars, fdVars, areaVars, inotifyVars, tcpVars, tlsVars,
                       elfVars>>
     \/ /\ focus = "elf" /\ ElfNext
        /\ UNCHANGED <<heapVars, fdVars, areaVars, inotifyVars, tcpVars, tlsVars,
                       ldsoVars>>

objectsVars == <<focus, heapVars, fdVars, areaVars, inotifyVars, tcpVars, tlsVars,
  ldsoVars, elfVars>>
ObjectsSpec == ObjectsInit /\ [][ObjectsNext]_objectsVars

\* States differ in the component that moves.
Moving ==
  CASE focus = "heap" -> <<focus, heapVars>>
    [] focus = "descriptors" -> <<focus, fdVars>>
    [] focus = "areas" -> <<focus, areaVars>>
    [] focus = "inotify" -> <<focus, inotifyVars>>
    [] focus = "tcp" -> <<focus, tcpVars>>
    [] focus = "tls" -> <<focus, tlsVars>>
    [] focus = "ldso" -> <<focus, ldsoVars>>
    [] focus = "elf" -> <<focus, elfVars>>
=============================================================================
