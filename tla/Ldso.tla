-------------------------------- MODULE Ldso --------------------------------
(***************************************************************************)
(* Shared libraries of a process: dlopen and dlclose of the user library   *)
(* (libc/dlfcn.c), which run constructors and destructors one call at a    *)
(* time, over the loader of the kernel (user/ldso.c).  The library's lock  *)
(* is recursive and lets one thread in, so the calls of one thread nest and*)
(* those of two do not overlap: the model is a stack of calls.             *)
(***************************************************************************)
EXTENDS Integers, Sequences, SequencesExt, FiniteSets

CONSTANTS
  Libs,        \* libraries, each a file with a path of its own
  Worlds,      \* what the files say, a record: needs (lib -> DT_NEEDED), opens
               \* (lib -> what its first constructor opens), imports and exports
               \* (lib -> symbols), absent (files that are not there)
  MaxHandles   \* handles of a library the program keeps open

ASSUME LdsoAssumption ==
  /\ MaxHandles \in Nat \ {0}
  /\ \A w \in Worlds :
       /\ w.needs \in [Libs -> Seq(Libs)] /\ w.opens \in [Libs -> Seq(Libs)]
       /\ w.absent \subseteq Libs

LdsoEntries == <<1, 2>>   \* DT_INIT and an element of init_array; the same for FINI
Program == "program"
Callers == Libs \cup {Program}

VARIABLES
  world,
  linked,    \* g_loaded_libs of this address space, the newest first
  objects,   \* library -> its loaded_lib_t, while there is one
  handles,   \* who called dlopen -> library -> handles it has not closed
  calls,     \* the stack of calls, the innermost last
  answer,    \* what the last load returned
  built,     \* library -> constructors run since it was last loaded, in order
  undone     \* the same for destructors

ldsoVars == <<world, linked, objects, handles, calls, answer, built, undone>>

NoObject == [refs |-> 0, deps |-> <<>>, bound |-> {}, loading |-> FALSE,
             initializing |-> FALSE, initialized |-> FALSE, finalized |-> FALSE]
Call(o, l) == [op |-> o, lib |-> l, n |-> 0, by |-> Program, left |-> <<>>]
Chained == {linked[i] : i \in DOMAIN linked}
Without(s, x) == SelectSeq(s, LAMBDA y : y # x)

LdsoInit ==
  /\ world \in Worlds
  /\ linked = <<>>
  /\ objects = [l \in Libs |-> NoObject]
  /\ handles = [c \in Callers |-> [l \in Libs |-> 0]]
  /\ calls = <<>>
  /\ answer = TRUE
  /\ built = [l \in Libs |-> <<>>]
  /\ undone = [l \in Libs |-> <<>>]

(***************************************************************************)
(* The stack of calls.                                                     *)
(***************************************************************************)
Running == calls # <<>>
CurrentCall == calls[Len(calls)]
Below == SubSeq(calls, 1, Len(calls) - 1)
Goes(c) == Below \o <<c>>                       \* the call goes on as c
LdsoCalls(c, d) == Below \o <<c, d>>                \* and calls d
StageOf(o) == Running /\ CurrentCall.op = o

(***************************************************************************)
(* Orders of constructors and destructors.                                 *)
(***************************************************************************)
\* ldso_collect_init_order: dependencies first, initialized objects left out.
RECURSIVE ldso_collect_init_order(_, _), InitAll(_, _)
InitAll(deps, order) ==
  IF deps = <<>> THEN order
  ELSE InitAll(Tail(deps), ldso_collect_init_order(Head(deps), order))
ldso_collect_init_order(l, order) ==
  IF objects[l].initialized \/ Contains(order, l) THEN order
  ELSE Append(InitAll(objects[l].deps, order), l)

RECURSIVE ReachableFrom(_)
ReachableFrom(ls) ==
  LET next == ls \cup UNION {{objects[l].deps[i] : i \in DOMAIN objects[l].deps} : l \in ls}
  IN IF next = ls THEN ls ELSE ReachableFrom(next)

\* References that the objects of ls hold on l.
EdgesFrom(ls, l) ==
  Cardinality({e \in ls \X (1 .. Cardinality(Libs)) :
                 e[2] \in DOMAIN objects[e[1]].deps /\ objects[e[1]].deps[e[2]] = l})

\* ldso_will_unload, repeated until no further object joins.
RECURSIVE ldso_will_unload(_, _)
ldso_will_unload(reachable, ls) ==
  LET next == ls \cup {l \in reachable : EdgesFrom(ls, l) >= objects[l].refs}
  IN IF next = ls THEN ls ELSE ldso_will_unload(reachable, next)

\* ldso_collect_fini_order: an object before its dependencies, the last of
\* these first.
RECURSIVE ldso_collect_fini_order(_, _, _), FiniAll(_, _, _)
FiniAll(deps, unload, order) ==
  IF deps = <<>> THEN order
  ELSE FiniAll(SubSeq(deps, 1, Len(deps) - 1), unload,
               ldso_collect_fini_order(deps[Len(deps)], unload, order))
ldso_collect_fini_order(l, unload, order) ==
  IF Contains(order, l) \/ l \notin unload THEN order
  ELSE FiniAll(objects[l].deps, unload, Append(order, l))

FiniOrder(root) ==
  ldso_collect_fini_order(root,
    ldso_will_unload(ReachableFrom({root}), {root}), <<>>)

\* The callbacks of the objects of an order, one after the other.
EntriesOf(order, es) ==
  [i \in 1 .. Len(order) * Len(es) |->
     [lib |-> order[((i - 1) \div Len(es)) + 1], entry |-> es[((i - 1) % Len(es)) + 1]]]

(***************************************************************************)
(* dlopen.                                                                 *)
(***************************************************************************)
Opening(c, l) == <<[Call("open", l) EXCEPT !.by = c], Call("load", l)>>

ProgramOpens(l) ==
  /\ ~Running /\ handles[Program][l] < MaxHandles
  /\ calls' = Opening(Program, l)
  /\ UNCHANGED <<world, linked, objects, handles, answer, built, undone>>

\* ldso_load_vfs_named: an object that is there gets a reference, unless it is
\* still loading (a cycle); else ldso_load_source publishes a new one.
LoadBegins ==
  /\ StageOf("load") /\ CurrentCall.n = 0
  /\ LET l == CurrentCall.lib IN
       \/ /\ l \in Chained \cup world.absent
          /\ answer' = (l \in Chained /\ ~objects[l].loading)
          /\ objects' = IF answer' THEN [objects EXCEPT ![l].refs = @ + 1] ELSE objects
          /\ calls' = Below
          /\ UNCHANGED <<linked, built, undone>>
       \/ /\ l \notin Chained \cup world.absent
          /\ objects' = [objects EXCEPT ![l] = [NoObject EXCEPT !.refs = 1, !.loading = TRUE]]
          /\ linked' = <<l>> \o linked
          /\ calls' = Goes([CurrentCall EXCEPT !.n = 1])
          /\ answer' = TRUE
          /\ built' = [built EXCEPT ![l] = <<>>] /\ undone' = [undone EXCEPT ![l] = <<>>]
  /\ UNCHANGED <<world, handles>>

\* ldso_resolve_object_symbol: the newest object that exports the symbol.
Provider(s) ==
  LET ps == {i \in DOMAIN linked : s \in world.exports[linked[i]]}
  IN {linked[i] : i \in {j \in ps : \A k \in ps : j <= k}}

\* The rest of ldso_load_source: take the dependency that was just loaded and
\* load the next; after the last, relocate.  A failure sheds what was taken.
LoadGoesOn ==
  /\ StageOf("load") /\ CurrentCall.n > 0
  /\ LET l == CurrentCall.lib
         needed == world.needs[l]
         k == CurrentCall.n
         deps == IF k = 1 THEN <<>> ELSE SubSeq(needed, 1, k - 1)
         bound == {<<s, p>> \in world.imports[l] \X Libs : p \in Provider(s)}
         resolved == \A s \in world.imports[l] : Provider(s) # {}
     IN \/ /\ answer /\ k <= Len(needed)
           /\ objects' = [objects EXCEPT ![l].deps = deps]
           /\ calls' = LdsoCalls([CurrentCall EXCEPT !.n = k + 1], Call("load", needed[k]))
           /\ UNCHANGED <<linked, answer>>
        \/ /\ answer /\ k > Len(needed) /\ resolved
           /\ objects' = [objects EXCEPT ![l].deps = deps, ![l].bound = bound,
                                         ![l].loading = FALSE]
           /\ calls' = Below
           /\ UNCHANGED <<linked, answer>>
        \/ /\ ~answer \/ (k > Len(needed) /\ ~resolved)
           /\ answer' = FALSE
           /\ linked' = Without(linked, l)
           /\ objects' = IF answer THEN [objects EXCEPT ![l].deps = deps] ELSE objects
           /\ calls' = Goes(Call("shed", l))
  /\ UNCHANGED <<world, handles, built, undone>>

\* ldso_init_next and dl_run_callbacks: the order is collected anew for every
\* constructor, which the ordinal picks.  An object whose own initialization
\* is under way, asked for its first, is given back as it is.
OpenGoesOn ==
  /\ StageOf("open")
  /\ LET l == CurrentCall.lib
         order == ldso_collect_init_order(l, <<>>)
         entries == EntriesOf(order, LdsoEntries)
         ordinal == CurrentCall.n
         marked == [m \in Libs |->
           IF ordinal = 0 /\ Contains(order, m)
           THEN [objects[m] EXCEPT !.initializing = TRUE] ELSE objects[m]]
         reentered == ordinal = 0 /\ objects[l].initializing
         returns == /\ calls' = Below
                    /\ handles' = [handles EXCEPT ![CurrentCall.by][l] = @ + 1]
     IN \/ ~answer /\ calls' = Below /\ UNCHANGED <<objects, handles, built>>
        \/ answer /\ reentered /\ returns /\ UNCHANGED <<objects, built>>
        \/ /\ answer /\ ~reentered /\ ordinal < Len(entries)
           /\ LET e == entries[ordinal + 1] IN
                /\ calls' = LdsoCalls([CurrentCall EXCEPT !.n = ordinal + 1],
                                  [Call("constructor", e.lib) EXCEPT
                                     !.left = IF e.entry = 1 THEN world.opens[e.lib] ELSE <<>>])
                /\ built' = [built EXCEPT ![e.lib] = Append(@, e.entry)]
           /\ objects' = marked
           /\ UNCHANGED handles
        \/ /\ answer /\ ~reentered /\ ordinal >= Len(entries)
           /\ objects' = [m \in Libs |->
                IF Contains(order, m)
                THEN [marked[m] EXCEPT !.initialized = TRUE, !.initializing = FALSE]
                ELSE marked[m]]
           /\ returns
           /\ UNCHANGED built
  /\ UNCHANGED <<world, linked, answer, undone>>

(***************************************************************************)
(* dlclose.                                                                *)
(***************************************************************************)
Closing(c, l) == [Call("close", l) EXCEPT !.by = c]

ProgramCloses(l) ==
  /\ ~Running /\ handles[Program][l] > 0
  /\ calls' = <<Closing(Program, l)>>
  /\ UNCHANGED <<world, linked, objects, handles, answer, built, undone>>

\* ldso_fini_next: destructors only when this is the last reference, of every
\* object that goes with it; then ldso_close.
CloseGoesOn ==
  /\ StageOf("close")
  /\ LET l == CurrentCall.lib
         o == objects[l]
         last == o.refs = 1 /\ o.initialized /\ ~o.finalized
         order == FiniOrder(l)
         due == SelectSeq(order, LAMBDA m : objects[m].initialized /\ ~objects[m].finalized)
         entries == EntriesOf(due, <<2, 1>>)
     IN \/ /\ last /\ CurrentCall.n < Len(entries)
           /\ LET e == entries[CurrentCall.n + 1] IN
                /\ calls' = LdsoCalls([CurrentCall EXCEPT !.n = @ + 1],
                                  [Call("destructor", e.lib) EXCEPT
                                     !.left = IF e.entry = 2 THEN world.opens[e.lib] ELSE <<>>])
                /\ undone' = [undone EXCEPT ![e.lib] = Append(@, e.entry)]
           /\ UNCHANGED <<objects, handles>>
        \/ /\ ~last \/ CurrentCall.n >= Len(entries)
           /\ objects' = [m \in Libs |-> IF last /\ Contains(order, m)
                                         THEN [objects[m] EXCEPT !.finalized = TRUE]
                                         ELSE objects[m]]
           /\ handles' = [handles EXCEPT ![CurrentCall.by][l] = @ - 1]
           /\ calls' = Goes(Call("drop", l))
           /\ UNCHANGED undone
  /\ UNCHANGED <<world, linked, answer, built>>

\* Mutant: what the object needed keeps the references it held.
ReleaseKeepsNeeds ==
  /\ StageOf("drop")
  /\ LET l == CurrentCall.lib IN
       /\ objects' = IF objects[l].refs > 1 THEN [objects EXCEPT ![l].refs = @ - 1]
                     ELSE [objects EXCEPT ![l] = NoObject]
       /\ calls' = Below
       /\ linked' = IF objects[l].refs > 1 THEN linked ELSE Without(linked, l)
  /\ UNCHANGED <<world, handles, answer, built, undone>>

\* ldso_release_reference: the last one unlinks the object and drops the
\* references it holds.
ldso_release_reference ==
  /\ StageOf("drop")
  /\ LET l == CurrentCall.lib IN
       /\ objects' = [objects EXCEPT ![l].refs = @ - 1]
       /\ IF objects[l].refs > 1
          THEN calls' = Below /\ UNCHANGED linked
          ELSE calls' = Goes(Call("shed", l)) /\ linked' = Without(linked, l)
  /\ UNCHANGED <<world, handles, answer, built, undone>>

\* Its loop over the dependencies, which a failed load shares; then kfree.
Shed ==
  /\ StageOf("shed")
  /\ LET l == CurrentCall.lib
         deps == objects[l].deps
     IN IF CurrentCall.n < Len(deps)
        THEN /\ calls' = LdsoCalls([CurrentCall EXCEPT !.n = @ + 1],
                               Call("drop", deps[CurrentCall.n + 1]))
             /\ UNCHANGED objects
        ELSE calls' = Below /\ objects' = [objects EXCEPT ![l] = NoObject]
  /\ UNCHANGED <<world, linked, handles, answer, built, undone>>

(***************************************************************************)
(* Callbacks: user code.  A first constructor may open libraries, which the*)
(* first destructor closes.                                                *)
(***************************************************************************)
CallbackOpens ==
  /\ StageOf("constructor") /\ CurrentCall.left # <<>>
  /\ calls' = Goes([CurrentCall EXCEPT !.left = Tail(@)])
              \o Opening(CurrentCall.lib, Head(CurrentCall.left))
  /\ UNCHANGED <<world, linked, objects, handles, answer, built, undone>>

CallbackCloses ==
  /\ StageOf("destructor") /\ CurrentCall.left # <<>>
  /\ LET l == Head(CurrentCall.left)
         goes == [CurrentCall EXCEPT !.left = Tail(@)]
     IN calls' = IF handles[CurrentCall.lib][l] = 0 THEN Goes(goes)
                 ELSE LdsoCalls(goes, Closing(CurrentCall.lib, l))
  /\ UNCHANGED <<world, linked, objects, handles, answer, built, undone>>

CallbackReturns ==
  /\ (StageOf("constructor") \/ StageOf("destructor")) /\ CurrentCall.left = <<>>
  /\ calls' = Below
  /\ answer' = TRUE
  /\ UNCHANGED <<world, linked, objects, handles, built, undone>>

LdsoNext ==
  \/ \E l \in Libs : ProgramOpens(l) \/ ProgramCloses(l)
  \/ LoadBegins \/ LoadGoesOn \/ OpenGoesOn
  \/ CloseGoesOn \/ ldso_release_reference \/ Shed
  \/ CallbackOpens \/ CallbackCloses \/ CallbackReturns

LdsoSpec == LdsoInit /\ [][LdsoNext]_ldsoVars

(***************************************************************************)
(* Properties.                                                             *)
(***************************************************************************)
LdsoTypeOK ==
  /\ world \in Worlds
  /\ Chained \subseteq Libs /\ Cardinality(Chained) = Len(linked)
  /\ \A l \in Libs : objects[l].refs \in 0 .. 20
  /\ handles \in [Callers -> [Libs -> 0 .. MaxHandles]]
  /\ answer \in BOOLEAN

RECURSIVE SumOver(_, _)
SumOver(f, s) == IF s = {} THEN 0
                 ELSE LET x == CHOOSE y \in s : TRUE IN f[x] + SumOver(f, s \ {x})

\* No call of the kernel is under way: the loader is at rest between system
\* calls, in the program or in a callback.
AtRest == Running => CurrentCall.op \in {"open", "close", "constructor", "destructor"}

\* A call of dlopen has its reference from the load's return on.
Waiting(l) ==
  Cardinality({i \in DOMAIN calls :
    calls[i].op = "open" /\ calls[i].lib = l
    /\ (calls[i].n > 0 \/ (i = Len(calls) /\ answer))})

\* References are what they count: handles, calls of dlopen that have their
\* object, and objects that need this one.  An object is there exactly while
\* it has any (release_reference, the failure path of ldso_load_source).
RefsAreHolders ==
  AtRest =>
    \A l \in Libs :
      /\ objects[l].refs = SumOver([c \in Callers |-> handles[c][l]], Callers)
                           + Waiting(l) + EdgesFrom(Chained, l)
      /\ l \in Chained <=> objects[l].refs > 0

\* Constructors run once each and in the file's order, after those of every
\* dependency; destructors run backwards (ldso_init_next, ldso_fini_next).
BuiltOnce ==
  \A l \in Libs :
    /\ \E k \in 0 .. Len(LdsoEntries) : built[l] = SubSeq(LdsoEntries, 1, k)
    /\ undone[l] \in {<<>>, <<2>>, <<2, 1>>}
    /\ (l \in Chained /\ built[l] # <<>>) =>
         \A d \in ReachableFrom({l}) \ {l} : built[d] = LdsoEntries

\* What dlopen gave to the program is ready, and stays so: constructed, and
\* not destroyed while somebody else holds it.
HandlesAreReady ==
  ~Running => \A l \in Chained : built[l] = LdsoEntries /\ undone[l] = <<>>

\* An object leaves only after all its destructors have run, if it was built:
\* ldso_will_unload foresees what release_reference unloads.
UndoneBeforeGone ==
  \A l \in Libs : l \notin Chained /\ built[l] # <<>> => undone[l] = <<2, 1>>

\* What a library's relocations point into stays mapped as long as it does.
BindingsLive ==
  AtRest => \A l \in Chained : \A b \in objects[l].bound : b[2] \in Chained

\* Destructors of a library run while what it needs is still intact: every
\* library that needs one being destroyed is destroyed before.
DependentsGoFirst ==
  \A l \in Chained : undone[l] # <<>> =>
    \A m \in Chained : (m # l /\ l \in ReachableFrom({m})) => undone[m] = <<2, 1>>

\* The order of destructors follows from the order of a tree; where a library
\* is needed along two ways it does not (DependentsGoFirst fails).
IsForest ==
  \A l \in Libs :
    Cardinality({e \in Libs \X (1 .. 8) : e[2] \in DOMAIN world.needs[e[1]]
                                          /\ world.needs[e[1]][e[2]] = l}) <= 1

LdsoSafe ==
  /\ LdsoTypeOK /\ RefsAreHolders /\ BuiltOnce /\ HandlesAreReady
  /\ UndoneBeforeGone /\ BindingsLive
  /\ IsForest => DependentsGoFirst
=============================================================================
