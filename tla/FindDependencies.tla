-------------------------- MODULE FindDependencies --------------------------
(***************************************************************************)
(* scripts/find_dependencies.py: the transitive DEPENDS of a recipe,       *)
(* written as a YAML file of two parts, a tree of scopes and a flat list   *)
(* of packages.                                                            *)
(*                                                                         *)
(* What bitbake would answer is a world: which recipe provides a name      *)
(* (NoRecipe if the lookup raises or finds nothing), the DEPENDS of each   *)
(* recipe, a sequence of names in which one may stand twice, and how many  *)
(* repositories its SRC_URI holds.  The recursion of find_dependencies is  *)
(* a stack of frames; scopes and listed are what has been written.         *)
(***************************************************************************)
EXTENDS Naturals, Sequences, FiniteSets, Functions, SequencesExt

CONSTANTS
  Names, Recipes, NoRecipe,
  Root,               \* the recipe argument
  ASSUME_PROVIDED, KNOWN_BUILD_TOOLS,
  SKIP_BUILD_TOOLS,
  Worlds

DependsAssumption ==
  /\ Root \in Names /\ NoRecipe \notin Recipes
  /\ ASSUME_PROVIDED \subseteq Names /\ KNOWN_BUILD_TOOLS \subseteq Names
  /\ SKIP_BUILD_TOOLS \in BOOLEAN
  /\ \A w \in Worlds :
       /\ w.provider \in [Names -> Recipes \union {NoRecipe}]
       /\ w.DEPENDS \in [Recipes -> Seq(Names)]
       /\ w.repos \in [Recipes -> Nat]

VARIABLES
  world,
  pc,
  stack,        \* activations of find_dependencies, the running one last
  packages,     \* names found, in order of discovery
  recipe_info,  \* names whose recipe data has been stored
  scopes,       \* entries of "scopes" written so far
  listed        \* entries of "packages" written so far

vars == <<world, pc, stack, packages, recipe_info, scopes, listed>>

assume_provided == ASSUME_PROVIDED \union (IF SKIP_BUILD_TOOLS THEN KNOWN_BUILD_TOOLS ELSE {})

pn(n) == world.provider[n]

\* bitbake builds what a recipe needs before the recipe, and refuses a cycle: the names can be ranked,
\* each above what it needs.
Acyclic(w, height) ==
  \A n \in Names : w.provider[n] # NoRecipe =>
    \A m \in ToSet(w.DEPENDS[w.provider[n]]) \ assume_provided : height[m] < height[n]

\* DEPENDS of a name that has a recipe, without what bitbake assumes to be provided.
Depends(n) ==
  LET d == world.DEPENDS[pn(n)]
      kept[i \in 0 .. Len(d)] == IF i = 0 THEN <<>>
                                ELSE IF d[i] \in assume_provided THEN kept[i - 1]
                                ELSE Append(kept[i - 1], d[i])
  IN kept[Len(d)]

Fails(n) == pn(n) = NoRecipe

Init ==
  /\ world \in Worlds
  /\ pc = "start" /\ stack = <<>> /\ packages = <<>> /\ recipe_info = {}
  /\ scopes = <<>> /\ listed = <<>>

Frame(n) == [rn |-> n, pass |-> "add", at |-> 1]

\* The entry of an activation and the line that closes it. Its order is its depth; the project, of
\* order 1, has none.
Opened(n, k) == [order |-> k, pn |-> pn(n), leaf |-> Depends(n) = <<>>, errors |-> FALSE]
Closed(n, k) == [Opened(n, k) EXCEPT !.errors = TRUE]

\* print_package raises when it formats its message about several repositories, from a variable
\* that does not exist.
print_package_fails(n) == world.repos[pn(n)] > 1

NothingToDo ==
  /\ pc = "start" /\ Fails(Root)
  /\ pc' = "nothing"
  /\ UNCHANGED <<world, stack, packages, recipe_info, scopes, listed>>

PrintProject ==
  /\ pc = "start" /\ ~Fails(Root) /\ ~print_package_fails(Root)
  /\ pc' = "walk" /\ recipe_info' = {Root}
  /\ stack' = <<Frame(Root)>>
  /\ UNCHANGED <<world, packages, scopes, listed>>

ProjectFails ==
  /\ pc = "start" /\ ~Fails(Root) /\ print_package_fails(Root)
  /\ pc' = "NameError"
  /\ UNCHANGED <<world, stack, packages, recipe_info, scopes, listed>>

Top == Last(stack)
Pending(pass) == pc = "walk" /\ stack # <<>> /\ Top.pass = pass /\ Top.at <= Len(Depends(Top.rn))
Dep == Depends(Top.rn)[Top.at]
SetTop(f) == stack' = [stack EXCEPT ![Len(stack)] = f]
Advance == SetTop([Top EXCEPT !.at = @ + 1])

KnownAgain ==
  /\ Pending("add") /\ Dep \in ToSet(packages)
  /\ UNCHANGED vars

\* First pass: what is in the list is not looked up again.
Known ==
  /\ Pending("add") /\ Dep \in ToSet(packages)
  /\ Advance
  /\ UNCHANGED <<world, pc, packages, recipe_info, scopes, listed>>

Lookup ==
  /\ Pending("add") /\ Dep \notin ToSet(packages) /\ ~Fails(Dep)
  /\ packages' = Append(packages, Dep)
  /\ recipe_info' = recipe_info \union {Dep}
  /\ Advance
  /\ UNCHANGED <<world, pc, scopes, listed>>

LookupFailsQuietly ==
  /\ Pending("add") /\ Dep \notin ToSet(packages) /\ Fails(Dep)
  /\ pc' = "print"
  /\ UNCHANGED <<world, stack, packages, recipe_info, scopes, listed>>

\* get_recipe_info returned [], which has no getVar.
LookupFails ==
  /\ Pending("add") /\ Dep \notin ToSet(packages) /\ Fails(Dep)
  /\ packages' = Append(packages, Dep)
  /\ pc' = "AttributeError"
  /\ UNCHANGED <<world, stack, recipe_info, scopes, listed>>

AllAdded ==
  /\ pc = "walk" /\ stack # <<>> /\ Top.pass = "add" /\ Top.at > Len(Depends(Top.rn))
  /\ SetTop([Top EXCEPT !.pass = "descend", !.at = 1])
  /\ UNCHANGED <<world, pc, packages, recipe_info, scopes, listed>>

DescendAtMostOnce ==
  /\ Pending("descend")
  /\ IF \E i \in DOMAIN scopes : scopes[i].pn = pn(Dep)
     THEN Advance /\ UNCHANGED scopes
     ELSE /\ stack' = Append([stack EXCEPT ![Len(stack)].at = @ + 1], Frame(Dep))
          /\ scopes' = Append(scopes, Opened(Dep, Len(stack) + 1))
  /\ UNCHANGED <<world, pc, packages, recipe_info, listed>>

\* Second pass: a call for each dependency, known or not.
Descend ==
  /\ Pending("descend")
  /\ stack' = Append([stack EXCEPT ![Len(stack)].at = @ + 1], Frame(Dep))
  /\ scopes' = Append(scopes, Opened(Dep, Len(stack) + 1))
  /\ UNCHANGED <<world, pc, packages, recipe_info, listed>>

Return ==
  /\ pc = "walk" /\ stack # <<>> /\ Top.pass = "descend" /\ Top.at > Len(Depends(Top.rn))
  /\ stack' = Front(stack)
  /\ IF Len(stack) > 1
     THEN pc' = pc /\ scopes' = Append(scopes, Closed(Top.rn, Len(stack)))
     ELSE pc' = "print" /\ UNCHANGED scopes
  /\ UNCHANGED <<world, packages, recipe_info, listed>>

Unlisted == SubSeq(packages, Len(listed) + 1, Len(packages))

PrintPackage ==
  /\ pc = "print" /\ Unlisted # <<>> /\ ~print_package_fails(Head(Unlisted))
  /\ listed' = Append(listed, pn(Head(Unlisted)))
  /\ UNCHANGED <<world, pc, stack, packages, recipe_info, scopes>>

PackageFails ==
  /\ pc = "print" /\ Unlisted # <<>> /\ print_package_fails(Head(Unlisted))
  /\ pc' = "NameError"
  /\ UNCHANGED <<world, stack, packages, recipe_info, scopes, listed>>

Close ==
  /\ pc = "print" /\ Unlisted = <<>>
  /\ pc' = "done"
  /\ UNCHANGED <<world, stack, packages, recipe_info, scopes, listed>>

Next ==
  \/ NothingToDo \/ PrintProject \/ ProjectFails
  \/ Known \/ Lookup \/ LookupFails \/ AllAdded \/ Descend \/ Return
  \/ PrintPackage \/ PackageFails \/ Close

\* One thread that blocks on nothing.
Spec == Init /\ [][Next]_vars /\ WF_vars(Next)

-----------------------------------------------------------------------------
\* The names of the graph below Root: the least set that holds what Root and each of its members needs.
Needs(n) == IF Fails(n) THEN {} ELSE ToSet(Depends(n))
Complete(S) == Needs(Root) \subseteq S /\ \A n \in S : Needs(n) \subseteq S
Reached == {n \in Names : \A S \in SUBSET Names : Complete(S) => n \in S}

\* The tree of scopes, unfolded from the DEPENDS: of each name, when it is entered at order k.
Subtree ==
  LET T[n \in Names] == [k \in Nat |->
        IF Fails(n) THEN <<>>
        ELSE LET below == FlattenSeq([i \in DOMAIN Depends(n) |-> T[Depends(n)[i]][k + 1]])
             IN <<Opened(n, k)>> \o below \o <<Closed(n, k)>>]
  IN FlattenSeq([i \in DOMAIN Depends(Root) |-> T[Depends(Root)[i]][2]])

\* A file that was finished lists every recipe the project needs, once for each name, and none that is
\* assumed to be provided; a failed lookup never ends in such a file.
ListComplete ==
  pc = "done" =>
    /\ IsInjective(packages) /\ ToSet(packages) = Reached
    /\ listed = [i \in DOMAIN packages |-> pn(packages[i])]

\* The scopes of a finished file are the tree of the DEPENDS: every path, nested by depth, closed in order,
\* and "dependencies: []" exactly at the leaves.
FileComplete == ListComplete /\ (pc = "done" => scopes = Subtree)

\* The walk of a graph without cycles ends, and it ends with the file unless a lookup failed or a package has
\* several repositories; that this ends it too, and not in a message alone, is the state of :105.
Outcome ==
  <>(/\ pc \notin {"start", "walk", "print"}
     /\ pc = IF Fails(Root) THEN "nothing"
             ELSE IF print_package_fails(Root) THEN "NameError"
             ELSE IF \E n \in Reached : Fails(n) THEN "AttributeError"
             ELSE IF \E n \in Reached : print_package_fails(n) THEN "NameError"
             ELSE "done")

Closure == INSTANCE DependencyClosure WITH
  needs <- [n \in Names |-> Needs(n)],
  found <- ToSet(packages) \intersect recipe_info,
  complete <- pc = "done"

\* The script implements the closure: each name is discovered through one that was, and the end is reached only with all of them.
FindsClosure == Closure!Spec
=============================================================================
