---------------------------- MODULE Alternatives ----------------------------
(***************************************************************************)
(* Alternatives of packages: src/lib/lua/backend.lua, from                 *)
(* user_path_symlink to pkg_remove_alternatives.                           *)
(*                                                                         *)
(* A package may offer a file of its own for a path that others offer one  *)
(* for too, each with a priority.  A symbolic link is there for the best.  *)
(* alternatives tells what the packages in the status offer, links the     *)
(* package each link leads to.                                             *)
(***************************************************************************)
EXTENDS Naturals, FiniteSets

CONSTANTS Pkgs, LinkPaths, NoLink

Alternative == [path : LinkPaths, priority : Nat]
Links == [LinkPaths -> Pkgs \cup {NoLink}]

Offers(alternatives, p, path) == {alt \in alternatives[p] : alt.path = path}

\* choose_alternative, over packages in any order: the last one of those with the best priority.
Best(alternatives, path, skip) ==
  LET offered == UNION {Offers(alternatives, q, path) : q \in Pkgs \ skip}
  IN {q \in Pkgs \ skip : \E alt \in Offers(alternatives, q, path) :
                            \A other \in offered : alt.priority >= other.priority}

choose_alternative(alternatives, path, skip) ==
  IF Best(alternatives, path, skip) = {} THEN {NoLink} ELSE Best(alternatives, path, skip)

\* Links after the paths that p offers something for were visited.
Visit(alternatives, links, p, Choices(_)) ==
  {new \in Links : \A path \in LinkPaths :
     IF Offers(alternatives, p, path) = {} THEN new[path] = links[path]
     ELSE new[path] \in Choices(path)}

\* The link leads to p if p is chosen, and is left alone otherwise.
pkg_update_alternatives(alternatives, links, p) ==
  Visit(alternatives, links, p,
        LAMBDA path : {IF q = p THEN p ELSE links[path] :
                         q \in choose_alternative(alternatives, path, {})})

\* Fault: the package that goes is a candidate.
RemoveNotSkipped(alternatives, links, p) ==
  Visit(alternatives, links, p, LAMBDA path : choose_alternative(alternatives, path, {}))

\* The link leads to the best of the others, or goes.
pkg_remove_alternatives(alternatives, links, p) ==
  Visit(alternatives, links, p, LAMBDA path : choose_alternative(alternatives, path, {p}))
=============================================================================
