----------------------------- MODULE PathMapper -----------------------------
(***************************************************************************)
(* Translation between the paths an assistant uses and the absolute ones   *)
(* the adapter knows.  list_breakpoints shows reverse(path), and what it   *)
(* shows comes back as the argument of set_breakpoints, through resolve.   *)
(*                                                                         *)
(* A path is a sequence of components, absolute or relative.               *)
(***************************************************************************)
EXTENDS Naturals, Sequences, SequencesExt

CONSTANTS
  Components,    \* names of directories and files
  MaxLength,     \* bound: components of a path
  MaxAliases,    \* bound: aliases registered
  MaxBases       \* bound: base directories registered

VARIABLES
  pathAliases,   \* PathMapper.aliases: alias -> absolute directory
  pathBases,     \* PathMapper.base_dirs
  pathExisting   \* the absolute paths there are on disk

pathVars == <<pathAliases, pathBases, pathExisting>>

Parts == SeqOf(Components, MaxLength) \ {<<>>}
Absolute(parts) == [absolute |-> TRUE, parts |-> parts]
Relative(parts) == [absolute |-> FALSE, parts |-> parts]
None == [absolute |-> FALSE, parts |-> <<>>]

Rest(parts, prefix) == SubSeq(parts, Len(prefix) + 1, Len(parts))

Init ==
  /\ pathAliases = [a \in {} |-> <<>>] /\ pathBases = <<>>
  /\ pathExisting \in {{}, {p \in Parts : Len(p) = MaxLength}}

\* register_alias: a second registration of an alias replaces the first.
register_alias ==
  /\ \E alias, dir \in {p \in Parts : Len(p) < MaxLength} :
       pathAliases' = [a \in DOMAIN pathAliases \cup {alias} |->
                         IF a = alias THEN dir ELSE pathAliases[a]]
  /\ Cardinality(DOMAIN pathAliases') <= MaxAliases
  /\ UNCHANGED <<pathBases, pathExisting>>

register_base_dir ==
  /\ Len(pathBases) < MaxBases
  /\ \E dir \in {p \in Parts : Len(p) < MaxLength} : pathBases' = Append(pathBases, dir)
  /\ UNCHANGED <<pathAliases, pathExisting>>

Next == register_alias \/ register_base_dir

\* The base directory for a relative path: the first under which it exists, or just
\* the first.
ViaBase(parts) ==
  LET found == SelectInSeq(pathBases, LAMBDA b : b \o parts \in pathExisting) IN
  IF pathBases = <<>>
    THEN None
    ELSE Absolute(pathBases[IF found # 0 THEN found ELSE 1] \o parts)

\* The aliases that a relative path starts with; the longest one is replaced.
Matching(parts) == {a \in DOMAIN pathAliases : IsPrefix(a, parts)}
ViaAlias(parts) ==
  LET alias == CHOOSE a \in Matching(parts) : \A b \in Matching(parts) : Len(b) <= Len(a) IN
  Absolute(pathAliases[alias] \o Rest(parts, alias))

\* Mutant: the base directories are tried before the aliases.
resolve_BasesFirst(path) ==
  CASE path.absolute -> path
    [] ~path.absolute /\ pathBases # <<>> -> ViaBase(path.parts)
    [] ~path.absolute /\ pathBases = <<>> /\ Matching(path.parts) # {} -> ViaAlias(path.parts)
    [] OTHER -> None

resolve(path) ==
  CASE path.absolute -> path
    [] ~path.absolute /\ Matching(path.parts) # {} -> ViaAlias(path.parts)
    [] ~path.absolute /\ Matching(path.parts) = {} -> ViaBase(path.parts)

\* The aliases whose directory contains an absolute path, those with the longest
\* directory: which of several comes first is up to the HashMap.
Containing(parts) == {a \in DOMAIN pathAliases : IsPrefix(pathAliases[a], parts)}
Closest(parts) ==
  {a \in Containing(parts) : \A b \in Containing(parts) : Len(pathAliases[b]) <= Len(pathAliases[a])}

ShownByAlias(parts) == {Relative(a \o Rest(parts, pathAliases[a])) : a \in Closest(parts)}

\* The first base directory that contains an absolute path, 0 for none.
BaseOf(parts) == SelectInSeq(pathBases, LAMBDA b : IsPrefix(b, parts))

\* The paths that reverse may give for an absolute path.
reverse(parts) ==
  CASE Containing(parts) # {} -> ShownByAlias(parts)
    [] Containing(parts) = {} /\ BaseOf(parts) # 0 -> {Relative(Rest(parts, pathBases[BaseOf(parts)]))}
    [] Containing(parts) = {} /\ BaseOf(parts) = 0 -> {None}

-----------------------------------------------------------------------------
\* Aliases are relative, their directories and the base directories absolute.
TypeOK ==
  /\ \A a \in DOMAIN pathAliases : a \in Parts /\ pathAliases[a] \in Parts
  /\ pathBases \in Seq(Parts)

\* Neither of two aliases starts with the other.
PrefixFree == \A a, b \in DOMAIN pathAliases : IsPrefix(a, b) => a = b

\* mapping.rs: a bi-directional path mapper.  What is listed for a file leads back to
\* that file, through an alias whenever no alias starts with another, whatever the base
\* directories; through a base directory when it is the only one and there is no alias.
ListedPathResolvesBack ==
  \A parts \in Parts :
    PrefixFree /\ (\/ Containing(parts) # {}
                   \/ DOMAIN pathAliases = {} /\ Len(pathBases) = 1 /\ IsPrefix(pathBases[1], parts))
      => \A shown \in reverse(parts) : resolve(shown) = Absolute(parts)

=============================================================================
