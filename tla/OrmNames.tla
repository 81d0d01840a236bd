------------------------------ MODULE OrmNames ------------------------------
(***************************************************************************)
(* The names the ORM layer gives to tables, indexes and constraints        *)
(* (envoxy/db/orm: constants, meta, mixin, schema) and those the migration *)
(* environment of a service takes for its own                              *)
(* (envoxy/tools/alembic/alembic/env.py).                                  *)
(*                                                                         *)
(* A name is the sequence of its words, the parts between underscores; an  *)
(* underscore at an end gives an empty word there.  Its length is counted  *)
(* in words and the limits are scaled with it.  Letters outside [a-z0-9]   *)
(* are taken as replaced already, so names are lower case.                 *)
(***************************************************************************)
EXTENDS Naturals, Sequences, SequencesExt

CONSTANTS
  Limit,        \* the length up to which a generated name is kept (60)
  Kept,         \* what remains of a longer one before its hash (51)
  VersionLimit, \* what is kept of a namespace in a version table (40)
  Plural(_),    \* inflect's plural of a word
  Hash(_)       \* eight digits of the SHA1 of a name, as one word

ASSUME NamesAssumption ==
  /\ Limit \in Nat /\ Kept \in Nat /\ VersionLimit \in Nat
  /\ Kept + 1 <= Limit

Unset == <<>>

\* str.startswith with a prefix that ends in an underscore.
StartsWith(name, prefix) == IsStrictPrefix(prefix, name)

AuxTablePrefix(ns) == <<"aux">> \o ns

\* schema.prefixed, schema.Table, and the mixin's test for foreign keys: any
\* name that begins with aux_ counts as prefixed.
Prefixed(name, prefix) ==
  IF StartsWith(name, prefix) \/ StartsWith(name, <<"aux">>) THEN name
  ELSE prefix \o name

Deprefixed(name, prefix) ==
  IF StartsWith(name, prefix) THEN SubSeq(name, Len(prefix) + 1, Len(name))
  ELSE name

\* EnvoxyMeta: the exception as it is, otherwise the plural of the explicit
\* name or of the class's; here only the service's own prefix counts.
TableName(model, prefix) ==
  LET base == IF model.explicit # Unset THEN model.explicit ELSE model.class
      name == IF model.exception # Unset THEN model.exception
              ELSE ReplaceAt(base, Len(base), Plural(Last(base)))
  IN  IF StartsWith(name, prefix) THEN name ELSE prefix \o name

Shorten(name) ==
  IF Len(name) <= Limit THEN name
  ELSE Append(SubSeq(name, 1, Kept), Hash(name))

\* What the mixin sees of what an argument is about, in __init_subclass__: the
\* expressions of an index, the text of a check and the tables a foreign key
\* refers to.  The columns of a unique, foreign key or exclude constraint are
\* named by strings that SQLAlchemy resolves when it attaches the constraint
\* to its table, later: here arg.columns is empty and the default is taken.
About(arg, prefix) ==
  CASE arg.kind = "idx" -> IF arg.cols = Unset THEN <<"expr">> ELSE arg.cols
    [] arg.kind = "ck"  -> <<Hash(IF arg.cols = Unset THEN <<"ck">> ELSE arg.cols)>>
    [] arg.kind = "uq"  -> <<"cols">>
    [] arg.kind = "ex"  -> <<"expr">>
    [] arg.kind = "fk"  -> <<"col", "to">> \o (IF arg.ref = Unset THEN <<"ref">>
                                             ELSE Deprefixed(arg.ref, prefix))
    [] arg.kind = "pk"  -> <<>>

\* _make_index_name, _make_unique_name, _make_fk_name, _make_check_name,
\* _make_pk_name and _make_exclude_name: a kind, the table and what the
\* constraint is about.  They run in __init_subclass__, before the metaclass
\* has named the table: without __tablename__ the word is "table".
MadeName(arg, prefix) ==
  <<arg.kind>>
    \o (IF arg.table = Unset THEN <<"table">> ELSE Deprefixed(arg.table, prefix))
    \o About(arg, prefix)

\* Fault: every pass over the arguments adds the prefix again.
NormalizeAlways(arg, prefix) ==
  [arg EXCEPT !.name =
     prefix \o (IF @ = Unset THEN Shorten(MadeName(arg, prefix)) ELSE @)]

\* _normalize_indexes_and_uniques and _normalize_foreign_keys, for the name
\* of one argument of __table_args__: the prefix is added after shortening,
\* and a name that was given is not shortened.
Normalize(arg, prefix) ==
  [arg EXCEPT !.name =
     IF @ = Unset THEN prefix \o Shorten(MadeName(arg, prefix))
     ELSE IF StartsWith(@, prefix) THEN @ ELSE prefix \o @]

\* The target of a foreign key, by schema.ForeignKey or by the mixin's
\* _prefix_fk_spec: table.column, or with a schema in front unchanged.
ForeignKey(spec, prefix) ==
  IF spec.schema # Unset THEN spec
  ELSE [spec EXCEPT !.table = Prefixed(@, prefix)]

-----------------------------------------------------------------------------
(* The migration environment.  env is the process's environment: own is    *)
(* ENVOXY_SERVICE_NAMESPACE, other is SERVICE_NAMESPACE.                   *)

\* strip("_"): empty words at the ends go.
StripUnderscores(ns) ==
  LET full == {i \in DOMAIN ns : ns[i] # ""}
      first == CHOOSE i \in full : \A j \in full : i <= j
      last  == CHOOSE i \in full : \A j \in full : i >= j
  IN  IF full = {} THEN Unset ELSE SubSeq(ns, first, last)

ServiceNamespace(env) ==
  StripUnderscores(IF env.own # Unset THEN env.own ELSE env.other)

\* The prefix the ORM computed at import; SERVICE_NAMESPACE is not seen there.
OrmPrefix(env) == AuxTablePrefix(env.own)

\* Fault: the namespace is taken as env.py reads it, stripped, instead of
\* the constant the ORM names tables with.
ManagedPrefixStripped(env) == AuxTablePrefix(ServiceNamespace(env))

ManagedPrefix(env) ==
  IF OrmPrefix(env) = <<"aux">> THEN AuxTablePrefix(ServiceNamespace(env))
  ELSE OrmPrefix(env)

\* Without a namespace the environment refuses to run.
MayMigrate(env) == ServiceNamespace(env) # Unset

VersionTable(env) ==
  LET ns == ServiceNamespace(env)
  IN  <<"alembic", "version">>
      \o SubSeq(ns, 1, IF Len(ns) > VersionLimit THEN VersionLimit ELSE Len(ns))

\* Fault: any table of the framework is taken, whose ever it is.
IncludedAnyAux(object, env) ==
  object.type \in {"table", "index"} => StartsWith(object.table, <<"aux">>)

\* include_object and include_name: tables by their name, indexes by their
\* table's, everything else with its table.
Included(object, env) ==
  object.type \in {"table", "index"} =>
    StartsWith(object.table, ManagedPrefix(env))

-----------------------------------------------------------------------------
(* What the naming rules are for.                                          *)

\* A class's arguments are normalized again for each of its subclasses, and
\* a foreign key by its constructor and by the mixin: twice is as once.
Idempotent(arg, spec, prefix) ==
  /\ Normalize(Normalize(arg, prefix), prefix) = Normalize(arg, prefix)
  /\ ForeignKey(ForeignKey(spec, prefix), prefix) = ForeignKey(spec, prefix)

\* What is asked of the digest: of two names, the hash of a long one is not
\* the last word of what the other is shortened to, a hash or its own.
HashTells(made, long) ==
  Len(long) > Limit /\ made # long =>
    Hash(long) # (IF Len(made) > Limit THEN Hash(made) ELSE Last(made))

\* The name of an argument that has none tells, among those of its table, the
\* kind, of an index its columns, of a check its text and of a foreign key the
\* table it refers to, shortened or not; and nothing else.  So two unique or
\* two exclude constraints of a table, and two foreign keys to one table, get
\* one name whatever their columns are, although
\* .github/instructions/copilot-instructions.md:66-67 promises uq_{table}_{cols}
\* and fk_{table}_{local_col}_to_{ref_table}.  All classes that leave their
\* name to the metaclass count as one table here, for they share the word.
NamesTell(a, b, prefix) ==
  a.name = Unset /\ b.name = Unset /\ a.table = b.table =>
    (Normalize(a, prefix).name = Normalize(b, prefix).name
       <=> a.kind = b.kind /\ About(a, prefix) = About(b, prefix))

\* A foreign key finds the table of a model by its full name and by its name
\* without the prefix, unless that begins with aux_ itself.
ForeignKeyFinds(model, prefix) ==
  LET table == TableName(model, prefix)
      to(t) == ForeignKey([schema |-> Unset, table |-> t], prefix).table
  IN  /\ to(table) = table
      /\ \/ StartsWith(Deprefixed(table, prefix), <<"aux">>)
         \/ to(Deprefixed(table, prefix)) = table

\* Migrations of a service manage every table its ORM maps, provided that
\* ENVOXY_SERVICE_NAMESPACE is set.  With SERVICE_NAMESPACE alone they run too,
\* but look for aux_<ns>_ while the ORM names its tables aux_: nothing is said
\* of that case, in which they manage only what is named so by chance.
OwnManaged(model, env) ==
  MayMigrate(env) /\ env.own # Unset =>
    LET table == TableName(model, OrmPrefix(env))
    IN  Included([type |-> "table", table |-> table], env)

\* They manage a table of another service only if one namespace begins the
\* other (foo and foo_bar), and never a table of versions.
ForeignUntouched(model, env, other) ==
  MayMigrate(env) /\ env.own # Unset /\ other.own # Unset =>
    /\ Included([type |-> "table",
                 table |-> TableName(model, OrmPrefix(other))], env) =>
         IsPrefix(env.own, other.own) \/ IsPrefix(other.own, env.own)
    /\ MayMigrate(other) =>
         ~ Included([type |-> "index", table |-> VersionTable(other)], env)

\* Two services keep their versions apart unless their namespaces agree in
\* all that is kept of them.
VersionsApart(env, other) ==
  MayMigrate(env) /\ MayMigrate(other)
    /\ VersionTable(env) = VersionTable(other)
  => \/ ServiceNamespace(env) = ServiceNamespace(other)
     \/ Len(ServiceNamespace(env)) >= VersionLimit
=============================================================================
